SPECIFICATION FairSpec
CONSTANTS
  Calls = {c1, c2, c3}
  Keys = {k1}
  NoKey = NoKey
  Symbols = {A}
  NoCall = NoCall
  MaxAttempts = 2
  Ops <- AllOps
INVARIANTS AtMostOnce VersionChain
PROPERTIES EveryCallReturns Atomic
