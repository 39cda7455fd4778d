SPECIFICATION Spec
CONSTANTS
  IndexFloor <- MCFloor
  Symbols = {"A"}
  Prices = {2, 3}
  Quantities = {1}
  Amounts = {2}
  Fees = {1}
  Ratios <- NoRatios
  Allocations <- NoTargets
  Kinds <- Trading
  Store = "memory"
  Backdating = FALSE
  MaxCommits = 4
  MaxMoves = 1
INVARIANTS CashMatchesLedger EconomicIdentity
CHECK_DEADLOCK FALSE
