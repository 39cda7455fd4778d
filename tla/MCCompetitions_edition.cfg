SPECIFICATION FairSpec
CONSTANTS
  KnownUniverses <- MCUniverses
  ResolverWired = FALSE
  Users = {1, 2}
  Instruments = {"A", "B"}
  Foreign = {"B"}
  Quotes <- MCQuotes
  Rates = {2}
  Portfolios <- MCPortfolios
  Leavers = {2}
  Documents <- MCDocuments
  Splits <- MCSplits
  JoinOpensAt = 1
  JoinClosesAt = 2
  StartsAt = 2
  EndsAt = 3
  BaselineWindow = 0
  FinalizationWindow = 0
  Horizon = 4
  BaselineWorkers = {w1}
  BaselineBatch = 2
  FinalizationBatch = 1
  MaxVersions = 1
  MaxFaults = 1
CHECK_DEADLOCK FALSE
INVARIANTS ResultsFromStoredObservations FieldIsSettled AdmissionIgnoresIdleCash
PROPERTIES ResultsAreFinal FinalizationEnds
