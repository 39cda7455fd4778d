SPECIFICATION AwardsSpec
CONSTANTS
  Workers = {w1}
  Requests = {q1}
  Badges <- MCBadges
  Modes = {"verified_only"}
  Returns = {5}
  Grades = {"verified", "synthetic"}
  Indexes = {110}
  DayLength = 2
  BoundaryTolerance = 1
  EndFreshness = 1
  MaxTrustedGap = 2
  EligibilityThreshold = 90
  IntradayRetention = 4
  BatchSize = 2
  LastTick = 6
  MaxMoves = 1
  MaxMishaps = 1
  Symbols = {"A", "B"}
  Foreign = {"B"}
  Stores <- MCStores
  Recipe = "r"
  Series <- MCSeries
  FxRates <- MCRates
  Windows <- MCWindows
  Preview = TRUE
  DaysPerMonth = 2
  WeightTolerance <- MCTolerance
INVARIANTS EvidenceStands IndexFollowsPublished
PROPERTIES HistoryIsNotRewritten EvaluationsFinish
CHECK_DEADLOCK FALSE
