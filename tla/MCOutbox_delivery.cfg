SPECIFICATION FairSpec
CONSTANTS
  Workers = {w1, w2}
  MaxEvents = 2
  MaxAttempts = 2
  BatchSize = 2
  MaxInterruptions = 1
  Flaky = TRUE
CHECK_DEADLOCK FALSE
INVARIANTS SettledIsCovered
PROPERTIES EveryEventSettles
