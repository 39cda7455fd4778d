SPECIFICATION Spec
CONSTANTS
  IndexFloor <- MCFloor
  Symbols = {"A"}
  Prices = {2}
  Quantities = {1, 2}
  Amounts = {1, 3}
  Fees = {0, 1}
  Ratios <- NoRatios
  Allocations <- NoTargets
  Kinds <- Correcting
  Store = "postgres"
  Backdating = FALSE
  MaxCommits = 4
  MaxMoves = 0
INVARIANTS CashMatchesLedger
CHECK_DEADLOCK FALSE
