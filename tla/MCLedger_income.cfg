SPECIFICATION Spec
CONSTANTS
  IndexFloor <- MCFloor
  Symbols = {"A", "B"}
  Prices = {0, 2}
  Quantities = {2}
  Amounts = {3}
  Fees = {0}
  Ratios <- TwoForOne
  Allocations <- Targets
  Kinds <- Events
  Store = "postgres"
  Backdating = FALSE
  MaxCommits = 3
  MaxMoves = 1
INVARIANTS SolventBook
PROPERTIES IndexMovesByReturnOnly
CHECK_DEADLOCK FALSE
