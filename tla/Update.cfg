CONSTANTS
  Processes = {p1, p2}
  Paths = {"core"}
  Files <- MCFiles
  Ships <- MCShips
  MaxVersion = 3
  MaxCommands = 4
SPECIFICATION Spec
SYMMETRY Symmetries
CHECK_DEADLOCK FALSE
INVARIANTS AppliesApart RollbackReturns
