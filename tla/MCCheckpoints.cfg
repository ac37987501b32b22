SPECIFICATION CheckpointSpec
CONSTANTS
  Paths = {p, q}
  Agents = {a, b}
  MaxSnapshots = 3
  MaxCalls = 3
  MaxStarts = 2
  MaxUndos = 2
SYMMETRY Symmetry
CONSTRAINT Promising
CHECK_DEADLOCK FALSE
INVARIANTS UndoRetraces ForksNeedCompany
