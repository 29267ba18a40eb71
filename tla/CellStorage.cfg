CONSTANTS
  Clients = {c1, c2}
  Positions = {p1, p2}
  CacheSize = 1
  MaxWrites = 2
  MaxCells = 4
SPECIFICATION CellSpec
INVARIANTS
  HandsOutEveryWrite
PROPERTIES
  SaveIsComplete
CHECK_DEADLOCK FALSE
