CONSTANTS
  Quiet = 2
  MaxWait = 3
  Leavers = {l1, l2}
  MaxUndo = 1
  MaxEdit = 2
  MaxQueue = 2
SPECIFICATION AutosaveSpec
INVARIANTS
  EditsReachDisk
  FlushedIsWritten
PROPERTIES
  AutosavesInOrder
CHECK_DEADLOCK FALSE
