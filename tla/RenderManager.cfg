CONSTANTS
  update = update
  region = region
  lone = lone
  Workers = {w1, w2}
  Tasks = {update, region, lone}
  NoTask = NoTask
  Contains <- MCContains
  Same <- MCSame
  Units <- OneUnit
  HistorySize = 1
  Selections <- MCSelections
  MaxQueue = 3
  MaxErrors = 1
SPECIFICATION FairSpec
INVARIANTS
  BusyCountExact
  PendingIncomparable
PROPERTIES
  PendingStaysCovered
  TasksTakeTurns
  ShutdownReturns
  QueueKeepsMoving
