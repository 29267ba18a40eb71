CONSTANTS
  Tiles = {t1, t2}
  MaxPending = 1
  DiscardThreshold = 1
  MaxWrites = 2
  Users = {"chain", "save", "web", "purge"}
  Values = {{}, {1}, {2}, {1, 2}}
  NoFile = NoFile
  Empty = Empty
  Torn = Torn
  RenameAttempts = 2
  Watched = t1
  MaxCrashes = 1
SPECIFICATION FilesSpec
INVARIANTS
  WritesReachStorage
PROPERTIES
  CallsAreAtomic
CHECK_DEADLOCK FALSE
