CONSTANTS
  Workers = {w1, w2}
  Subs = 2
  Saves = {2}
  Tiles = 2
  MaxVersion = 2
  MaxCrashes = 1
SPECIFICATION FairSpec
INVARIANTS
  WorkIsSharedOut
  RecordedNotNewerThanDrawn
  DiskRemembersFailures
  UpdateDrawsWhatItFound
  TrailingSaveCovers
PROPERTIES
  UpdateFinishes
