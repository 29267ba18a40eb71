CONSTANTS
  Regions = {r1, r2}
  Cooldown = 3
  MinDelay = 2
  MaxChanges = 3
SPECIFICATION FairSpec
INVARIANTS
  ChangesAreCovered
  CloseMeansStopped
PROPERTIES
  ChangesAreUpdated
