CONSTANTS
  Flushers = {f1, f2}
  Closers = {s1}
  MaxVersion = 2
  MaxTicks = 1
  MaxCrashes = 1
SPECIFICATION FairSpec
CHECK_DEADLOCK FALSE
INVARIANTS
  FlushCovers
  ShutdownCovers
PROPERTIES
  PublishedInOrder
  CallsReturn
