CONSTANTS
  MaxRequests = 2
  MaxCrashes = 1
  Reclaiming = TRUE
SPECIFICATION FairSpec
INVARIANTS
  OneEngine
  EndedIsSettled
  FinishedIsKept
PROPERTIES
  CrashIsOffered
