CONSTANTS
  MaxRequests = 2
  MaxCrashes = 1
  Reclaiming = FALSE
SPECIFICATION Spec
INVARIANTS
  OffersCanResume
CHECK_DEADLOCK FALSE
