CONSTANTS
  Versions = {1, 2, 3}
  Slots = {s1, s2}
SPECIFICATION FairSpec
INVARIANTS
  NeverWedged
  OutcomeIsKept
  InFlightIsTrue
  ConfirmedByCurrent
PROPERTIES
  ChecksKeepComing
