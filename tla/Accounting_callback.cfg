CONSTANTS
  SponsoredLimit = 5
  PaidLimit = 2
SPECIFICATION Spec
INVARIANTS OneCallback
CHECK_DEADLOCK FALSE
