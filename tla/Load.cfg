SPECIFICATION LoadSpec
CONSTANTS
  MaxJobs = 2
  MaxConcurrency = 2
  Timeout = 2
  Unlimited = Unlimited
INVARIANTS
  OkMeansAllIterations
  WorkIsShared
  ResultIsFinal
PROPERTIES
  NoAdmissionOnceStopped
  StallIsReal
  EngineEnds
CHECK_DEADLOCK FALSE
