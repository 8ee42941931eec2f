SPECIFICATION FairSpec
CONSTANTS
  Tasks = {t1, t2, t3}
  NoTask = NoTask
  PoolSize = 2
  MaxBases = 2
  MaxRuns = 2
  MaxTorn = 1
INVARIANTS
  BasesAgree
  IdentitiesDistinct
  DownLeavesNothing
PROPERTIES
  CallersAnswered
CHECK_DEADLOCK FALSE
