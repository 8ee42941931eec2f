SPECIFICATION RollupFairSpec
CONSTANTS
  MaxSpawns = 4
INVARIANTS
  RunningIsRecorded
  NothingLeftBehind
PROPERTIES
  OperationsReturn
CHECK_DEADLOCK FALSE
