SPECIFICATION UnderLoadSpec
CONSTANTS
  Intervals = {0, 1, 3}
  Resolution = 2
  Slack = 3
  MaxTime = 12
  MaxAdmitted = 5
INVARIANTS
  NoBurst
  OracleIsExact
  NoFalseAlarm
  
CHECK_DEADLOCK FALSE
