SPECIFICATION Spec
CONSTANTS
  A = A  B = B
INVARIANTS
  NoFalseAlarm
  DefectCaught
PROPERTIES
  ScriptsPass
CHECK_DEADLOCK FALSE
