SPECIFICATION StreamsSpec
CONSTANTS
  k1 = k1  k2 = k2  a1 = a1  a2 = a2
  Keys = {k1, k2}
  OneShot = {k1}
  MaxEvents = 2
  Requests = 3
  Accounts = {a1, a2}
  Targets <- ThreeRequests
INVARIANTS
  NothingMissed
  HandlesComeAndGo
  EveryWriteCountedOnce
  SettledMeansSeen
PROPERTIES
  StreamsGoOn
CHECK_DEADLOCK FALSE
