SPECIFICATION FairSpec
CONSTANTS
  h1 = h1  w1 = w1  p1 = p1  u1 = u1  k1 = k1
  Messages = {h1, w1, u1}
  Traffic <- MCTraffic
  Selectors <- MCSelectors
  MaxScopes = 1
  MaxHandles = 1
PROPERTIES
  ResetReturnsByItself
CHECK_DEADLOCK FALSE
