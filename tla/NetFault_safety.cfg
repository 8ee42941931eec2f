SPECIFICATION Spec
CONSTANTS
  h1 = h1  w1 = w1  p1 = p1  u1 = u1  k1 = k1
  Messages = {h1, w1, p1}
  Traffic <- MCTraffic
  Selectors <- MCStageSelectors
  MaxScopes = 2
  MaxHandles = 2
INVARIANTS
  PassMeansCarriedOut
  NothingStranded
CHECK_DEADLOCK FALSE
