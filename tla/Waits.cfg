SPECIFICATION WaitsSpec
CONSTANTS
  w1 = w1  w2 = w2
  Waiters = {w1, w2}
  Count = 2
  Window = 1
  Chunk = 1
  MaxWrites = 3
  FewWrites = 1
  MaxConns = 2
  MaxLanded = 3
  Limit = 2
  Attempts = 2
  MaxBase = 1
INVARIANTS
  NoSetupGap
  AnswerIsOfThisWait
  SettledIsSettled
  AbsentIsAbsent
PROPERTIES
  ReceiptIsFound
CHECK_DEADLOCK FALSE
