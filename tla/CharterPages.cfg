SPECIFICATION PagesFairSpec
CONSTANTS
  Request = {q1, q2}
  Ref = {r1, r2}
  Price = {1, 2}
  NoRef = NoRef
  NoRequest = NoRequest
  MaxAttempts = 2
  Day = 2
  MaxDay = 2
INVARIANTS
  PagesTypeOK
  PaidFirst
PROPERTIES
  ImplementsOnce
  ImplementsPoll
  PollEnds
CHECK_DEADLOCK FALSE
