SPECIFICATION Spec
CONSTANTS
  Request = {q1, q2}
  Total = 2
  WalkIns = {2, 3}
  MaxPush = 1
INVARIANTS
  TypeOK
PROPERTIES
  FullUntilReopened
CHECK_DEADLOCK FALSE
