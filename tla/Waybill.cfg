SPECIFICATION FairSpec
CONSTANTS
  Request = {q1, q2}
  Ref = {r1}
  Fee = {1, 2}
  Operator = {o1}
  NoRef = NoRef
  NoOne = NoOne
  MaxPolls = 2
INVARIANTS
  TypeOK
  NothingMovesUnpaid
PROPERTIES
  ImplementsPoll
  ImplementsOnce
  
  ParcelArrives
CHECK_DEADLOCK FALSE
