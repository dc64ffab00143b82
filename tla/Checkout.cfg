SPECIFICATION FairSpec
CONSTANTS
  Seat = {s1, s2}
  Call = {c1, c2}
  MaxPolls = 2
  MaxRetries = 2
INVARIANTS
  TypeOK
  BookedAsPaid
PROPERTIES
  ImplementsPoll
  FullStopsSales
  PageDecides
CHECK_DEADLOCK FALSE
