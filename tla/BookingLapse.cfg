SPECIFICATION Spec
CONSTANTS
  Seat = {s1}
  User = {u1, u2}
  HoldReq = {h1}
  ConfirmReq = {c1, c2}
  Ref = {r1, r2}
  Sweeper = Sweeper
  NoOne = NoOne
  Quantity = {1}
  HoldTTL = 1
  MaxTime = 2
  MaxJobs = 0
SYMMETRY Symmetry
INVARIANTS
  TypeOK
  SettledOrReported
  AnnouncedOnce
  NoDoubleSale
  SoldSeatsAreBooked
PROPERTIES
  ImplementsLedger
