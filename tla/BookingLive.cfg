SPECIFICATION FairSpec
CONSTANTS
  Seat = {s1}
  User = {u1, u2}
  HoldReq = {h1}
  ConfirmReq = {c1}
  Ref = {r1}
  Sweeper = Sweeper
  NoOne = NoOne
  Quantity = {1}
  HoldTTL = 1
  MaxTime = 2
  MaxJobs = 1
PROPERTIES
  PaymentSettles
  LapsedHoldFreed
