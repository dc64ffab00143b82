SPECIFICATION InvSpec
CONSTANTS
  Seat = {s1}
  User = {u1}
  HoldReq = {h1}
  ConfirmReq = {c1}
  Sweeper = Sweeper
  NoOne = NoOne
  Quantity = {1}
  HoldTTL = 2
  MaxTime = 3
  MaxJobs = 1
PROPERTIES
  HoldHonoured
