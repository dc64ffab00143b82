SPECIFICATION InvSpec
CONSTANTS
  Seat = {s1, s2}
  User = {u1, u2}
  HoldReq = {h1, h2}
  ConfirmReq = {c1}
  Sweeper = Sweeper
  NoOne = NoOne
  Quantity = {1, 2}
  HoldTTL = 1
  MaxTime = 2
  MaxJobs = 1
SYMMETRY Symmetry
INVARIANTS
  RowLocksProtect
PROPERTIES
  HoldNeverTransfers
  BookedIsFinal
