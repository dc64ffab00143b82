------------------------- MODULE SeatInventoryProofs -------------------------
(***************************************************************************)
(* Proofs about SeatInventory: its type invariant, that row locks protect  *)
(* what a transaction has read until it commits, and the two action        *)
(* properties that follow.  Every step lemma is about one action, so that  *)
(* BookingSettlementProofs can cite it for the composed system.            *)
(***************************************************************************)
EXTENDS SeatInventory, TLAPS

USE SessionAssumption, BoundAssumption

\* The inductive invariant.
InvInductive == InvTypeOK /\ RowLocksProtect

-------------------------------------------------------------------------------
(* One lemma per action: it keeps the invariant.                           *)

\* A request starts: no row, no lock changes.
LEMMA HoldBeginKeeps ==
  ASSUME InvInductive, NEW h \in HoldReq, NEW u \in User, NEW q \in Quantity, HoldBegin(h, u, q)
  PROVE  InvInductive'
<1> USE DEF InvInductive, RowLocksProtect, InvTypeOK, SeatRow,
        HoldState, BusyHold, IdleHold, Session, HoldBegin
<1>1. InvTypeOK'
  OBVIOUS
<1>2. HoldLocked'
  BY DEF HoldLocked, ClaimLocked, LockedBy, Confirmable
<1>3. ClaimLocked'
  BY DEF ClaimLocked, LockedBy
<1>4. ConfirmLocked'
  BY DEF ConfirmLocked, ClaimLocked, LockedBy, Confirmable
<1>5. SweepLocked'
  BY DEF SweepLocked, ClaimLocked, LockedBy, Lapsed
<1> QED BY <1>1, <1>2, <1>3, <1>4, <1>5

\* The request locks its user's held rows.
LEMMA HoldReleaseKeeps ==
  ASSUME InvInductive, NEW h \in HoldReq, HoldRelease(h)
  PROVE  InvInductive'
<1> USE DEF InvInductive, RowLocksProtect, InvTypeOK, SeatRow,
        HoldState, BusyHold, IdleHold, Session, HoldRelease, LockRows, Unlocked, HeldBy
<1>1. InvTypeOK'
  OBVIOUS
<1>2. HoldLocked'
  BY DEF HoldLocked, ClaimLocked, LockedBy, Confirmable
<1>3. ClaimLocked'
  BY DEF ClaimLocked, LockedBy
<1>4. ConfirmLocked'
  BY DEF ConfirmLocked, ClaimLocked, LockedBy, Confirmable
<1>5. SweepLocked'
  BY DEF SweepLocked, ClaimLocked, LockedBy, Lapsed
<1> QED BY <1>1, <1>2, <1>3, <1>4, <1>5

\* The request's claim adds locks on free rows to those it has.
LEMMA HoldClaimKeeps ==
  ASSUME InvInductive, NEW h \in HoldReq, HoldClaim(h)
  PROVE  InvInductive'
<1> USE DEF InvInductive, RowLocksProtect, InvTypeOK
<1>1. PICK C \in SUBSET Claimable(h) :
        /\ rowLock' = LockRows(h, C)
        /\ hold' = [hold EXCEPT ![h].pc = "claimed", ![h].claimed = C]
  BY DEF HoldClaim
<1>2. UNCHANGED <<now, trip, seat, jobs, sweep>>
  BY DEF HoldClaim
<1>3. C \subseteq Seat
  BY DEF Claimable, LockedBy
<1>4. hold[h] \in BusyHold /\ hold[h].pc = "released"
  BY DEF HoldClaim, HoldState, IdleHold
<1>5. /\ hold'[h] \in BusyHold /\ hold'[h].pc = "claimed"
      /\ hold'[h].claimed = C /\ hold'[h].user = hold[h].user
      /\ \A g \in HoldReq \ {h} : hold'[g] = hold[g]
  BY <1>1, <1>3, <1>4 DEF BusyHold
<1>6. InvTypeOK'
  <2>1. hold' \in [HoldReq -> HoldState]
    BY <1>1, <1>5 DEF HoldState
  <2>2. rowLock' \in [Seat -> Session \cup {NoOne}]
    BY <1>1 DEF LockRows, Session
  <2> QED BY <2>1, <2>2, <1>2
<1>7. HoldLocked'
  BY <1>1, <1>2, <1>4, <1>5 DEF HoldLocked, Claimable, LockedBy, LockRows, Confirmable
<1>8. ClaimLocked'
  BY <1>1, <1>3, <1>5 DEF ClaimLocked, Claimable, LockedBy, LockRows
<1>9. ConfirmLocked'
  BY <1>1, <1>2 DEF ConfirmLocked, LockRows
<1>10. SweepLocked'
  BY <1>1, <1>2 DEF SweepLocked, Lapsed, LockRows
<1> QED BY <1>6, <1>7, <1>8, <1>9, <1>10

\* Rolling back only drops locks.
LEMMA HoldInsufficientKeeps ==
  ASSUME InvInductive, NEW h \in HoldReq, HoldInsufficient(h)
  PROVE  InvInductive'
<1> USE DEF InvInductive, RowLocksProtect, InvTypeOK, SeatRow,
        HoldState, BusyHold, IdleHold, Session, HoldInsufficient, ReleaseLocks
<1>1. InvTypeOK'
  OBVIOUS
<1>2. HoldLocked'
  BY DEF HoldLocked, ClaimLocked, LockedBy, Confirmable
<1>3. ClaimLocked'
  BY DEF ClaimLocked, LockedBy
<1>4. ConfirmLocked'
  BY DEF ConfirmLocked, ClaimLocked, LockedBy, Confirmable
<1>5. SweepLocked'
  BY DEF SweepLocked, ClaimLocked, LockedBy, Lapsed
<1> QED BY <1>1, <1>2, <1>3, <1>4, <1>5

LEMMA HoldAbortKeeps ==
  ASSUME InvInductive, NEW h \in HoldReq, HoldAbort(h)
  PROVE  InvInductive'
<1> USE DEF InvInductive, RowLocksProtect, InvTypeOK, SeatRow,
        HoldState, BusyHold, IdleHold, Session, HoldAbort, ReleaseLocks
<1>1. InvTypeOK'
  OBVIOUS
<1>2. HoldLocked'
  BY DEF HoldLocked, ClaimLocked, LockedBy, Confirmable
<1>3. ClaimLocked'
  BY DEF ClaimLocked, LockedBy
<1>4. ConfirmLocked'
  BY DEF ConfirmLocked, ClaimLocked, LockedBy, Confirmable
<1>5. SweepLocked'
  BY DEF SweepLocked, ClaimLocked, LockedBy, Lapsed
<1> QED BY <1>1, <1>2, <1>3, <1>4, <1>5

\* The commit rewrites rows that its own session has locked.
LEMMA HoldCommitKeeps ==
  ASSUME InvInductive, NEW h \in HoldReq, HoldCommit(h)
  PROVE  InvInductive'
<1> USE DEF InvInductive, RowLocksProtect, InvTypeOK, HoldCommit, ReleaseLocks
<1>1. hold[h] \in BusyHold /\ hold[h].pc = "claimed"
  BY DEF HoldState, IdleHold
<1>2. hold'[h] \in BusyHold /\ \A g \in HoldReq \ {h} : hold'[g] = hold[g]
  BY <1>1 DEF BusyHold
<1>3. HeldRow(hold[h].user, hold[h].until) \in SeatRow /\ Row("available") \in SeatRow
  BY <1>1 DEF BusyHold, HeldRow, Row, SeatRow
<1>4. \A s \in Seat : rowLock[s] # h => seat'[s] = seat[s]
  BY <1>1 DEF ClaimLocked, LockedBy
<1>5. InvTypeOK'
  <2>1. hold' \in [HoldReq -> HoldState]
    BY <1>2 DEF HoldState
  <2>2. seat' \in [Seat -> SeatRow]
    BY <1>3
  <2> QED BY <2>1, <2>2 DEF Session
<1>6. HoldLocked'
  BY <1>2, <1>4 DEF HoldLocked, Confirmable
<1>7. ClaimLocked'
  BY <1>1 DEF ClaimLocked, LockedBy
<1>8. ConfirmLocked'
  BY <1>4 DEF ConfirmLocked
<1>9. SweepLocked'
  BY <1>4 DEF SweepLocked, Lapsed
<1> QED BY <1>5, <1>6, <1>7, <1>8, <1>9

\* After the commit the request has no locks left.
LEMMA HoldEnqueueKeeps ==
  ASSUME InvInductive, NEW h \in HoldReq, HoldEnqueue(h)
  PROVE  InvInductive'
<1> USE DEF InvInductive, RowLocksProtect, InvTypeOK, SeatRow,
        HoldState, BusyHold, IdleHold, Session, HoldEnqueue
<1>1. InvTypeOK'
  BY DEF Job
<1>2. HoldLocked'
  BY DEF HoldLocked, ClaimLocked, LockedBy, Confirmable
<1>3. ClaimLocked'
  BY DEF ClaimLocked, LockedBy
<1>4. ConfirmLocked'
  BY DEF ConfirmLocked, ClaimLocked, LockedBy, Confirmable
<1>5. SweepLocked'
  BY DEF SweepLocked, ClaimLocked, LockedBy, Lapsed
<1> QED BY <1>1, <1>2, <1>3, <1>4, <1>5

LEMMA HoldEnqueueFailsKeeps ==
  ASSUME InvInductive, NEW h \in HoldReq, HoldEnqueueFails(h)
  PROVE  InvInductive'
<1> USE DEF InvInductive, RowLocksProtect, InvTypeOK, SeatRow,
        HoldState, BusyHold, IdleHold, Session, HoldEnqueueFails
<1>1. InvTypeOK'
  OBVIOUS
<1>2. HoldLocked'
  BY DEF HoldLocked, ClaimLocked, LockedBy, Confirmable
<1>3. ClaimLocked'
  BY DEF ClaimLocked, LockedBy
<1>4. ConfirmLocked'
  BY DEF ConfirmLocked, ClaimLocked, LockedBy, Confirmable
<1>5. SweepLocked'
  BY DEF SweepLocked, ClaimLocked, LockedBy, Lapsed
<1> QED BY <1>1, <1>2, <1>3, <1>4, <1>5

\* An expiry job rewrites rows that nobody has locked.
LEMMA JobRunKeeps ==
  ASSUME InvInductive, NEW j \in jobs, JobRun(j)
  PROVE  InvInductive'
<1> USE DEF InvInductive, RowLocksProtect, InvTypeOK, SeatRow,
        HoldState, BusyHold, IdleHold, Session, JobRun, Unlocked, HeldBy, Put, Row
<1>1. InvTypeOK'
  BY DEF Job
<1>2. HoldLocked'
  BY DEF HoldLocked, ClaimLocked, LockedBy, Confirmable
<1>3. ClaimLocked'
  BY DEF ClaimLocked, LockedBy
<1>4. ConfirmLocked'
  BY DEF ConfirmLocked, ClaimLocked, LockedBy, Confirmable
<1>5. SweepLocked'
  BY DEF SweepLocked, ClaimLocked, LockedBy, Lapsed
<1> QED BY <1>1, <1>2, <1>3, <1>4, <1>5

LEMMA JobLostKeeps ==
  ASSUME InvInductive, NEW j \in jobs, JobLost(j)
  PROVE  InvInductive'
<1> USE DEF InvInductive, RowLocksProtect, InvTypeOK, SeatRow,
        HoldState, BusyHold, IdleHold, Session, JobLost
<1>1. InvTypeOK'
  BY DEF Job
<1>2. HoldLocked'
  BY DEF HoldLocked, ClaimLocked, LockedBy, Confirmable
<1>3. ClaimLocked'
  BY DEF ClaimLocked, LockedBy
<1>4. ConfirmLocked'
  BY DEF ConfirmLocked, ClaimLocked, LockedBy, Confirmable
<1>5. SweepLocked'
  BY DEF SweepLocked, ClaimLocked, LockedBy, Lapsed
<1> QED BY <1>1, <1>2, <1>3, <1>4, <1>5

\* The sweep fixes its cutoff: not in the future, so that what it locks is lapsed.
LEMMA SweepBeginKeeps ==
  ASSUME InvInductive, SweepBegin
  PROVE  InvInductive'
<1> USE DEF InvInductive, RowLocksProtect, InvTypeOK, SeatRow,
        HoldState, BusyHold, IdleHold, Session, SweepBegin
<1>1. InvTypeOK'
  OBVIOUS
<1>2. HoldLocked'
  BY DEF HoldLocked, ClaimLocked, LockedBy, Confirmable
<1>3. ClaimLocked'
  BY DEF ClaimLocked, LockedBy
<1>4. ConfirmLocked'
  BY DEF ConfirmLocked, ClaimLocked, LockedBy, Confirmable
<1>5. SweepLocked'
  BY DEF SweepLocked, ClaimLocked, LockedBy, Lapsed
<1> QED BY <1>1, <1>2, <1>3, <1>4, <1>5

LEMMA SweepVisitKeeps ==
  ASSUME InvInductive, NEW s0 \in Seat, SweepVisit(s0)
  PROVE  InvInductive'
<1> USE DEF InvInductive, RowLocksProtect, InvTypeOK, SeatRow,
        HoldState, BusyHold, IdleHold, Session, SweepVisit, LockRows, NoSweep
<1>1. InvTypeOK'
  OBVIOUS
<1>2. HoldLocked'
  BY DEF HoldLocked, ClaimLocked, LockedBy, Confirmable
<1>3. ClaimLocked'
  BY DEF ClaimLocked, LockedBy
<1>4. ConfirmLocked'
  BY DEF ConfirmLocked, ClaimLocked, LockedBy, Confirmable
<1>5. SweepLocked'
  BY DEF SweepLocked, ClaimLocked, LockedBy, Lapsed
<1> QED BY <1>1, <1>2, <1>3, <1>4, <1>5

\* It rewrites its own rows.
LEMMA SweepCommitKeeps ==
  ASSUME InvInductive, SweepCommit
  PROVE  InvInductive'
<1> USE DEF InvInductive, RowLocksProtect, InvTypeOK, SeatRow,
        HoldState, BusyHold, IdleHold, Session, SweepCommit, Put, Row, ReleaseLocks
<1>1. InvTypeOK'
  OBVIOUS
<1>2. HoldLocked'
  BY DEF HoldLocked, ClaimLocked, LockedBy, Confirmable
<1>3. ClaimLocked'
  BY DEF ClaimLocked, LockedBy
<1>4. ConfirmLocked'
  BY DEF ConfirmLocked, ClaimLocked, LockedBy, Confirmable
<1>5. SweepLocked'
  BY DEF SweepLocked, ClaimLocked, LockedBy, Lapsed
<1> QED BY <1>1, <1>2, <1>3, <1>4, <1>5

LEMMA SweepFailsKeeps ==
  ASSUME InvInductive, SweepFails
  PROVE  InvInductive'
<1> USE DEF InvInductive, RowLocksProtect, InvTypeOK, SeatRow,
        HoldState, BusyHold, IdleHold, Session, SweepFails, ReleaseLocks, NoSweep
<1>1. InvTypeOK'
  OBVIOUS
<1>2. HoldLocked'
  BY DEF HoldLocked, ClaimLocked, LockedBy, Confirmable
<1>3. ClaimLocked'
  BY DEF ClaimLocked, LockedBy
<1>4. ConfirmLocked'
  BY DEF ConfirmLocked, ClaimLocked, LockedBy, Confirmable
<1>5. SweepLocked'
  BY DEF SweepLocked, ClaimLocked, LockedBy, Lapsed
<1> QED BY <1>1, <1>2, <1>3, <1>4, <1>5

\* A confirm session locks rows that are free or held.
LEMMA LockForConfirmKeeps ==
  ASSUME InvInductive, NEW c \in ConfirmReq, NEW u \in User, NEW S \in SUBSET Seat, LockForConfirm(c, u, S)
  PROVE  InvInductive'
<1> USE DEF InvInductive, RowLocksProtect, InvTypeOK, SeatRow,
        HoldState, BusyHold, IdleHold, Session, LockForConfirm, LockRows, Unlocked
<1>1. InvTypeOK'
  OBVIOUS
<1>2. HoldLocked'
  BY DEF HoldLocked, ClaimLocked, LockedBy, Confirmable
<1>3. ClaimLocked'
  BY DEF ClaimLocked, LockedBy
<1>4. ConfirmLocked'
  BY DEF ConfirmLocked, ClaimLocked, LockedBy, Confirmable
<1>5. SweepLocked'
  BY DEF SweepLocked, ClaimLocked, LockedBy, Lapsed
<1> QED BY <1>1, <1>2, <1>3, <1>4, <1>5

LEMMA MarkBookedKeeps ==
  ASSUME InvInductive, NEW c \in ConfirmReq, MarkBooked(c)
  PROVE  InvInductive'
<1> USE DEF InvInductive, RowLocksProtect, InvTypeOK, SeatRow,
        HoldState, BusyHold, IdleHold, Session, MarkBooked, Put, Row, ReleaseLocks
<1>1. InvTypeOK'
  OBVIOUS
<1>2. HoldLocked'
  BY DEF HoldLocked, ClaimLocked, LockedBy, Confirmable
<1>3. ClaimLocked'
  BY DEF ClaimLocked, LockedBy
<1>4. ConfirmLocked'
  BY DEF ConfirmLocked, ClaimLocked, LockedBy, Confirmable
<1>5. SweepLocked'
  BY DEF SweepLocked, ClaimLocked, LockedBy, Lapsed
<1> QED BY <1>1, <1>2, <1>3, <1>4, <1>5

LEMMA RollBackKeeps ==
  ASSUME InvInductive, NEW c \in ConfirmReq, RollBack(c)
  PROVE  InvInductive'
<1> USE DEF InvInductive, RowLocksProtect, InvTypeOK, SeatRow,
        HoldState, BusyHold, IdleHold, Session, RollBack, ReleaseLocks
<1>1. InvTypeOK'
  OBVIOUS
<1>2. HoldLocked'
  BY DEF HoldLocked, ClaimLocked, LockedBy, Confirmable
<1>3. ClaimLocked'
  BY DEF ClaimLocked, LockedBy
<1>4. ConfirmLocked'
  BY DEF ConfirmLocked, ClaimLocked, LockedBy, Confirmable
<1>5. SweepLocked'
  BY DEF SweepLocked, ClaimLocked, LockedBy, Lapsed
<1> QED BY <1>1, <1>2, <1>3, <1>4, <1>5

\* The trip row and the clock: deletion finds no locks, and time only adds lapses.
LEMMA TripSwitchKeeps ==
  ASSUME InvInductive, TripSwitch
  PROVE  InvInductive'
<1> USE DEF InvInductive, RowLocksProtect, InvTypeOK, SeatRow,
        HoldState, BusyHold, IdleHold, Session, TripSwitch
<1>1. InvTypeOK'
  OBVIOUS
<1>2. HoldLocked'
  BY DEF HoldLocked, ClaimLocked, LockedBy, Confirmable
<1>3. ClaimLocked'
  BY DEF ClaimLocked, LockedBy
<1>4. ConfirmLocked'
  BY DEF ConfirmLocked, ClaimLocked, LockedBy, Confirmable
<1>5. SweepLocked'
  BY DEF SweepLocked, ClaimLocked, LockedBy, Lapsed
<1> QED BY <1>1, <1>2, <1>3, <1>4, <1>5

LEMMA TripDeleteKeeps ==
  ASSUME InvInductive, TripDelete
  PROVE  InvInductive'
<1> USE DEF InvInductive, RowLocksProtect, InvTypeOK, SeatRow,
        HoldState, BusyHold, IdleHold, Session, TripDelete, Unlocked, Row
<1>1. InvTypeOK'
  OBVIOUS
<1>2. HoldLocked'
  BY DEF HoldLocked, ClaimLocked, LockedBy, Confirmable
<1>3. ClaimLocked'
  BY DEF ClaimLocked, LockedBy
<1>4. ConfirmLocked'
  BY DEF ConfirmLocked, ClaimLocked, LockedBy, Confirmable
<1>5. SweepLocked'
  BY DEF SweepLocked, ClaimLocked, LockedBy, Lapsed
<1> QED BY <1>1, <1>2, <1>3, <1>4, <1>5

LEMMA TickKeeps ==
  ASSUME InvInductive, Tick
  PROVE  InvInductive'
<1> USE DEF InvInductive, RowLocksProtect, InvTypeOK, SeatRow,
        HoldState, BusyHold, IdleHold, Session, Tick
<1>1. InvTypeOK'
  OBVIOUS
<1>2. HoldLocked'
  BY DEF HoldLocked, ClaimLocked, LockedBy, Confirmable
<1>3. ClaimLocked'
  BY DEF ClaimLocked, LockedBy
<1>4. ConfirmLocked'
  BY DEF ConfirmLocked, ClaimLocked, LockedBy, Confirmable
<1>5. SweepLocked'
  BY DEF SweepLocked, ClaimLocked, LockedBy, Lapsed
<1> QED BY <1>1, <1>2, <1>3, <1>4, <1>5
-------------------------------------------------------------------------------
(* All steps of the module.                                                *)

LEMMA StutterKeeps ==
  ASSUME InvInductive, UNCHANGED invVars
  PROVE  InvInductive'
BY DEF InvInductive, invVars, InvTypeOK, RowLocksProtect, HoldLocked, ClaimLocked,
       ConfirmLocked, SweepLocked, LockedBy, Confirmable, Lapsed

LEMMA HoldStepKeeps ==
  ASSUME InvInductive, NEW h \in HoldReq, HoldStep(h)
  PROVE  InvInductive'
BY HoldBeginKeeps, HoldReleaseKeeps, HoldClaimKeeps, HoldInsufficientKeeps,
   HoldAbortKeeps, HoldCommitKeeps, HoldEnqueueKeeps, HoldEnqueueFailsKeeps,
   StutterKeeps DEF HoldStep, HoldRefused

LEMMA ExpiryStepKeeps ==
  ASSUME InvInductive, ExpiryStep
  PROVE  InvInductive'
BY JobRunKeeps, JobLostKeeps, SweepBeginKeeps, SweepVisitKeeps, SweepCommitKeeps,
   SweepFailsKeeps DEF ExpiryStep, SweepStep

LEMMA InventoryStepKeeps ==
  ASSUME InvInductive, InventoryStep
  PROVE  InvInductive'
BY HoldStepKeeps, ExpiryStepKeeps, TripSwitchKeeps, TickKeeps DEF InventoryStep

LEMMA ConfirmStepKeeps ==
  ASSUME InvInductive, NEW c \in ConfirmReq, ConfirmStep(c)
  PROVE  InvInductive'
BY LockForConfirmKeeps, MarkBookedKeeps, RollBackKeeps DEF ConfirmStep

LEMMA InvNextKeeps ==
  ASSUME InvInductive, [InvNext]_invVars
  PROVE  InvInductive'
BY InventoryStepKeeps, ConfirmStepKeeps, TripDeleteKeeps, StutterKeeps DEF InvNext

LEMMA InvInitHolds ==
  ASSUME InvInit
  PROVE  InvInductive
BY DEF InvInit, InvInductive, InvTypeOK, RowLocksProtect, HoldLocked, ClaimLocked,
       ConfirmLocked, SweepLocked, SeatRow, HoldState, Session, IdleHold, Row, NoSweep

LEMMA Inductive == InvSpec => []InvInductive
<1>1. InvInit => InvInductive
  BY InvInitHolds
<1>2. InvInductive /\ [InvNext]_invVars => InvInductive'
  BY InvNextKeeps
<1> QED BY <1>1, <1>2, PTL DEF InvSpec

\* The seats table, the locks, the requests, the job queue and the sweep keep
\* their types, whatever the number of seats, users and sessions.
THEOREM InventoryTypes == InvSpec => []InvTypeOK
<1>1. InvInductive => InvTypeOK
  BY DEF InvInductive
<1> QED BY <1>1, Inductive, PTL

\* Row locks protect what the hold, confirm and sweep transactions have read.
THEOREM LocksProtect == InvSpec => []RowLocksProtect
<1>1. InvInductive => RowLocksProtect
  BY DEF InvInductive
<1> QED BY <1>1, Inductive, PTL

-------------------------------------------------------------------------------
(* What a step does to a single seat.                                      *)

\* A seat that a step moves goes back to the pool, or into the hold of a user
\* for whom it was free or held already.
Moved(s) ==
  /\ seat[s].status \in {"available", "held"}
  /\ \/ seat'[s] = Row("available")
     \/ \E u \in User, t \in Nat : seat'[s] = HeldRow(u, t) /\ Confirmable(s, u)

\* Of a moved seat: it is free and nobody's, or held by such a user.
LEMMA MovedSeat ==
  ASSUME NEW s \in Seat, Moved(s)
  PROVE  /\ seat[s].status \in {"available", "held"}
         /\ seat'[s].status \in {"available", "held"}
         /\ seat'[s].status = "available" => seat'[s].heldBy = NoOne
         /\ seat'[s].status = "held" =>
              seat'[s].heldBy \in User /\ Confirmable(s, seat'[s].heldBy)
<1>1. CASE seat'[s] = Row("available")
  BY <1>1 DEF Moved, Row
<1>2. ASSUME NEW u \in User, NEW t \in Nat, seat'[s] = HeldRow(u, t), Confirmable(s, u)
      PROVE  /\ seat'[s].status = "held"
             /\ seat'[s].heldBy \in User /\ Confirmable(s, seat'[s].heldBy)
  BY <1>2 DEF HeldRow
<1> QED BY <1>1, <1>2 DEF Moved

\* A hold commit does this to the rows it has locked.
LEMMA HoldCommitSeat ==
  ASSUME InvInductive, NEW h \in HoldReq, HoldCommit(h), NEW s \in Seat, seat'[s] # seat[s]
  PROVE  Moved(s)
<1>1. rowLock[s] = h
  BY DEF InvInductive, RowLocksProtect, ClaimLocked, LockedBy, HoldCommit
<1>2. Confirmable(s, hold[h].user)
  BY <1>1 DEF InvInductive, RowLocksProtect, HoldLocked
<1>3. hold[h].user \in User /\ hold[h].until \in Nat
  BY DEF InvInductive, InvTypeOK, HoldState, IdleHold, BusyHold, HoldCommit
<1>4. seat'[s] \in {HeldRow(hold[h].user, hold[h].until), Row("available")}
  BY <1>1 DEF HoldCommit
<1> QED BY <1>2, <1>3, <1>4 DEF Confirmable, Moved

\* So does every step but those of the confirm sessions and the deletion.
LEMMA InventorySeat ==
  ASSUME InvInductive, InventoryStep, NEW s \in Seat, seat'[s] # seat[s]
  PROVE  Moved(s)
<1>1. CASE \E h \in HoldReq : HoldStep(h)
  <2>1. PICK h \in HoldReq : HoldStep(h)
    BY <1>1
  <2>2. CASE HoldCommit(h)
    BY <2>2, HoldCommitSeat
  <2>3. CASE ~HoldCommit(h)
    BY <2>1, <2>3 DEF HoldStep, HoldBegin, HoldRefused, HoldRelease, HoldClaim,
       HoldInsufficient, HoldAbort, HoldEnqueue, HoldEnqueueFails, invVars
  <2> QED BY <2>2, <2>3
<1>2. CASE ExpiryStep
  <2>1. CASE \E j \in jobs : JobRun(j)
    BY <2>1 DEF JobRun, HeldBy, Put, Moved
  <2>2. CASE SweepCommit
    BY <2>2 DEF SweepCommit, LockedBy, Put, Moved, InvInductive, RowLocksProtect,
       SweepLocked, Lapsed
  <2>3. CASE UNCHANGED seat
    BY <2>3
  <2> QED BY <1>2, <2>1, <2>2, <2>3
      DEF ExpiryStep, SweepStep, SweepBegin, SweepVisit, SweepFails, JobLost
<1>3. CASE TripSwitch \/ Tick
  BY <1>3 DEF TripSwitch, Tick
<1> QED BY <1>1, <1>2, <1>3 DEF InventoryStep

\* Every step of the module leaves a booked seat booked, and moves a seat into a
\* user's hold only from free or from a hold of the same user.
LEMMA SeatMoves ==
  ASSUME InvInductive, [InvNext]_invVars, NEW s \in Seat
  PROVE  /\ seat[s].status = "booked" => seat'[s].status = "booked"
         /\ seat'[s].status = "held" /\ seat[s] # seat'[s] => Confirmable(s, seat'[s].heldBy)
<1>1. CASE InventoryStep
  BY <1>1, InventorySeat, MovedSeat
<1>2. CASE \E c \in ConfirmReq : ConfirmStep(c)
  BY <1>2 DEF ConfirmStep, LockForConfirm, MarkBooked, RollBack, Put, Row
<1>3. CASE (\A t \in Seat : seat[t].status # "booked") /\ TripDelete
  BY <1>3 DEF TripDelete, Row
<1>4. CASE UNCHANGED invVars
  BY <1>4 DEF invVars
<1> QED BY <1>1, <1>2, <1>3, <1>4 DEF InvNext

\* A hold never passes straight from one user to another.
THEOREM NeverTransfers == InvSpec => HoldNeverTransfers
<1>1. InvInductive /\ [InvNext]_invVars =>
        [\A s \in Seat : seat'[s].status = "held" /\ seat[s] # seat'[s] =>
           Confirmable(s, seat'[s].heldBy)]_invVars
  BY SeatMoves
<1> QED BY <1>1, Inductive, PTL DEF InvSpec, HoldNeverTransfers

\* A booked seat is never given back.
THEOREM BookedForGood == InvSpec => BookedIsFinal
<1>1. InvInductive /\ [InvNext]_invVars =>
        [\A s \in Seat : seat[s].status = "booked" => seat'[s].status = "booked"]_invVars
  BY SeatMoves
<1> QED BY <1>1, Inductive, PTL DEF InvSpec, BookedIsFinal
===============================================================================
