---------------------------- MODULE SeatInventory ----------------------------
(***************************************************************************)
(* The seats of one trip and everything that writes them: the inventory    *)
(* module of the backend (inventory.service, inventory.repository), the    *)
(* hold half of bookings.service, the hold-expiry job and the sweeper.     *)
(*                                                                         *)
(* The grain is the SQL statement.  seat is the committed table, rowLock   *)
(* the row locks PostgreSQL holds for open transactions; a transaction's   *)
(* own writes stay invisible until its commit.  A statement that finds a   *)
(* row it needs locked by another session waits (its action is disabled);  *)
(* SKIP LOCKED passes over the row instead.  A statement on the rows of    *)
(* one user takes all their locks together; the sweeper's UPDATE, over     *)
(* everybody's rows, takes them one at a time.                             *)
(*                                                                         *)
(* Redis hold keys are written by this code and never read by it, so they  *)
(* are no part of the state.                                               *)
(***************************************************************************)
EXTENDS Naturals, FiniteSets

CONSTANTS Seat,        \* the seats of the trip
          User,        \* passengers
          HoldReq,     \* concurrently served POST /bookings/hold requests
          ConfirmReq,  \* sessions that confirm a booking (lockAndMarkBooked)
          Sweeper,     \* the session of the seat-sweep worker (concurrency 1)
          NoOne,       \* "no user", "no session"
          Quantity,    \* how many seats a request may ask for (schema: 1..6)
          HoldTTL,     \* HOLD_TTL_SEC
          MaxTime,     \* bound: the clock stops here
          MaxJobs      \* bound: expiry jobs waiting in the queue

ASSUME SessionAssumption ==
  /\ HoldReq \cap ConfirmReq = {}
  /\ Sweeper \notin HoldReq \cup ConfirmReq
  /\ NoOne \notin HoldReq \cup ConfirmReq \cup {Sweeper}
  /\ NoOne \notin User

ASSUME BoundAssumption ==
  /\ Quantity \subseteq Nat \ {0}
  /\ HoldTTL \in Nat /\ MaxTime \in Nat /\ MaxJobs \in Nat

VARIABLES now,      \* the clock, in ticks
          trip,     \* the trip row as the hold path reads it
          seat,     \* the committed seats table
          rowLock,  \* the session whose open transaction locks the row
          hold,     \* the hold requests being served
          jobs,     \* delayed hold-expiry jobs in the BullMQ queue
          sweep     \* the running sweep: rows still to visit, cutoff time

invVars == <<now, trip, seat, rowLock, hold, jobs, sweep>>

Session == HoldReq \cup ConfirmReq \cup {Sweeper}

SeatRow == [status : {"available", "held", "booked", "deleted"},
            heldBy : User \cup {NoOne}, heldUntil : Nat]

Row(st)       == [status |-> st, heldBy |-> NoOne, heldUntil |-> 0]
HeldRow(u, t) == [status |-> "held", heldBy |-> u, heldUntil |-> t]

IdleHold == [pc |-> "idle", user |-> NoOne, qty |-> 0, until |-> 0, claimed |-> {}]

BusyHold == [pc : {"begun", "released", "claimed", "committed"}, user : User,
             qty : Quantity, until : Nat, claimed : SUBSET Seat]

HoldState == {IdleHold} \cup BusyHold

NoSweep == [todo |-> {}, cutoff |-> 0]

Job == [user : User, seats : SUBSET Seat, due : Nat]

-------------------------------------------------------------------------------
(* The table and its locks.                                                *)

Put(S, row) == [s \in Seat |-> IF s \in S THEN row ELSE seat[s]]

HeldBy(u)   == {s \in Seat : seat[s].status = "held" /\ seat[s].heldBy = u}
Lapsed(s)   == seat[s].status = "held" /\ seat[s].heldUntil < now
LockedBy(p) == {s \in Seat : rowLock[s] = p}

\* No open transaction has a lock on a row of S.
Unlocked(S) == \A s \in S : rowLock[s] = NoOne

LockRows(p, S) == [s \in Seat |-> IF s \in S THEN p ELSE rowLock[s]]
ReleaseLocks(p) == [s \in Seat |-> IF rowLock[s] = p THEN NoOne ELSE rowLock[s]]

InvInit ==
  /\ now = 0
  /\ trip = "open"
  /\ seat = [s \in Seat |-> Row("available")]
  /\ rowLock = [s \in Seat |-> NoOne]
  /\ hold = [h \in HoldReq |-> IdleHold]
  /\ jobs = {}
  /\ sweep = NoSweep

-------------------------------------------------------------------------------
(* bookingsService.hold and inventoryService.holdSeats.                    *)

\* The trip row is read outside the transaction; expiresAt is fixed before it.
HoldBegin(h, u, q) ==
  /\ hold[h].pc = "idle"
  /\ trip = "open"
  /\ hold' = [hold EXCEPT ![h] = [pc |-> "begun", user |-> u, qty |-> q,
                                  until |-> now + HoldTTL, claimed |-> {}]]
  /\ UNCHANGED <<now, trip, seat, rowLock, jobs, sweep>>

\* 404 / 409: the trip is gone, offline or full.
HoldRefused(h) ==
  /\ hold[h].pc = "idle"
  /\ trip # "open"
  /\ UNCHANGED invVars

\* releaseUserHoldsForTrip: UPDATE of the user's own held rows.
HoldRelease(h) ==
  LET own == HeldBy(hold[h].user) IN
  /\ hold[h].pc = "begun"
  /\ Unlocked(own)
  /\ rowLock' = LockRows(h, own)
  /\ hold' = [hold EXCEPT ![h].pc = "released"]
  /\ UNCHANGED <<now, trip, seat, jobs, sweep>>

\* Mutant of Claimable: SELECT without FOR UPDATE SKIP LOCKED.
ClaimableUnlocked(h) == {s \in Seat : seat[s].status = "available"} \cup LockedBy(h)

\* What SELECT ... FOR UPDATE SKIP LOCKED can return to h: free rows that
\* nobody locks, and the rows h itself has just released.
Claimable(h) ==
  {s \in Seat : seat[s].status = "available" /\ rowLock[s] = NoOne} \cup LockedBy(h)

\* claimSeats finds enough rows.
HoldClaim(h) ==
  /\ hold[h].pc = "released"
  /\ \E C \in SUBSET Claimable(h) :
       /\ Cardinality(C) = hold[h].qty
       /\ rowLock' = LockRows(h, C)
       /\ hold' = [hold EXCEPT ![h].pc = "claimed", ![h].claimed = C]
  /\ UNCHANGED <<now, trip, seat, jobs, sweep>>

\* claimSeats throws InsufficientSeatsError: the whole transaction rolls back,
\* the release of the earlier holds with it.
HoldInsufficient(h) ==
  /\ hold[h].pc = "released"
  /\ Cardinality(Claimable(h)) < hold[h].qty
  /\ rowLock' = ReleaseLocks(h)
  /\ hold' = [hold EXCEPT ![h] = IdleHold]
  /\ UNCHANGED <<now, trip, seat, jobs, sweep>>

\* The transaction or its process dies before the commit.
HoldAbort(h) ==
  /\ hold[h].pc \in {"begun", "released", "claimed"}
  /\ rowLock' = ReleaseLocks(h)
  /\ hold' = [hold EXCEPT ![h] = IdleHold]
  /\ UNCHANGED <<now, trip, seat, jobs, sweep>>

HoldCommit(h) ==
  /\ hold[h].pc = "claimed"
  /\ seat' = [s \in Seat |->
                IF s \in hold[h].claimed THEN HeldRow(hold[h].user, hold[h].until)
                ELSE IF rowLock[s] = h THEN Row("available") ELSE seat[s]]
  /\ rowLock' = ReleaseLocks(h)
  /\ hold' = [hold EXCEPT ![h].pc = "committed"]
  /\ UNCHANGED <<now, trip, jobs, sweep>>

\* The expiry job is queued after the commit, delayed by a full TTL.
HoldEnqueue(h) ==
  /\ hold[h].pc = "committed"
  /\ Cardinality(jobs) < MaxJobs
  /\ jobs' = jobs \cup {[user |-> hold[h].user, seats |-> hold[h].claimed,
                         due |-> now + HoldTTL]}
  /\ hold' = [hold EXCEPT ![h] = IdleHold]
  /\ UNCHANGED <<now, trip, seat, rowLock, sweep>>

\* Redis is down, or the process dies between the commit and the enqueue.
HoldEnqueueFails(h) ==
  /\ hold[h].pc = "committed"
  /\ hold' = [hold EXCEPT ![h] = IdleHold]
  /\ UNCHANGED <<now, trip, seat, rowLock, jobs, sweep>>

-------------------------------------------------------------------------------
(* Expiry: the delayed job and the sweeper.                                *)

\* Mutant of JobRun: the UPDATE selects by seat id alone.
JobRunBlind(j) ==
  /\ now >= j.due
  /\ Unlocked(j.seats)
  /\ seat' = Put(j.seats, Row("available"))
  /\ jobs' \in {jobs, jobs \ {j}}
  /\ UNCHANGED <<now, trip, rowLock, hold, sweep>>

\* processHoldExpiry / releaseSpecificHold, at any time from its due time on.
\* BullMQ delivers at least once: the job may stay in the queue.
JobRun(j) ==
  LET still == HeldBy(j.user) \cap j.seats IN
  /\ now >= j.due
  /\ Unlocked(still)
  /\ seat' = Put(still, Row("available"))
  /\ jobs' \in {jobs, jobs \ {j}}
  /\ UNCHANGED <<now, trip, rowLock, hold, sweep>>

\* Attempts exhausted, or the queue's Redis was flushed.
JobLost(j) ==
  /\ jobs' = jobs \ {j}
  /\ UNCHANGED <<now, trip, seat, rowLock, hold, sweep>>

\* Mutant of SweepBegin: a cutoff in the wrong unit lies before every hold's end.
SweepBeginWrongUnit ==
  /\ sweep.todo = {} /\ LockedBy(Sweeper) = {}
  /\ \E s \in Seat : Lapsed(s)
  /\ sweep' = [todo |-> {s \in Seat : Lapsed(s)}, cutoff |-> 0]
  /\ UNCHANGED <<now, trip, seat, rowLock, hold, jobs>>

\* Mutant of SweepVisit: the row is not looked at again under its lock.
SweepVisitBlind(s) ==
  /\ s \in sweep.todo
  /\ rowLock[s] = NoOne
  /\ rowLock' = LockRows(Sweeper, {s})
  /\ sweep' = IF sweep.todo = {s} THEN NoSweep ELSE [sweep EXCEPT !.todo = @ \ {s}]
  /\ UNCHANGED <<now, trip, seat, hold, jobs>>

\* sweepExpiredHolds: one UPDATE with a fixed cutoff.  Its snapshot finds the
\* lapsed rows; it then visits them one at a time, waits for each row's lock,
\* looks at the row again and keeps the lock.
SweepBegin ==
  /\ sweep.todo = {} /\ LockedBy(Sweeper) = {}
  /\ \E s \in Seat : Lapsed(s)
  /\ sweep' = [todo |-> {s \in Seat : Lapsed(s)}, cutoff |-> now]
  /\ UNCHANGED <<now, trip, seat, rowLock, hold, jobs>>

SweepVisit(s) ==
  /\ s \in sweep.todo
  /\ rowLock[s] = NoOne
  /\ rowLock' = IF seat[s].status = "held" /\ seat[s].heldUntil < sweep.cutoff
                THEN LockRows(Sweeper, {s}) ELSE rowLock
  /\ sweep' = IF sweep.todo = {s} THEN NoSweep ELSE [sweep EXCEPT !.todo = @ \ {s}]
  /\ UNCHANGED <<now, trip, seat, hold, jobs>>

SweepCommit ==
  /\ sweep.todo = {} /\ LockedBy(Sweeper) # {}
  /\ seat' = Put(LockedBy(Sweeper), Row("available"))
  /\ rowLock' = ReleaseLocks(Sweeper)
  /\ UNCHANGED <<now, trip, hold, jobs, sweep>>

\* The database drops the statement; the retry, or the next run, starts anew.
SweepFails ==
  /\ sweep.todo # {} \/ LockedBy(Sweeper) # {}
  /\ rowLock' = ReleaseLocks(Sweeper)
  /\ sweep' = NoSweep
  /\ UNCHANGED <<now, trip, seat, hold, jobs>>

-------------------------------------------------------------------------------
(* lockAndMarkBooked, run inside the confirm transaction of session c.     *)

Confirmable(s, u) ==
  \/ seat[s].status = "available"
  \/ seat[s].status = "held" /\ seat[s].heldBy = u

\* Mutant of LockForConfirm: SELECT without FOR UPDATE, which waits for nobody.
LockForConfirmNoWait(c, u, S) ==
  /\ \A s \in S : Confirmable(s, u)
  /\ rowLock' = LockRows(c, S)
  /\ UNCHANGED <<now, trip, seat, hold, jobs, sweep>>

\* SELECT ... FOR UPDATE returns every requested row.
LockForConfirm(c, u, S) ==
  /\ \A s \in S : Confirmable(s, u)
  /\ Unlocked(S)
  /\ rowLock' = LockRows(c, S)
  /\ UNCHANGED <<now, trip, seat, hold, jobs, sweep>>

\* ... or fewer: HoldExpiredError.
SeatsGone(u, S) == \E s \in S : ~Confirmable(s, u)

MarkBooked(c) ==
  /\ seat' = Put(LockedBy(c), Row("booked"))
  /\ rowLock' = ReleaseLocks(c)
  /\ UNCHANGED <<now, trip, hold, jobs, sweep>>

RollBack(c) ==
  /\ rowLock' = ReleaseLocks(c)
  /\ UNCHANGED <<now, trip, seat, hold, jobs, sweep>>

-------------------------------------------------------------------------------
(* The operator's switches on the trip row, and the clock.                 *)

\* toggleActive and markFull: the hold path's gate opens or shuts.
TripSwitch ==
  /\ trip \in {"open", "shut"}
  /\ trip' = IF trip = "open" THEN "shut" ELSE "open"
  /\ UNCHANGED <<now, seat, rowLock, hold, jobs, sweep>>

\* DELETE of the trip cascades to its seats; the caller adds the restriction
\* its foreign keys impose.
TripDelete ==
  /\ trip # "gone"
  /\ Unlocked(Seat)
  /\ trip' = "gone"
  /\ seat' = [s \in Seat |-> Row("deleted")]
  /\ UNCHANGED <<now, rowLock, hold, jobs, sweep>>

Tick ==
  /\ now < MaxTime
  /\ now' = now + 1
  /\ UNCHANGED <<trip, seat, rowLock, hold, jobs, sweep>>

-------------------------------------------------------------------------------
HoldStep(h) ==
  \/ \E u \in User, q \in Quantity : HoldBegin(h, u, q)
  \/ HoldRefused(h) \/ HoldRelease(h) \/ HoldClaim(h) \/ HoldInsufficient(h) \/ HoldAbort(h)
  \/ HoldCommit(h) \/ HoldEnqueue(h) \/ HoldEnqueueFails(h)

SweepStep ==
  SweepBegin \/ SweepCommit \/ SweepFails \/ \E s \in Seat : SweepVisit(s)

ExpiryStep == SweepStep \/ \E j \in jobs : JobRun(j) \/ JobLost(j)

\* What the inventory does whoever confirms.
InventoryStep ==
  (\E h \in HoldReq : HoldStep(h)) \/ ExpiryStep \/ TripSwitch \/ Tick

\* On its own the module is driven by confirm transactions for any user and
\* any seats, which commit or roll back.
ConfirmStep(c) ==
  \/ /\ LockedBy(c) = {}
     /\ \E u \in User, S \in (SUBSET Seat) \ {{}} : LockForConfirm(c, u, S)
  \/ LockedBy(c) # {} /\ (MarkBooked(c) \/ RollBack(c))

InvNext ==
  \/ InventoryStep
  \/ \E c \in ConfirmReq : ConfirmStep(c)
  \/ (\A s \in Seat : seat[s].status # "booked") /\ TripDelete

InvSpec == InvInit /\ [][InvNext]_invVars

\* A transaction that has locks ends: it runs on, or PostgreSQL and Prisma
\* (transaction timeout) end it.
TransactionEnds(p) ==
  /\ LockedBy(p) # {}
  /\ IF p \in HoldReq THEN HoldClaim(p) \/ HoldCommit(p) \/ HoldInsufficient(p) \/ HoldAbort(p)
                       ELSE MarkBooked(p) \/ RollBack(p)

\* The sweep repeats every minute; its UPDATE is granted each row lock it queues
\* for; the database stops dropping it in the end (a failure that looks like the
\* last visit of a sweep that found nothing to free is none).
InvFairness ==
  /\ \A p \in HoldReq \cup ConfirmReq : WF_invVars(TransactionEnds(p))
  /\ WF_invVars(SweepBegin)
  /\ \A s \in Seat : SF_invVars(SweepVisit(s))
  /\ WF_invVars(SweepCommit)
  /\ <>[][SweepFails => \E s \in Seat : SweepVisit(s)]_invVars

-------------------------------------------------------------------------------
(* Properties.                                                             *)

\* Every variable keeps its type.
InvTypeOK ==
  /\ now \in 0..MaxTime
  /\ trip \in {"open", "shut", "gone"}
  /\ seat \in [Seat -> SeatRow]
  /\ rowLock \in [Seat -> Session \cup {NoOne}]
  /\ hold \in [HoldReq -> HoldState]
  /\ jobs \subseteq Job
  /\ sweep \in [todo : SUBSET Seat, cutoff : Nat]

\* What the rows a session has locked are like.
HoldLocked == \A h \in HoldReq, s \in Seat : rowLock[s] = h =>
                hold[h].pc \in {"released", "claimed"} /\ Confirmable(s, hold[h].user)

ClaimLocked == \A h \in HoldReq :
                 hold[h].pc = "claimed" => hold[h].claimed \subseteq LockedBy(h)

ConfirmLocked == \A c \in ConfirmReq, s \in Seat :
                   rowLock[s] = c => seat[s].status \in {"available", "held"}

SweepLocked == /\ sweep.cutoff <= now
               /\ \A s \in Seat : rowLock[s] = Sweeper => Lapsed(s)

\* A locked row stays as the lock holder's statement found it: a hold
\* transaction's rows are free or its own user's, and it still has the lock on
\* every row it claimed; a confirm transaction's rows are neither booked nor
\* deleted; the sweeper's rows are lapsed holds.  This is what lets commits
\* overwrite rows without looking again.
RowLocksProtect == HoldLocked /\ ClaimLocked /\ ConfirmLocked /\ SweepLocked

\* A seat never passes from one user's hold straight into another's: however
\* hold transactions interleave, it is free in between (claimSeats, SKIP LOCKED).
HoldNeverTransfers ==
  [][\A s \in Seat : seat'[s].status = "held" /\ seat[s] # seat'[s] =>
       Confirmable(s, seat'[s].heldBy)]_invVars

\* A booked seat is never given back: late or repeated expiry jobs, the sweeper
\* and open hold transactions all leave it alone (releaseSpecificHold,
\* sweepExpiredHolds, releaseUserHoldsForTrip).
BookedIsFinal ==
  [][\A s \in Seat : seat[s].status = "booked" => seat'[s].status = "booked"]_invVars

\* A lapsed hold is freed in the end, even if its expiry job was lost
\* (sweepExpiredHolds is the safety net).
LapsedHoldFreed == \A s \in Seat : Lapsed(s) ~> ~Lapsed(s)

-------------------------------------------------------------------------------
(* Claims of the repository's comments that the code does not meet.        *)

\* "Conditional on status='held'+heldBy so re-runs are harmless" (bookings.job.ts):
\* a hold that has time left returns to the pool only by its user's own re-hold.
HoldHonoured ==
  [][\A s \in Seat :
       seat[s].status = "held" /\ seat[s].heldUntil > now /\ seat'[s].status = "available"
         => \E h \in HoldReq : rowLock[s] = h /\ hold[h].user = seat[s].heldBy]_invVars
===============================================================================
