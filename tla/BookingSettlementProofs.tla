----------------------- MODULE BookingSettlementProofs -----------------------
(***************************************************************************)
(* Proofs about BookingSettlement: no seat is sold twice, the seats table  *)
(* and the bookings tables agree, an acknowledged webhook is settled or    *)
(* reported, and booking.confirmed is emitted once, for any number of      *)
(* seats, users, payments, sessions and deliveries.                        *)
(*                                                                         *)
(* None of these is inductive alone.  What makes them so is a chain from   *)
(* the lock to the payment: a handler inside its transaction has exactly   *)
(* the rows of its payment locked, locked rows are neither booked nor      *)
(* deleted, and every booking is of the seats of a captured payment.       *)
(***************************************************************************)
EXTENDS BookingSettlement, SeatInventoryProofs

USE SessionAssumption, BoundAssumption

-------------------------------------------------------------------------------
(* The inductive invariant.                                                *)

\* Only a held row names a holder, and a deleted trip has no rows left.
RowsTidy ==
  \A s \in Seat : /\ seat[s].status # "held" => seat[s].heldBy = NoOne
                  /\ seat[s].status = "held" => seat[s].heldBy \in User
                  /\ trip = "gone" => seat[s].status = "deleted"

\* A payment that was started is some user's, for some seats.
PaymentsOwned ==
  \A r \in Ref : pay[r].state # "none" => pay[r].user \in User /\ pay[r].seats # {}

\* A handler works for a captured payment.
HandlersPaid ==
  \A c \in ConfirmReq : ~At(c, {"idle"}) =>
    settle[c].ref \in Ref /\ pay[settle[c].ref].state = "captured"

\* A session has the rows of its payment locked while it is in the second half
\* of its transaction, and no rows at any other time.
TxLocks ==
  \A c \in ConfirmReq :
    LockedBy(c) = IF At(c, {"locked"}) THEN pay[settle[c].ref].seats ELSE {}

\* The locked rows are free, or held by the payer.
TxRows ==
  \A c \in ConfirmReq : At(c, {"locked"}) =>
    \A s \in pay[settle[c].ref].seats : Confirmable(s, pay[settle[c].ref].user)

\* A booking is of the seats of a captured payment, for its user.
BookingsPaid ==
  \A b \in bookings : /\ pay[b.ref].state = "captured"
                      /\ b.user = pay[b.ref].user /\ b.seats = pay[b.ref].seats

\* A handler about to announce has made the booking, alone, unannounced as yet.
AnnouncementsDue ==
  \A c \in ConfirmReq : At(c, {"announce"}) =>
    /\ Booked(settle[c].ref) /\ announced[settle[c].ref] = 0
    /\ \A d \in ConfirmReq \ {c} : At(d, {"announce"}) => settle[d].ref # settle[c].ref

Accounts == /\ PaymentsOwned /\ HandlersPaid /\ TxLocks /\ TxRows
            /\ BookingsPaid /\ SoldSeatsAreBooked /\ NoDoubleSale

Notices == AnnouncementsDue /\ AnnouncedOnce /\ SettledOrReported

IInv == TypeOK /\ RowLocksProtect /\ RowsTidy /\ Accounts /\ Notices

-------------------------------------------------------------------------------
(* What the inventory does to the rows and to the locks of the confirm      *)
(* sessions.                                                                *)

\* Holds, jobs, sweep, switch and clock leave every confirm session's locks
\* alone, and the rows under them.
LEMMA InventoryLeavesLocked ==
  ASSUME InvInductive, InventoryStep, NEW c \in ConfirmReq
  PROVE  /\ LockedBy(c)' = LockedBy(c)
         /\ \A s \in LockedBy(c) : seat'[s] = seat[s]
<1>1. CASE \E h \in HoldReq : HoldStep(h)
  <2> PICK h \in HoldReq : HoldStep(h)
    BY <1>1
  <2>1. CASE HoldCommit(h)
    BY <2>1 DEF HoldCommit, ReleaseLocks, LockedBy, InvInductive, InvTypeOK,
                RowLocksProtect, ClaimLocked
  <2>2. CASE HoldClaim(h)
    BY <2>2 DEF HoldClaim, Claimable, LockRows, LockedBy
  <2>3. CASE ~HoldCommit(h) /\ ~HoldClaim(h)
    BY <2>3 DEF HoldStep, HoldBegin, HoldRefused, HoldRelease, HoldInsufficient, HoldAbort,
       HoldEnqueue, HoldEnqueueFails, invVars, LockRows, ReleaseLocks, Unlocked, LockedBy
  <2> QED BY <2>1, <2>2, <2>3
<1>2. CASE ExpiryStep
  BY <1>2 DEF ExpiryStep, SweepStep, SweepBegin, SweepVisit, SweepCommit, SweepFails, JobRun,
     JobLost, LockedBy, LockRows, ReleaseLocks, Unlocked, Put, InvInductive, InvTypeOK
<1>3. CASE TripSwitch \/ Tick
  BY <1>3 DEF TripSwitch, Tick, LockedBy
<1> QED BY <1>1, <1>2, <1>3 DEF InventoryStep

\* They keep the rows tidy, and neither delete a trip nor bring one back.
LEMMA InventoryTidy ==
  ASSUME InvInductive, RowsTidy, InventoryStep
  PROVE  RowsTidy' /\ (trip' = "gone" <=> trip = "gone")
<1>1. trip' = "gone" <=> trip = "gone"
  BY DEF InventoryStep, HoldStep, HoldBegin, HoldRefused, HoldRelease, HoldClaim,
     HoldInsufficient, HoldAbort, HoldCommit, HoldEnqueue, HoldEnqueueFails, invVars,
     ExpiryStep, SweepStep, SweepBegin, SweepVisit, SweepCommit, SweepFails, JobRun, JobLost,
     TripSwitch, Tick
<1>2. ASSUME NEW s \in Seat, seat'[s] # seat[s]
      PROVE  /\ seat'[s].status # "held" => seat'[s].heldBy = NoOne
             /\ seat'[s].status = "held" => seat'[s].heldBy \in User
             /\ seat[s].status # "deleted"
  BY <1>2, InventorySeat, MovedSeat
<1> QED BY <1>1, <1>2 DEF RowsTidy

-------------------------------------------------------------------------------

-------------------------------------------------------------------------------
(* How a handler moves.                                                     *)

\* A handler goes on: only its own pc changes.
LEMMA GoToMoves ==
  ASSUME TypeOK, NEW c \in ConfirmReq, GoTo(c, "priced") \/ GoTo(c, "tx") \/ GoTo(c, "locked")
                                         \/ GoTo(c, "conflict") \/ GoTo(c, "announce")
  PROVE  /\ settle' \in [ConfirmReq -> Handler]
         /\ settle'[c].ref = settle[c].ref /\ settle'[c].path = settle[c].path
         /\ \A d \in ConfirmReq \ {c} : settle'[d] = settle[d]
         /\ \A pc \in {"priced", "tx", "locked", "conflict", "announce"} :
              GoTo(c, pc) => settle'[c].pc = pc
BY DEF TypeOK, GoTo, Handler

\* A handler ends, by returning, throwing or crashing.
LEMMA EndMoves ==
  ASSUME TypeOK, NEW c \in ConfirmReq, settle' = [settle EXCEPT ![c] = IdleHandler]
  PROVE  /\ settle' \in [ConfirmReq -> Handler]
         /\ settle'[c].pc = "idle"
         /\ \A d \in ConfirmReq \ {c} : settle'[d] = settle[d]
BY DEF TypeOK, IdleHandler, Handler

\* A step of handler c that touches no row and no booking.
Aside(c) ==
  /\ UNCHANGED <<invVars, pay, bookings>>
  /\ settle' \in [ConfirmReq -> Handler]
  /\ \A d \in ConfirmReq \ {c} : settle'[d] = settle[d]
  /\ ~At(c, {"locked"}) /\ ~At(c, {"locked", "announce"})'
  /\ ~At(c, {"idle"})' => ~At(c, {"idle"}) /\ settle'[c].ref = settle[c].ref

LEMMA AsideKeeps ==
  ASSUME IInv, NEW c \in ConfirmReq, Aside(c)
  PROVE  /\ InvInductive' /\ RowsTidy' /\ Accounts'
         /\ announced' = announced => AnnouncementsDue'
<1> USE DEF IInv, Aside, At
<1>1. InvInductive'
  BY StutterKeeps DEF TypeOK, InvInductive
<1>2. RowsTidy'
  BY DEF RowsTidy, invVars
<1>3. PaymentsOwned' /\ HandlersPaid'
  BY DEF Accounts, PaymentsOwned, HandlersPaid
<1>4. TxLocks' /\ TxRows'
  BY DEF Accounts, TxLocks, TxRows, LockedBy, Confirmable, invVars
<1>5. BookingsPaid' /\ SoldSeatsAreBooked' /\ NoDoubleSale'
  BY DEF Accounts, BookingsPaid, SoldSeatsAreBooked, NoDoubleSale, invVars
<1>6. announced' = announced => AnnouncementsDue'
  BY DEF Notices, AnnouncementsDue, Booked
<1> QED BY <1>1, <1>2, <1>3, <1>4, <1>5, <1>6 DEF Accounts

-------------------------------------------------------------------------------
(* One lemma per action: it keeps the invariant.                           *)

\* Inventory steps: what they move is neither booked nor locked by a handler.
LEMMA InventoryKeeps ==
  ASSUME IInv, InventoryStep, UNCHANGED settleVars
  PROVE  IInv'
<1> USE DEF IInv, settleVars, At
<1>1. InvInductive'
  BY InventoryStepKeeps DEF TypeOK, InvInductive
<1>2. TypeOK'
  BY <1>1 DEF TypeOK, InvInductive
<1>3. RowsTidy'
  BY InventoryTidy DEF TypeOK, InvInductive
<1>4. Accounts'
  <2> USE DEF Accounts
  <2>1. PaymentsOwned' /\ HandlersPaid' /\ BookingsPaid' /\ NoDoubleSale'
    BY DEF PaymentsOwned, HandlersPaid, BookingsPaid, NoDoubleSale
  <2>2. \A c \in ConfirmReq : /\ LockedBy(c)' = LockedBy(c)
                              /\ \A s \in LockedBy(c) : seat'[s] = seat[s]
    BY InventoryLeavesLocked DEF TypeOK, InvInductive
  <2>3. TxLocks'
    BY <2>2 DEF TxLocks
  <2>4. TxRows'
    BY <2>2 DEF TxRows, TxLocks, Confirmable
  <2>5. \A s \in Seat : seat'[s].status = "booked" <=> seat[s].status = "booked"
    BY InventorySeat, MovedSeat DEF TypeOK, InvInductive
  <2>6. SoldSeatsAreBooked'
    BY <2>5 DEF SoldSeatsAreBooked
  <2> QED BY <2>1, <2>3, <2>4, <2>6
<1>5. Notices'
  BY DEF Notices, AnnouncementsDue, AnnouncedOnce, SettledOrReported, Booked
<1> QED BY <1>1, <1>2, <1>3, <1>4, <1>5 DEF InvInductive

\* Deletion finds no bookings, and no locks.
LEMMA DeleteTripKeeps ==
  ASSUME IInv, DeleteTrip
  PROVE  IInv'
<1> USE DEF IInv, DeleteTrip, settleVars, At, TripDelete, Unlocked, Row
<1>1. InvInductive'
  BY TripDeleteKeeps DEF TypeOK, InvInductive
<1>2. TypeOK'
  BY <1>1 DEF TypeOK, InvInductive, Payment, Booking, Issue, Handler, IdleHandler
<1>3. RowsTidy'
  BY DEF RowsTidy, TypeOK, InvTypeOK, invVars
<1>4. Accounts'
  <2> USE DEF Accounts, TypeOK, InvTypeOK, invVars
  <2>1. PaymentsOwned' /\ HandlersPaid'
    BY DEF PaymentsOwned, HandlersPaid, IdleHandler, Payment, Handler
  <2>2. TxLocks'
    BY DEF TxLocks, LockedBy, IdleHandler, HandlersPaid
  <2>3. TxRows'
    BY DEF TxRows, TxLocks, LockedBy, Confirmable, IdleHandler, HandlersPaid
  <2>4. BookingsPaid'
    BY DEF BookingsPaid, Booking
  <2>5. SoldSeatsAreBooked' /\ NoDoubleSale'
    BY DEF SoldSeatsAreBooked, NoDoubleSale
  <2> QED BY <2>1, <2>2, <2>3, <2>4, <2>5
<1>5. Notices'
  <2> USE DEF Notices, TypeOK
  <2>1. AnnouncementsDue'
    BY DEF AnnouncementsDue, IdleHandler, Booked
  <2>2. AnnouncedOnce'
    BY DEF AnnouncedOnce, Booked
  <2>3. SettledOrReported'
    BY DEF SettledOrReported, AnnouncementsDue, Booked
  <2> QED BY <2>1, <2>2, <2>3
<1> QED BY <1>1, <1>2, <1>3, <1>4, <1>5 DEF InvInductive

\* A payment starts; no handler and no booking is about it yet.
LEMMA InitializeKeeps ==
  ASSUME IInv, NEW u \in User, NEW r \in Ref, Initialize(u, r)
  PROVE  IInv'
<1> USE DEF IInv, Initialize, At
<1>1. InvInductive'
  BY StutterKeeps DEF TypeOK, InvInductive
<1>2. TypeOK'
  <2>1. {s \in HeldBy(u) : seat[s].heldUntil > now} \subseteq Seat
    BY DEF HeldBy
  <2>2. pay' \in [Ref -> Payment]
    BY <2>1 DEF TypeOK, Payment
  <2> QED BY <1>1, <2>2 DEF TypeOK, InvInductive
<1>3. RowsTidy'
  BY DEF RowsTidy, TypeOK, InvTypeOK, invVars
<1>4. Accounts'
  <2> USE DEF Accounts, TypeOK, InvTypeOK, invVars
  <2>1. PaymentsOwned' /\ HandlersPaid'
    BY DEF PaymentsOwned, HandlersPaid, IdleHandler, Payment, Handler
  <2>2. TxLocks'
    BY DEF TxLocks, LockedBy, IdleHandler, HandlersPaid
  <2>3. TxRows'
    BY DEF TxRows, TxLocks, LockedBy, Confirmable, IdleHandler, HandlersPaid
  <2>4. BookingsPaid'
    BY DEF BookingsPaid, Booking
  <2>5. SoldSeatsAreBooked' /\ NoDoubleSale'
    BY DEF SoldSeatsAreBooked, NoDoubleSale
  <2> QED BY <2>1, <2>2, <2>3, <2>4, <2>5
<1>5. Notices'
  <2> USE DEF Notices, TypeOK
  <2>1. AnnouncementsDue'
    BY DEF AnnouncementsDue, IdleHandler, Booked
  <2>2. AnnouncedOnce'
    BY DEF AnnouncedOnce, Booked
  <2>3. SettledOrReported'
    BY DEF SettledOrReported, AnnouncementsDue, Booked
  <2> QED BY <2>1, <2>2, <2>3
<1> QED BY <1>1, <1>2, <1>3, <1>4, <1>5 DEF InvInductive

\* A payment is captured, for the same user and seats.
LEMMA CaptureKeeps ==
  ASSUME IInv, NEW r \in Ref, Capture(r)
  PROVE  IInv'
<1> USE DEF IInv, Capture, At
<1>1. InvInductive'
  BY StutterKeeps DEF TypeOK, InvInductive
<1>2. TypeOK'
  BY <1>1 DEF TypeOK, InvInductive, Payment, Booking, Issue, Handler, IdleHandler
<1>3. RowsTidy'
  BY DEF RowsTidy, TypeOK, InvTypeOK, invVars
<1>4. Accounts'
  <2> USE DEF Accounts, TypeOK, InvTypeOK, invVars
  <2>1. PaymentsOwned' /\ HandlersPaid'
    BY DEF PaymentsOwned, HandlersPaid, IdleHandler, Payment, Handler
  <2>2. TxLocks'
    BY DEF TxLocks, LockedBy, IdleHandler, HandlersPaid
  <2>3. TxRows'
    BY DEF TxRows, TxLocks, LockedBy, Confirmable, IdleHandler, HandlersPaid
  <2>4. BookingsPaid'
    BY DEF BookingsPaid, Booking
  <2>5. SoldSeatsAreBooked' /\ NoDoubleSale'
    BY DEF SoldSeatsAreBooked, NoDoubleSale
  <2> QED BY <2>1, <2>2, <2>3, <2>4, <2>5
<1>5. Notices'
  <2> USE DEF Notices, TypeOK
  <2>1. AnnouncementsDue'
    BY DEF AnnouncementsDue, IdleHandler, Booked
  <2>2. AnnouncedOnce'
    BY DEF AnnouncedOnce, Booked
  <2>3. SettledOrReported'
    BY DEF SettledOrReported, AnnouncementsDue, Booked
  <2> QED BY <2>1, <2>2, <2>3
<1> QED BY <1>1, <1>2, <1>3, <1>4, <1>5 DEF InvInductive

\* A repeated webhook of a booked payment only answers.
LEMMA WebhookAgainKeeps ==
  ASSUME IInv, NEW r \in Ref, WebhookAgain(r)
  PROVE  IInv'
<1> USE DEF IInv, WebhookAgain, At
<1>1. InvInductive'
  BY StutterKeeps DEF TypeOK, InvInductive
<1>2. TypeOK'
  BY <1>1 DEF TypeOK, InvInductive, Payment, Booking, Issue, Handler, IdleHandler
<1>3. RowsTidy'
  BY DEF RowsTidy, TypeOK, InvTypeOK, invVars
<1>4. Accounts'
  <2> USE DEF Accounts, TypeOK, InvTypeOK, invVars
  <2>1. PaymentsOwned' /\ HandlersPaid'
    BY DEF PaymentsOwned, HandlersPaid, IdleHandler, Payment, Handler
  <2>2. TxLocks'
    BY DEF TxLocks, LockedBy, IdleHandler, HandlersPaid
  <2>3. TxRows'
    BY DEF TxRows, TxLocks, LockedBy, Confirmable, IdleHandler, HandlersPaid
  <2>4. BookingsPaid'
    BY DEF BookingsPaid, Booking
  <2>5. SoldSeatsAreBooked' /\ NoDoubleSale'
    BY DEF SoldSeatsAreBooked, NoDoubleSale
  <2> QED BY <2>1, <2>2, <2>3, <2>4, <2>5
<1>5. Notices'
  <2> USE DEF Notices, TypeOK
  <2>1. AnnouncementsDue'
    BY DEF AnnouncementsDue, IdleHandler, Booked
  <2>2. AnnouncedOnce'
    BY DEF AnnouncedOnce, Booked
  <2>3. SettledOrReported'
    BY DEF SettledOrReported, AnnouncementsDue, Booked
  <2> QED BY <2>1, <2>2, <2>3
<1> QED BY <1>1, <1>2, <1>3, <1>4, <1>5 DEF InvInductive

\* A handler starts, without locks.
LEMMA EnterKeeps ==
  ASSUME IInv, NEW c \in ConfirmReq, NEW r \in Ref, NEW path \in {"webhook", "verify"},
         pay[r].state = "captured", Enter(c, r, path)
  PROVE  IInv'
<1> USE DEF IInv, Enter, At
<1>1. InvInductive'
  BY StutterKeeps DEF TypeOK, InvInductive
<1>2. TypeOK'
  BY <1>1 DEF TypeOK, InvInductive, Payment, Booking, Issue, Handler, IdleHandler
<1>3. RowsTidy'
  BY DEF RowsTidy, TypeOK, InvTypeOK, invVars
<1>4. Accounts'
  <2> USE DEF Accounts, TypeOK, InvTypeOK, invVars
  <2>1. PaymentsOwned' /\ HandlersPaid'
    BY DEF PaymentsOwned, HandlersPaid, IdleHandler, Payment, Handler
  <2>2. TxLocks'
    BY DEF TxLocks, LockedBy, IdleHandler, HandlersPaid
  <2>3. TxRows'
    BY DEF TxRows, TxLocks, LockedBy, Confirmable, IdleHandler, HandlersPaid
  <2>4. BookingsPaid'
    BY DEF BookingsPaid, Booking
  <2>5. SoldSeatsAreBooked' /\ NoDoubleSale'
    BY DEF SoldSeatsAreBooked, NoDoubleSale
  <2> QED BY <2>1, <2>2, <2>3, <2>4, <2>5
<1>5. Notices'
  <2> USE DEF Notices, TypeOK
  <2>1. AnnouncementsDue'
    BY DEF AnnouncementsDue, IdleHandler, Booked
  <2>2. AnnouncedOnce'
    BY DEF AnnouncedOnce, Booked
  <2>3. SettledOrReported'
    BY DEF SettledOrReported, AnnouncementsDue, Booked
  <2> QED BY <2>1, <2>2, <2>3
<1> QED BY <1>1, <1>2, <1>3, <1>4, <1>5 DEF InvInductive

\* Whoever returns or throws has reported, or found the booking.
LEMMA SettlePriceKeeps ==
  ASSUME IInv, NEW c \in ConfirmReq, SettlePrice(c)
  PROVE  IInv'
<1> USE DEF IInv, SettlePrice, GoTo, Return, Report
<1>1. Aside(c)
  BY GoToMoves, EndMoves DEF Aside, At, TypeOK
<1>2. InvInductive' /\ RowsTidy' /\ Accounts' /\ (announced' = announced => AnnouncementsDue')
  BY <1>1, AsideKeeps
<1>3. settle[c].ref \in Ref
  BY DEF Accounts, HandlersPaid, At
<1>4. TypeOK'
  BY <1>1, <1>2, <1>3 DEF TypeOK, InvInductive, Aside, Issue
<1>5. Notices'
  <2>1. AnnouncementsDue'
    BY <1>1, <1>2 
  <2>2. AnnouncedOnce'
    BY <1>3 DEF Notices, AnnouncedOnce, Booked, TypeOK
  <2>3. SettledOrReported'
    <3>1. CASE trip = "gone"
      <4>1. /\ acked' \subseteq acked \cup {settle[c].ref}
            /\ issues' = issues \cup {[ref |-> settle[c].ref, code |-> "OTHER"]}
        BY <3>1
      <4>2. \E i \in issues' : i.ref = settle[c].ref
        <5> DEFINE report == [ref |-> settle[c].ref, code |-> "OTHER"]
        <5>1. report \in issues' /\ report.ref = settle[c].ref
          BY <4>1
        <5> HIDE DEF report
        <5> QED BY <5>1
      <4> QED BY <4>1, <4>2 DEF Notices, SettledOrReported, Booked
    <3>2. CASE trip # "gone"
      BY <1>3, <3>2 DEF Notices, SettledOrReported, Booked
    <3> QED BY <3>1, <3>2
  <2> QED BY <2>1, <2>2, <2>3 DEF Notices
<1> QED BY <1>2, <1>4, <1>5 DEF InvInductive

\* The handler stops at a booking it finds, and reports an unknown trip.
LEMMA ConfirmLookupKeeps ==
  ASSUME IInv, NEW c \in ConfirmReq, ConfirmLookup(c)
  PROVE  IInv'
<1> USE DEF IInv, ConfirmLookup, GoTo, Return, Throw, Report
<1>1. Aside(c)
  BY GoToMoves, EndMoves DEF Aside, At, TypeOK
<1>2. InvInductive' /\ RowsTidy' /\ Accounts' /\ (announced' = announced => AnnouncementsDue')
  BY <1>1, AsideKeeps
<1>3. settle[c].ref \in Ref
  BY DEF Accounts, HandlersPaid, At
<1>4. TypeOK'
  BY <1>1, <1>2, <1>3 DEF TypeOK, InvInductive, Aside, Issue
<1>5. Notices'
  <2>1. AnnouncementsDue'
    BY <1>1, <1>2 
  <2>2. AnnouncedOnce'
    BY <1>3 DEF Notices, AnnouncedOnce, Booked, TypeOK
  <2>3. SettledOrReported'
    BY <1>3 DEF Notices, SettledOrReported, Booked
  <2> QED BY <2>1, <2>2, <2>3 DEF Notices
<1> QED BY <1>2, <1>4, <1>5 DEF InvInductive

\* The handler found seats gone; it has neither locked nor reported anything yet.
LEMMA ConfirmSeatsGoneKeeps ==
  ASSUME IInv, NEW c \in ConfirmReq, ConfirmSeatsGone(c)
  PROVE  IInv'
<1> USE DEF IInv, ConfirmSeatsGone, GoTo
<1>1. Aside(c)
  BY GoToMoves DEF Aside, At, TypeOK
<1>2. InvInductive' /\ RowsTidy' /\ Accounts' /\ (announced' = announced => AnnouncementsDue')
  BY <1>1, AsideKeeps
<1>3. settle[c].ref \in Ref
  BY DEF Accounts, HandlersPaid, At
<1>4. TypeOK'
  BY <1>1, <1>2, <1>3 DEF TypeOK, InvInductive, Aside, Issue
<1>5. Notices'
  <2>1. AnnouncementsDue'
    BY <1>1, <1>2 
  <2>2. AnnouncedOnce'
    BY <1>3 DEF Notices, AnnouncedOnce, Booked, TypeOK
  <2>3. SettledOrReported'
    BY <1>3 DEF Notices, SettledOrReported, Booked
  <2> QED BY <2>1, <2>2, <2>3 DEF Notices
<1> QED BY <1>2, <1>4, <1>5 DEF InvInductive

\* The loser of a race returns only after it saw the booking or reported.
LEMMA ConfirmRecheckKeeps ==
  ASSUME IInv, NEW c \in ConfirmReq, ConfirmRecheck(c)
  PROVE  IInv'
<1> USE DEF IInv, ConfirmRecheck, Return, Report
<1>1. Aside(c)
  BY EndMoves DEF Aside, At, TypeOK
<1>2. InvInductive' /\ RowsTidy' /\ Accounts' /\ (announced' = announced => AnnouncementsDue')
  BY <1>1, AsideKeeps
<1>3. settle[c].ref \in Ref
  BY DEF Accounts, HandlersPaid, At
<1>4. TypeOK'
  BY <1>1, <1>2, <1>3 DEF TypeOK, InvInductive, Aside, Issue
<1>5. Notices'
  <2>1. AnnouncementsDue'
    BY <1>1, <1>2 
  <2>2. AnnouncedOnce'
    BY <1>3 DEF Notices, AnnouncedOnce, Booked, TypeOK
  <2>3. SettledOrReported'
    BY <1>3 DEF Notices, SettledOrReported, Booked
  <2> QED BY <2>1, <2>2, <2>3 DEF Notices
<1> QED BY <1>2, <1>4, <1>5 DEF InvInductive

\* The announcement is the first, and no other handler is about to make it.
LEMMA AnnounceKeeps ==
  ASSUME IInv, NEW c \in ConfirmReq, Announce(c)
  PROVE  IInv'
<1> USE DEF IInv, Announce, Return
<1>1. Aside(c)
  BY EndMoves DEF Aside, At, TypeOK
<1>2. InvInductive' /\ RowsTidy' /\ Accounts' /\ (announced' = announced => AnnouncementsDue')
  BY <1>1, AsideKeeps
<1>3. settle[c].ref \in Ref
  BY DEF Accounts, HandlersPaid, At
<1>4. TypeOK'
  BY <1>1, <1>2, <1>3 DEF TypeOK, InvInductive, Aside, Issue
<1>5. Notices'
  <2>1. AnnouncementsDue'
    BY <1>1, <1>2 DEF Aside, Notices, AnnouncementsDue, At, Booked
  <2>2. AnnouncedOnce'
    BY <1>3 DEF Notices, AnnouncedOnce, Booked, TypeOK, AnnouncementsDue, At
  <2>3. SettledOrReported'
    BY <1>3 DEF Notices, SettledOrReported, Booked, AnnouncementsDue, At
  <2> QED BY <2>1, <2>2, <2>3 DEF Notices
<1> QED BY <1>2, <1>4, <1>5 DEF InvInductive

\* The handler locks the rows of its payment.
LEMMA ConfirmLockKeeps ==
  ASSUME IInv, NEW c \in ConfirmReq, ConfirmLock(c)
  PROVE  IInv'
<1> DEFINE p == pay[settle[c].ref]
<1> USE DEF IInv
<1>1. /\ At(c, {"tx"}) /\ LockForConfirm(c, p.user, p.seats)
      /\ GoTo(c, "locked") /\ UNCHANGED <<pay, bookings, issues, announced>>
  BY DEF ConfirmLock
<1>2. settle[c].ref \in Ref /\ p.user \in User /\ p.seats \subseteq Seat
  BY <1>1 DEF Accounts, HandlersPaid, PaymentsOwned, At, TypeOK, Payment
<1>3. InvInductive'
  BY <1>1, <1>2, LockForConfirmKeeps DEF TypeOK, InvInductive
<1>4. /\ settle' \in [ConfirmReq -> Handler]
      /\ settle'[c].ref = settle[c].ref /\ settle'[c].pc = "locked"
      /\ \A d \in ConfirmReq \ {c} : settle'[d] = settle[d]
  BY <1>1, GoToMoves
<1>5. TypeOK'
  BY <1>1, <1>3, <1>4 DEF TypeOK, InvInductive, GoTo
<1>6. UNCHANGED <<trip, seat>>
  BY <1>1 DEF LockForConfirm
<1>7. RowsTidy'
  BY <1>6 DEF RowsTidy
<1>8. Accounts'
  <2> USE DEF Accounts, At
  <2>1. PaymentsOwned' /\ HandlersPaid' /\ BookingsPaid' /\ NoDoubleSale' /\ SoldSeatsAreBooked'
    BY <1>1, <1>4, <1>6 DEF PaymentsOwned, HandlersPaid, BookingsPaid, NoDoubleSale,
       SoldSeatsAreBooked
  <2>2. LockedBy(c)' = p.seats
    <3>1. LockedBy(c) = {}
      BY <1>1 DEF TxLocks
    <3> QED BY <1>1, <1>2, <3>1 DEF LockForConfirm, LockRows, LockedBy
  <2>3. \A d \in ConfirmReq \ {c} : LockedBy(d)' = LockedBy(d)
    BY <1>1 DEF LockForConfirm, LockRows, LockedBy, Unlocked
  <2>4. TxLocks'
    BY <1>1, <1>4, <2>2, <2>3 DEF TxLocks
  <2>5. TxRows'
    BY <1>1, <1>4, <1>6 DEF TxRows, LockForConfirm, Confirmable
  <2> QED BY <2>1, <2>4, <2>5
<1>9. Notices'
  BY <1>1, <1>4 DEF Notices, AnnouncementsDue, AnnouncedOnce, SettledOrReported, Booked, At, GoTo
<1> QED BY <1>3, <1>5, <1>7, <1>8, <1>9 DEF InvInductive

\* The sale: its rows were locked, so not booked, so in no other booking; and a
\* booking of the same payment would be of the same rows.
LEMMA ConfirmCommitKeeps ==
  ASSUME IInv, NEW c \in ConfirmReq, ConfirmCommit(c)
  PROVE  IInv'
<1> DEFINE r == settle[c].ref
           new == [ref |-> r, user |-> pay[r].user, seats |-> pay[r].seats]
<1> USE DEF IInv
<1>1. /\ At(c, {"locked"}) /\ MarkBooked(c) /\ GoTo(c, "announce")
      /\ bookings' = bookings \cup {new} /\ UNCHANGED <<pay, issues, announced>>
  BY DEF ConfirmCommit
<1>2. r \in Ref /\ pay[r].state = "captured" /\ pay[r] \in Payment
  BY <1>1 DEF Accounts, HandlersPaid, At, TypeOK
<1>3. pay[r].user \in User /\ pay[r].seats # {} /\ pay[r].seats \subseteq Seat
  BY <1>2 DEF Accounts, PaymentsOwned, Payment
<1>4. LockedBy(c) = pay[r].seats
  BY <1>1 DEF Accounts, TxLocks
<1>5. seat' = Put(pay[r].seats, Row("booked")) /\ rowLock' = ReleaseLocks(c) /\ trip' = trip
  BY <1>1, <1>4 DEF MarkBooked
<1>6. InvInductive'
  BY <1>1, MarkBookedKeeps DEF TypeOK, InvInductive
<1>7. /\ settle' \in [ConfirmReq -> Handler]
      /\ settle'[c].ref = r /\ settle'[c].pc = "announce"
      /\ \A d \in ConfirmReq \ {c} : settle'[d] = settle[d]
  BY <1>1, GoToMoves
<1>8. TypeOK'
  <2>1. new \in Booking
    BY <1>2, <1>3 DEF Booking
  <2> QED BY <1>1, <1>6, <1>7, <2>1 DEF TypeOK, InvInductive, GoTo
<1>9. \A s \in pay[r].seats : seat[s].status \in {"available", "held"}
  BY <1>4 DEF RowLocksProtect, ConfirmLocked, LockedBy
<1>10. RowsTidy'
  BY <1>3, <1>5, <1>9 DEF RowsTidy, Put, Row
<1>11. \A b \in bookings : b.ref # r /\ b.seats \cap pay[r].seats = {}
  <2> SUFFICES ASSUME NEW b \in bookings PROVE b.ref # r /\ b.seats \cap pay[r].seats = {}
    OBVIOUS
  <2>1. b.seats \cap pay[r].seats = {}
    BY <1>3, <1>9 DEF Accounts, SoldSeatsAreBooked
  <2>2. b.ref = r => b.seats = pay[r].seats
    BY DEF Accounts, BookingsPaid
  <2> QED BY <1>3, <2>1, <2>2
<1>12. Accounts'
  <2> USE DEF Accounts
  <2>1. PaymentsOwned' /\ HandlersPaid'
    BY <1>1, <1>2, <1>7 DEF PaymentsOwned, HandlersPaid, At
  <2>2. \A d \in ConfirmReq \ {c} : LockedBy(d)' = LockedBy(d)
    BY <1>5 DEF ReleaseLocks, LockedBy
  <2>3. LockedBy(c)' = {}
    BY <1>5 DEF ReleaseLocks, LockedBy
  <2>4. TxLocks'
    BY <1>1, <1>7, <2>2, <2>3 DEF TxLocks, At
  <2>5. \A d \in ConfirmReq \ {c} : \A s \in LockedBy(d) : seat'[s] = seat[s]
    BY <1>4, <1>5 DEF Put, LockedBy
  <2>6. TxRows'
    BY <1>1, <1>7, <2>5 DEF TxRows, TxLocks, At, Confirmable
  <2>7. BookingsPaid'
    BY <1>1, <1>2 DEF BookingsPaid
  <2>8. SoldSeatsAreBooked'
    <3>1. \A s \in Seat : seat'[s].status = "booked" <=>
                           seat[s].status = "booked" \/ s \in pay[r].seats
      BY <1>5 DEF Put, Row
    <3>2. new \in bookings' /\ new.seats = pay[r].seats /\ bookings' \ {new} \subseteq bookings
          /\ bookings \subseteq bookings'
      BY <1>1
    <3> HIDE DEF new
    <3>3. ASSUME NEW s \in Seat
          PROVE  (\E b \in bookings' : s \in b.seats) <=>
                 (\E b \in bookings : s \in b.seats) \/ s \in pay[r].seats
      BY <3>2
    <3> QED BY <3>1, <3>3 DEF SoldSeatsAreBooked
  <2>9. NoDoubleSale'
    BY <1>1, <1>11 DEF NoDoubleSale
  <2> QED BY <2>1, <2>4, <2>6, <2>7, <2>8, <2>9
<1>13. Notices'
  <2>1. announced[r] = 0
    BY <1>2, <1>11 DEF Notices, AnnouncedOnce, Booked, TypeOK
  <2>2. \A d \in ConfirmReq \ {c} : At(d, {"announce"}) => settle[d].ref # r
    BY <1>11 DEF Notices, AnnouncementsDue, Booked
  <2>3. \A q \in Ref : Booked(q) => Booked(q)'
    BY <1>1 DEF Booked
  <2>4. Booked(r)'
    <3>1. new \in bookings' /\ new.ref = r
      BY <1>1
    <3> HIDE DEF new
    <3> QED BY <1>1, <1>7, <3>1 DEF Booked
  <2>5. AnnouncementsDue'
    BY <1>1, <1>2, <1>7, <2>1, <2>2, <2>3, <2>4
       DEF Notices, AnnouncementsDue, At, Accounts, HandlersPaid
  <2>6. AnnouncedOnce' /\ SettledOrReported'
    BY <1>1 DEF Notices, AnnouncedOnce, SettledOrReported, Booked, GoTo
  <2> QED BY <2>5, <2>6 DEF Notices
<1> QED BY <1>6, <1>8, <1>10, <1>12, <1>13 DEF InvInductive

\* An error rolls the locks back and is reported.
LEMMA ConfirmFailsKeeps ==
  ASSUME IInv, NEW c \in ConfirmReq, ConfirmFails(c)
  PROVE  IInv'
<1> USE DEF IInv, ConfirmFails, At, Throw, Report, RollBack, ReleaseLocks
<1>1. InvInductive'
  BY RollBackKeeps DEF TypeOK, InvInductive
<1>2. TypeOK'
  <2>1. settle[c].ref \in Ref
    BY DEF Accounts, HandlersPaid
  <2>2. settle' \in [ConfirmReq -> Handler]
    BY EndMoves
  <2>3. issues' \subseteq Issue
    BY <2>1 DEF TypeOK, Issue
  <2> QED BY <1>1, <2>2, <2>3 DEF TypeOK, InvInductive
<1>3. RowsTidy'
  BY DEF RowsTidy, TypeOK, InvTypeOK, invVars
<1>4. Accounts'
  <2> USE DEF Accounts, TypeOK, InvTypeOK, invVars
  <2>1. PaymentsOwned' /\ HandlersPaid'
    BY DEF PaymentsOwned, HandlersPaid, IdleHandler, Payment, Handler
  <2>2. TxLocks'
    BY DEF TxLocks, LockedBy, IdleHandler, HandlersPaid
  <2>3. TxRows'
    BY DEF TxRows, TxLocks, LockedBy, Confirmable, IdleHandler, HandlersPaid
  <2>4. BookingsPaid'
    BY DEF BookingsPaid, Booking
  <2>5. SoldSeatsAreBooked' /\ NoDoubleSale'
    BY DEF SoldSeatsAreBooked, NoDoubleSale
  <2> QED BY <2>1, <2>2, <2>3, <2>4, <2>5
<1>5. Notices'
  <2> USE DEF Notices, TypeOK
  <2>1. AnnouncementsDue'
    BY DEF AnnouncementsDue, IdleHandler, Booked
  <2>2. AnnouncedOnce'
    BY DEF AnnouncedOnce, Booked
  <2>3. SettledOrReported'
    BY DEF SettledOrReported, AnnouncementsDue, Booked
  <2> QED BY <2>1, <2>2, <2>3
<1> QED BY <1>1, <1>2, <1>3, <1>4, <1>5 DEF InvInductive

\* A crash rolls the locks back.
LEMMA CrashKeeps ==
  ASSUME IInv, NEW c \in ConfirmReq, Crash(c)
  PROVE  IInv'
<1> USE DEF IInv, Crash, At, RollBack, ReleaseLocks
<1>1. InvInductive'
  BY RollBackKeeps DEF TypeOK, InvInductive
<1>2. TypeOK'
  BY <1>1 DEF TypeOK, InvInductive, Payment, Booking, Issue, Handler, IdleHandler
<1>3. RowsTidy'
  BY DEF RowsTidy, TypeOK, InvTypeOK, invVars
<1>4. Accounts'
  <2> USE DEF Accounts, TypeOK, InvTypeOK, invVars
  <2>1. PaymentsOwned' /\ HandlersPaid'
    BY DEF PaymentsOwned, HandlersPaid, IdleHandler, Payment, Handler
  <2>2. TxLocks'
    BY DEF TxLocks, LockedBy, IdleHandler, HandlersPaid
  <2>3. TxRows'
    BY DEF TxRows, TxLocks, LockedBy, Confirmable, IdleHandler, HandlersPaid
  <2>4. BookingsPaid'
    BY DEF BookingsPaid, Booking
  <2>5. SoldSeatsAreBooked' /\ NoDoubleSale'
    BY DEF SoldSeatsAreBooked, NoDoubleSale
  <2> QED BY <2>1, <2>2, <2>3, <2>4, <2>5
<1>5. Notices'
  <2> USE DEF Notices, TypeOK
  <2>1. AnnouncementsDue'
    BY DEF AnnouncementsDue, IdleHandler, Booked
  <2>2. AnnouncedOnce'
    BY DEF AnnouncedOnce, Booked
  <2>3. SettledOrReported'
    BY DEF SettledOrReported, AnnouncementsDue, Booked
  <2> QED BY <2>1, <2>2, <2>3
<1> QED BY <1>1, <1>2, <1>3, <1>4, <1>5 DEF InvInductive
-------------------------------------------------------------------------------
(* All steps, and the theorems.                                             *)

\* A stuttering step.
LEMMA IdleKeeps ==
  ASSUME IInv, UNCHANGED vars
  PROVE  IInv'
<1> USE DEF IInv, vars, settleVars
<1>1. InvInductive'
  BY StutterKeeps DEF TypeOK, InvInductive
<1>2. TypeOK'
  BY <1>1 DEF TypeOK, InvInductive
<1>3. RowsTidy'
  BY DEF RowsTidy, invVars
<1>4. Accounts'
  BY DEF Accounts, PaymentsOwned, HandlersPaid, TxLocks, TxRows, BookingsPaid,
     SoldSeatsAreBooked, NoDoubleSale, At, LockedBy, Confirmable, invVars
<1>5. Notices'
  BY DEF Notices, AnnouncementsDue, AnnouncedOnce, SettledOrReported, At, Booked
<1> QED BY <1>1, <1>2, <1>3, <1>4, <1>5 DEF InvInductive

\* Every step.
LEMMA NextKeeps ==
  ASSUME IInv, [Next]_vars
  PROVE  IInv'
<1>1. ASSUME NEW c \in ConfirmReq, SettleStep(c) \/ SettleFault(c)
      PROVE  IInv'
  BY <1>1, SettlePriceKeeps, ConfirmLookupKeeps, ConfirmLockKeeps, ConfirmSeatsGoneKeeps,
     ConfirmCommitKeeps, AnnounceKeeps, ConfirmRecheckKeeps, ConfirmFailsKeeps, CrashKeeps
     DEF SettleStep, SettleFault
<1>2. ASSUME NEW c \in ConfirmReq, NEW r \in Ref, Webhook(c, r) \/ VerifyPoll(c, r)
      PROVE  IInv'
  BY <1>2, EnterKeeps DEF Webhook, VerifyPoll
<1> QED BY <1>1, <1>2, IdleKeeps, InventoryKeeps, DeleteTripKeeps, InitializeKeeps,
           CaptureKeeps, WebhookAgainKeeps DEF Next

\* The initial state.
LEMMA InitHolds ==
  ASSUME Init
  PROVE  IInv
<1> USE DEF Init, IInv
<1>1. InvInductive
  BY InvInitHolds
<1>2. TypeOK
  BY <1>1 DEF TypeOK, InvInductive, Payment, Handler, IdleHandler
<1>3. RowsTidy
  BY DEF RowsTidy, InvInit, Row
<1>4. Accounts
  BY DEF Accounts, PaymentsOwned, HandlersPaid, TxLocks, TxRows, BookingsPaid,
     SoldSeatsAreBooked, NoDoubleSale, At, LockedBy, IdleHandler, InvInit, Row
<1>5. Notices
  BY DEF Notices, AnnouncementsDue, AnnouncedOnce, SettledOrReported, At, IdleHandler
<1> QED BY <1>1, <1>2, <1>3, <1>4, <1>5 DEF InvInductive

\* So the invariant holds throughout.
LEMMA SettlementInductive == Spec => []IInv
<1>1. Init => IInv
  BY InitHolds
<1>2. IInv /\ [Next]_vars => IInv'
  BY NextKeeps
<1> QED BY <1>1, <1>2, PTL DEF Spec

\* Payments, bookings, reports and handlers keep their types.
THEOREM SettlementTypes == Spec => []TypeOK
<1>1. IInv => TypeOK
  BY DEF IInv
<1> QED BY <1>1, SettlementInductive, PTL

\* No seat is in two bookings and no payment makes two, without the help of any
\* unique constraint: lockAndMarkBooked's row locks suffice.
THEOREM NeverSoldTwice == Spec => []NoDoubleSale
<1>1. IInv => NoDoubleSale
  BY DEF IInv, Accounts
<1> QED BY <1>1, SettlementInductive, PTL

\* The seats table and the bookings tables agree on what is sold.
THEOREM TablesAgree == Spec => []SoldSeatsAreBooked
<1>1. IInv => SoldSeatsAreBooked
  BY DEF IInv, Accounts
<1> QED BY <1>1, SettlementInductive, PTL

\* A payment whose webhook got its 200 has a booking or a report.
THEOREM AckedIsSettled == Spec => []SettledOrReported
<1>1. IInv => SettledOrReported
  BY DEF IInv, Notices
<1> QED BY <1>1, SettlementInductive, PTL

\* booking.confirmed is emitted at most once, and only for a booking.
THEOREM AnnouncedAtMostOnce == Spec => []AnnouncedOnce
<1>1. IInv => AnnouncedOnce
  BY DEF IInv, Notices
<1> QED BY <1>1, SettlementInductive, PTL

-------------------------------------------------------------------------------
(* The refinement: every step is a step of the ledger, or none.             *)

LedgerStep == [Ledger!LedgerNext]_(Ledger!ledgerVars)

\* A step that moves no holder and sells nothing is no step of the ledger.
LEMMA NoLedgerStep ==
  ASSUME UNCHANGED bookings, trip' = "gone" <=> trip = "gone",
         \A s \in Seat : seat'[s].heldBy = seat[s].heldBy
  PROVE  LedgerStep
BY DEF LedgerStep, Ledger!ledgerVars

\* Expiry gives held seats back.
LEMMA LapseStep ==
  ASSUME NEW S \in SUBSET Seat, seat' = Put(S, Row("available")), UNCHANGED <<bookings, trip>>
  PROVE  LedgerStep
<1>1. Ledger!Lapse(S)
  BY DEF Ledger!Lapse, Ledger!GiveTo, Put, Row
<1> QED BY <1>1 DEF LedgerStep, Ledger!LedgerNext

\* A hold commit gives back what the user held and takes what it claimed.
LEMMA ReholdStep ==
  ASSUME IInv, NEW h \in HoldReq, HoldCommit(h), UNCHANGED bookings
  PROVE  LedgerStep
<1>0. PICK u \in User, C \in SUBSET Seat : u = hold[h].user /\ C = hold[h].claimed
  BY DEF IInv, TypeOK, InvTypeOK, HoldState, IdleHold, BusyHold, HoldCommit
<1>1. C \subseteq LockedBy(h) /\ trip' = trip
  BY <1>0 DEF IInv, HoldCommit, RowLocksProtect, ClaimLocked
<1>2. \A s \in Seat : seat'[s].heldBy = IF s \in C THEN u
                        ELSE IF s \in LockedBy(h) THEN NoOne ELSE seat[s].heldBy
  BY <1>0 DEF HoldCommit, LockedBy, HeldRow, Row
<1>3. \A s \in LockedBy(h) : Confirmable(s, u)
  BY <1>0 DEF IInv, RowLocksProtect, HoldLocked, LockedBy
<1>4. CASE LockedBy(h) = {}
  BY <1>1, <1>2, <1>4, NoLedgerStep
<1>5. CASE LockedBy(h) # {}
  <2>0. PICK F \in SUBSET Seat : F = {s \in LockedBy(h) : seat[s].heldBy = u}
    BY DEF LockedBy
  <2>1. trip # "gone"
    BY <1>3, <1>5 DEF IInv, RowsTidy, Confirmable, LockedBy
  <2>2. \A s \in LockedBy(h) \ F : seat[s].heldBy = NoOne /\ seat[s].status = "available"
    BY <1>3, <2>0 DEF Confirmable, IInv, RowsTidy, LockedBy
  <2>3. C \subseteq Ledger!Free \cup F
    BY <1>1, <2>2 DEF Ledger!Free, Ledger!Sold, IInv, Accounts, SoldSeatsAreBooked
  <2>4. F \subseteq Ledger!HeldBy(u)
    BY <2>0 DEF Ledger!HeldBy, LockedBy
  <2>5. [s \in Seat |-> seat[s].heldBy]' =
           [s \in Seat |-> IF s \in C THEN u ELSE IF s \in F THEN NoOne
                           ELSE [t \in Seat |-> seat[t].heldBy][s]]
    BY <1>1, <1>2, <2>0, <2>2
  <2>6. Ledger!Rehold(u, F, C)
    BY <1>1, <2>1, <2>3, <2>4, <2>5 DEF Ledger!Rehold
  <2> QED BY <2>6 DEF LedgerStep, Ledger!LedgerNext
<1> QED BY <1>4, <1>5

\* A confirm commit sells.
LEMMA SellStep ==
  ASSUME IInv, NEW c \in ConfirmReq, ConfirmCommit(c)
  PROVE  LedgerStep
<1>1. PICK r \in Ref : r = settle[c].ref /\ pay[r].state = "captured" /\ At(c, {"locked"})
  BY DEF IInv, Accounts, HandlersPaid, ConfirmCommit, At
<1>2. PICK u \in User, S \in SUBSET Seat : u = pay[r].user /\ S = pay[r].seats /\ S # {}
  BY <1>1 DEF IInv, Accounts, PaymentsOwned, TypeOK, Payment
<1>3. LockedBy(c) = S
  BY <1>1, <1>2 DEF IInv, Accounts, TxLocks
<1>4. \A s \in S : Confirmable(s, u)
  BY <1>1, <1>2 DEF IInv, Accounts, TxRows
<1>5. S \subseteq Ledger!Free \cup Ledger!HeldBy(u)
  BY <1>2, <1>4 DEF Ledger!Free, Ledger!HeldBy, Ledger!Sold, Confirmable, IInv, RowsTidy,
     Accounts, SoldSeatsAreBooked
<1>6. trip # "gone"
  BY <1>2, <1>4 DEF Confirmable, IInv, RowsTidy
<1>7. \A b \in bookings : b.ref # r
  <2> SUFFICES ASSUME NEW b \in bookings, b.ref = r PROVE FALSE
    OBVIOUS
  <2>1. b.seats = S
    BY <1>2 DEF IInv, Accounts, BookingsPaid
  <2>2. PICK s \in S : seat[s].status = "booked"
    BY <1>2, <2>1 DEF IInv, Accounts, SoldSeatsAreBooked
  <2> QED BY <1>4, <2>2 DEF Confirmable
<1>8. /\ bookings' = bookings \cup {[ref |-> r, user |-> u, seats |-> S]}
      /\ seat' = Put(S, Row("booked")) /\ trip' = trip
  BY <1>1, <1>2, <1>3 DEF ConfirmCommit, MarkBooked
<1>9. [s \in Seat |-> seat[s].heldBy]' = Ledger!GiveTo(S, NoOne)
  BY <1>8 DEF Ledger!GiveTo, Put, Row
<1>10. Ledger!Sell(r, u, S)
  BY <1>2, <1>5, <1>6, <1>7, <1>8, <1>9 DEF Ledger!Sell
<1> QED BY <1>10 DEF LedgerStep, Ledger!LedgerNext

\* Deleting the trip withdraws it.
LEMMA WithdrawStep ==
  ASSUME DeleteTrip
  PROVE  LedgerStep
<1>1. Ledger!Withdraw
  BY DEF DeleteTrip, TripDelete, settleVars, Row, Ledger!Withdraw
<1> QED BY <1>1 DEF LedgerStep, Ledger!LedgerNext

\* The inventory's steps hold, give back or do nothing.
LEMMA InventoryLedgerStep ==
  ASSUME IInv, InventoryStep, UNCHANGED bookings
  PROVE  LedgerStep
<1>1. CASE \E h \in HoldReq : HoldStep(h)
  <2>1. PICK h \in HoldReq : HoldStep(h)
    BY <1>1
  <2>2. CASE HoldCommit(h)
    BY <2>2, ReholdStep
  <2>3. CASE ~HoldCommit(h)
    BY <2>1, <2>3, NoLedgerStep DEF HoldStep, HoldBegin, HoldRefused, HoldRelease, HoldClaim,
       HoldInsufficient, HoldAbort, HoldEnqueue, HoldEnqueueFails, invVars
  <2> QED BY <2>2, <2>3
<1>2. CASE ExpiryStep
  <2>1. ASSUME NEW j \in jobs, JobRun(j)
        PROVE  LedgerStep
    BY <2>1, LapseStep DEF JobRun, HeldBy
  <2>2. CASE SweepCommit
    BY <2>2, LapseStep DEF SweepCommit, LockedBy
  <2>3. CASE UNCHANGED <<seat, trip>>
    BY <2>3, NoLedgerStep
  <2> QED BY <1>2, <2>1, <2>2, <2>3
      DEF ExpiryStep, SweepStep, SweepBegin, SweepVisit, SweepFails, JobLost
<1>3. CASE TripSwitch \/ Tick
  BY <1>3, NoLedgerStep DEF TripSwitch, Tick
<1> QED BY <1>1, <1>2, <1>3 DEF InventoryStep

\* Of the handlers' steps only the commit shows in the ledger.
LEMMA SettleLedgerStep ==
  ASSUME IInv, NEW c \in ConfirmReq, SettleStep(c) \/ SettleFault(c)
  PROVE  LedgerStep
<1>1. CASE ConfirmCommit(c)
  BY <1>1, SellStep
<1>2. CASE ~ConfirmCommit(c)
  BY <1>2, NoLedgerStep DEF SettleStep, SettleFault, SettlePrice, ConfirmLookup, ConfirmLock,
     ConfirmSeatsGone, Announce, ConfirmRecheck, ConfirmFails, Crash, LockForConfirm, RollBack,
     invVars
<1> QED BY <1>1, <1>2

LEMMA EveryLedgerStep ==
  ASSUME IInv, [Next]_vars
  PROVE  LedgerStep
<1>1. CASE (\E u \in User, r \in Ref : Initialize(u, r)) \/ UNCHANGED vars
             \/ \E r \in Ref : Capture(r) \/ WebhookAgain(r)
  BY <1>1, NoLedgerStep DEF Initialize, Capture, WebhookAgain, vars, invVars, settleVars
<1>2. CASE \E c \in ConfirmReq, r \in Ref : Webhook(c, r) \/ VerifyPoll(c, r)
  BY <1>2, NoLedgerStep DEF Webhook, VerifyPoll, Enter, invVars
<1>3. CASE InventoryStep /\ UNCHANGED settleVars
  BY <1>3, InventoryLedgerStep DEF settleVars
<1> QED BY <1>1, <1>2, <1>3, WithdrawStep, SettleLedgerStep DEF Next

\* Transactions, row locks, retries, expiry and crashes together implement the
\* atomic ledger: seats go from free to held to sold, all of a payment's at once.
THEOREM ImplementsTheLedger == Spec => ImplementsLedger
<1>1. Init => Ledger!LedgerInit
  BY DEF Init, InvInit, Row, Ledger!LedgerInit
<1>2. IInv /\ [Next]_vars => [Ledger!LedgerNext]_(Ledger!ledgerVars)
  BY EveryLedgerStep DEF LedgerStep
<1> QED BY <1>1, <1>2, SettlementInductive, PTL DEF Spec, ImplementsLedger, Ledger!LedgerSpec

-------------------------------------------------------------------------------
(* The composition: the handlers drive the inventory only in ways that      *)
(* SeatInventory foresees, so what is proved of it alone holds here.        *)

InvStep == [InvNext]_invVars

\* A session that rolls back without a lock has nothing to give back.
LEMMA RollBackStep ==
  ASSUME IInv, NEW c \in ConfirmReq, RollBack(c)
  PROVE  InvStep
<1>1. CASE LockedBy(c) = {}
  <2>1. rowLock' = rowLock
    BY <1>1 DEF RollBack, ReleaseLocks, LockedBy, IInv, TypeOK, InvTypeOK
  <2> QED BY <2>1 DEF RollBack, InvStep, invVars
<1>2. CASE LockedBy(c) # {}
  BY <1>2 DEF InvStep, InvNext, ConfirmStep
<1> QED BY <1>1, <1>2

\* A handler locks the rows of its payment when it has none, and marks no others.
LEMMA SettleInvStep ==
  ASSUME IInv, NEW c \in ConfirmReq, SettleStep(c) \/ SettleFault(c)
  PROVE  InvStep
<1>1. CASE ConfirmLock(c)
  <2>1. PICK r \in Ref : r = settle[c].ref /\ pay[r].state = "captured" /\ At(c, {"tx"})
    BY <1>1 DEF IInv, Accounts, HandlersPaid, ConfirmLock, At
  <2>2. PICK u \in User, S \in SUBSET Seat : u = pay[r].user /\ S = pay[r].seats /\ S # {}
    BY <2>1 DEF IInv, Accounts, PaymentsOwned, TypeOK, Payment
  <2>3. LockedBy(c) = {}
    BY <2>1 DEF IInv, Accounts, TxLocks, At
  <2>4. LockForConfirm(c, u, S)
    BY <1>1, <2>1, <2>2 DEF ConfirmLock
  <2>5. \E v \in User, T \in (SUBSET Seat) \ {{}} : LockForConfirm(c, v, T)
    <3>1. S \in (SUBSET Seat) \ {{}}
      BY <2>2
    <3> QED BY <2>2, <2>4, <3>1, Zenon
  <2> QED BY <2>3, <2>5 DEF ConfirmStep, InvStep, InvNext
<1>2. CASE ConfirmCommit(c)
  <2>1. PICK r \in Ref : r = settle[c].ref /\ pay[r].state = "captured" /\ At(c, {"locked"})
    BY <1>2 DEF IInv, Accounts, HandlersPaid, ConfirmCommit, At
  <2>2. LockedBy(c) # {}
    BY <2>1 DEF IInv, Accounts, PaymentsOwned, TxLocks
  <2> QED BY <1>2, <2>2 DEF ConfirmCommit, ConfirmStep, InvStep, InvNext
<1>3. CASE SettleFault(c)
  BY <1>3, RollBackStep DEF SettleFault, ConfirmFails, Crash
<1>4. CASE UNCHANGED invVars
  BY <1>4 DEF InvStep
<1> QED BY <1>1, <1>2, <1>3, <1>4 DEF SettleStep, SettlePrice, ConfirmLookup, ConfirmSeatsGone,
       Announce, ConfirmRecheck

LEMMA EveryInvStep ==
  ASSUME IInv, [Next]_vars
  PROVE  InvStep
<1>1. CASE InventoryStep
  BY <1>1 DEF InvStep, InvNext
<1>2. CASE DeleteTrip
  BY <1>2 DEF DeleteTrip, IInv, Accounts, SoldSeatsAreBooked, InvStep, InvNext
<1>3. CASE UNCHANGED invVars
  BY <1>3 DEF InvStep
<1>4. ASSUME \/ \E u \in User, r \in Ref : Initialize(u, r)
             \/ \E r \in Ref : Capture(r) \/ WebhookAgain(r)
             \/ \E c \in ConfirmReq, r \in Ref : Webhook(c, r) \/ VerifyPoll(c, r)
             \/ UNCHANGED vars
      PROVE  UNCHANGED invVars
  BY <1>4 DEF Initialize, Capture, WebhookAgain, Webhook, VerifyPoll, Enter, vars
<1> QED BY <1>1, <1>2, <1>3, <1>4, SettleInvStep DEF Next

\* Every behaviour of the composition is one of the inventory alone: a handler
\* confirms only inside a transaction, for some user and seats, and a trip is
\* deleted only while no seat is booked.
THEOREM SettlementKeepsInventory == Spec => InvSpec
<1>1. Init => InvInit
  BY DEF Init
<1>2. IInv /\ [Next]_vars => [InvNext]_invVars
  BY EveryInvStep DEF InvStep
<1> QED BY <1>1, <1>2, SettlementInductive, PTL DEF Spec, InvSpec

\* A seat that is paid for is never given back: not by webhooks and polls that
\* settle its payment again, crashes, late expiry jobs, or the trip's deletion.
THEOREM SoldForGood == Spec => BookedIsFinal
BY SettlementKeepsInventory, BookedForGood

\* Between payments, polls and crashes as well, no seat passes from one user's
\* hold straight into another's.
THEOREM HoldsStayApart == Spec => HoldNeverTransfers
BY SettlementKeepsInventory, NeverTransfers

\* What is booked is what was paid: every booking is of a captured payment, for
\* the seats and the passenger that payment was started with.
THEOREM BookedAsPaid == Spec => []BookingsPaid
<1>1. IInv => BookingsPaid
  BY DEF IInv, Accounts
<1> QED BY <1>1, SettlementInductive, PTL
===============================================================================
