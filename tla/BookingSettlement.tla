-------------------------- MODULE BookingSettlement --------------------------
(***************************************************************************)
(* The money path of seat booking, composed with the seat inventory:       *)
(* paymentsService.initialize, the Paystack webhook, the callback's verify *)
(* poll, settleBookingCharge and bookingsService.confirm.                  *)
(*                                                                         *)
(* Every await of these handlers is a step of its own, so webhook and      *)
(* verify of one payment, duplicate deliveries, holds, expiry jobs and the *)
(* sweeper interleave between any two of them.  A handler may crash at any *)
(* step, and any of its queries may fail.                                  *)
(*                                                                         *)
(* Paystack is external: it may capture a started payment, delivers the *)
(* webhook any number of times, at any time after the capture, and     *)
(* echoes the metadata and the amount of the initialize call unchanged.    *)
(* The price of a trip never changes, so amounts always match.             *)
(***************************************************************************)
EXTENDS SeatInventory

CONSTANTS Ref   \* payment references (generateRef: fresh for every payment)

VARIABLES pay,       \* Paystack's view of each reference, with our metadata
          bookings,  \* the bookings table, each with its booked_seats rows
          issues,    \* payment issues reported for manual reconciliation
          acked,     \* references whose webhook was answered 200
          announced, \* booking.confirmed events emitted for each reference
          settle     \* the handlers inside settleBookingCharge, one per session

settleVars == <<pay, bookings, issues, acked, announced, settle>>
vars == <<invVars, settleVars>>

Payment == [state : {"none", "started", "captured"},
            user : User \cup {NoOne}, seats : SUBSET Seat]

Booking == [ref : Ref, user : User, seats : SUBSET Seat]

Issue == [ref : Ref, code : {"SEATS_GONE", "OTHER"}]

Handler == [pc : {"idle", "looked", "priced", "tx", "locked", "conflict", "announce"},
            ref : Ref \cup {NoOne}, path : {"webhook", "verify"}]

IdleHandler == [pc |-> "idle", ref |-> NoOne, path |-> "verify"]

Init ==
  /\ InvInit
  /\ pay = [r \in Ref |-> [state |-> "none", user |-> NoOne, seats |-> {}]]
  /\ bookings = {}
  /\ issues = {}
  /\ acked = {}
  /\ announced = [r \in Ref |-> 0]
  /\ settle = [c \in ConfirmReq |-> IdleHandler]

-------------------------------------------------------------------------------
(* findByPaymentRef, reportPaymentIssue, and the end of a handler.         *)

Booked(r) == \E b \in bookings : b.ref = r

Report(r, code) == issues' = issues \cup {[ref |-> r, code |-> code]}

At(c, pcs) == settle[c].pc \in pcs

GoTo(c, pc) ==
  /\ settle' = [settle EXCEPT ![c].pc = pc]
  /\ UNCHANGED acked

\* The handler returns; on the webhook path that is the 200 to Paystack.
Return(c) ==
  /\ settle' = [settle EXCEPT ![c] = IdleHandler]
  /\ acked' = IF settle[c].path = "webhook" THEN acked \cup {settle[c].ref} ELSE acked

\* The handler throws: verify and webhook alike answer 500.
Throw(c) ==
  /\ settle' = [settle EXCEPT ![c] = IdleHandler]
  /\ UNCHANGED acked

-------------------------------------------------------------------------------
(* paymentsService.initialize, and what Paystack does with the payment.    *)

\* The seats paid for are those the user holds, unexpired, at this moment.
Initialize(u, r) ==
  LET held == {s \in HeldBy(u) : seat[s].heldUntil > now} IN
  /\ pay[r].state = "none"
  /\ held # {}
  /\ pay' = [pay EXCEPT ![r] = [state |-> "started", user |-> u, seats |-> held]]
  /\ UNCHANGED <<invVars, bookings, issues, acked, announced, settle>>

Capture(r) ==
  /\ pay[r].state = "started"
  /\ pay' = [pay EXCEPT ![r].state = "captured"]
  /\ UNCHANGED <<invVars, bookings, issues, acked, announced, settle>>

-------------------------------------------------------------------------------
(* handleWebhook and verifyPayment, up to the first look for a booking.     *)

Enter(c, r, path) ==
  /\ At(c, {"idle"})
  /\ ~Booked(r)
  /\ settle' = [settle EXCEPT ![c] = [pc |-> "looked", ref |-> r, path |-> path]]
  /\ UNCHANGED <<invVars, pay, bookings, issues, acked, announced>>

Webhook(c, r) == pay[r].state = "captured" /\ Enter(c, r, "webhook")

\* The webhook of a booked payment is acknowledged at once.
WebhookAgain(r) ==
  /\ pay[r].state = "captured" /\ Booked(r)
  /\ acked' = acked \cup {r}
  /\ UNCHANGED <<invVars, pay, bookings, issues, announced, settle>>

\* A poll that finds no booking and hears from Paystack that the charge
\* succeeded; its other outcomes are answers without effect.
VerifyPoll(c, r) == pay[r].state = "captured" /\ Enter(c, r, "verify")

-------------------------------------------------------------------------------
(* settleBookingCharge and bookingsService.confirm.                        *)

\* findTripPrice; an unknown trip is reported and not retried.
SettlePrice(c) ==
  /\ At(c, {"looked"})
  /\ IF trip = "gone" THEN Report(settle[c].ref, "OTHER") /\ Return(c)
                      ELSE GoTo(c, "priced") /\ UNCHANGED issues
  /\ UNCHANGED <<invVars, pay, bookings, announced>>

\* confirm: the idempotency check, then the price (NotFoundError is rethrown).
ConfirmLookup(c) ==
  /\ At(c, {"priced"})
  /\ \/ Booked(settle[c].ref) /\ Return(c) /\ UNCHANGED issues
     \/ /\ ~Booked(settle[c].ref) /\ trip = "gone"
        /\ Report(settle[c].ref, "OTHER") /\ Throw(c)
     \/ /\ ~Booked(settle[c].ref) /\ trip # "gone"
        /\ GoTo(c, "tx") /\ UNCHANGED issues
  /\ UNCHANGED <<invVars, pay, bookings, announced>>

\* The transaction: lock the seats, or find that some are gone ...
ConfirmLock(c) ==
  LET p == pay[settle[c].ref] IN
  /\ At(c, {"tx"})
  /\ LockForConfirm(c, p.user, p.seats)
  /\ GoTo(c, "locked")
  /\ UNCHANGED <<pay, bookings, issues, announced>>

ConfirmSeatsGone(c) ==
  LET p == pay[settle[c].ref] IN
  /\ At(c, {"tx"})
  /\ SeatsGone(p.user, p.seats)
  /\ GoTo(c, "conflict")
  /\ UNCHANGED <<invVars, pay, bookings, issues, announced>>

\* Mutant of ConfirmCommit: the booking is created without its passenger.
ConfirmCommitNoUser(c) ==
  LET r == settle[c].ref IN
  /\ At(c, {"locked"})
  /\ MarkBooked(c)
  /\ bookings' = bookings \cup {[ref |-> r, user |-> NoOne, seats |-> pay[r].seats]}
  /\ GoTo(c, "announce")
  /\ UNCHANGED <<pay, issues, announced>>

\* ... mark them booked, create the booking record, commit.
ConfirmCommit(c) ==
  LET r == settle[c].ref IN
  /\ At(c, {"locked"})
  /\ MarkBooked(c)
  /\ bookings' = bookings \cup {[ref |-> r, user |-> pay[r].user, seats |-> pay[r].seats]}
  /\ GoTo(c, "announce")
  /\ UNCHANGED <<pay, issues, announced>>

\* booking.confirmed, emitted by the handler that committed.
Announce(c) ==
  /\ At(c, {"announce"})
  /\ announced' = [announced EXCEPT ![settle[c].ref] = @ + 1]
  /\ Return(c)
  /\ UNCHANGED <<invVars, pay, bookings, issues>>

\* Mutants of ConfirmRecheck: the conflict is only logged ...
ConfirmRecheckSilent(c) ==
  /\ At(c, {"conflict"})
  /\ Return(c)
  /\ UNCHANGED <<invVars, pay, bookings, issues, announced>>

\* ... and the loser announces the winner's booking.
ConfirmRecheckAnnounces(c) ==
  /\ At(c, {"conflict"})
  /\ IF Booked(settle[c].ref) THEN GoTo(c, "announce") /\ UNCHANGED issues
                              ELSE Report(settle[c].ref, "SEATS_GONE") /\ Return(c)
  /\ UNCHANGED <<invVars, pay, bookings, announced>>

\* ConflictError: the loser of a race returns the winner's booking; otherwise
\* the money is captured and the seats are gone.
ConfirmRecheck(c) ==
  /\ At(c, {"conflict"})
  /\ IF Booked(settle[c].ref) THEN UNCHANGED issues
                              ELSE Report(settle[c].ref, "SEATS_GONE")
  /\ Return(c)
  /\ UNCHANGED <<invVars, pay, bookings, announced>>

\* Mutant of ConfirmFails: the seats were marked outside the transaction.
ConfirmFailsHalfway(c) ==
  /\ At(c, {"priced", "tx", "locked", "conflict"})
  /\ MarkBooked(c)
  /\ Report(settle[c].ref, "OTHER")
  /\ Throw(c)
  /\ UNCHANGED <<pay, bookings, announced>>

\* Any error of confirm but ConflictError is reported and rethrown.
ConfirmFails(c) ==
  /\ At(c, {"priced", "tx", "locked", "conflict"})
  /\ RollBack(c)
  /\ Report(settle[c].ref, "OTHER")
  /\ Throw(c)
  /\ UNCHANGED <<pay, bookings, announced>>

\* The process dies: nothing is reported, nobody is answered.
Crash(c) ==
  /\ ~At(c, {"idle"})
  /\ RollBack(c)
  /\ settle' = [settle EXCEPT ![c] = IdleHandler]
  /\ UNCHANGED <<pay, bookings, issues, acked, announced>>

-------------------------------------------------------------------------------
\* Bookings restrict the deletion of their trip (foreign key without cascade).
DeleteTrip == bookings = {} /\ TripDelete /\ UNCHANGED settleVars

SettleStep(c) ==
  \/ SettlePrice(c) \/ ConfirmLookup(c) \/ ConfirmLock(c)
  \/ ConfirmSeatsGone(c) \/ ConfirmCommit(c) \/ Announce(c) \/ ConfirmRecheck(c)

SettleFault(c) == ConfirmFails(c) \/ Crash(c)

Next ==
  \/ InventoryStep /\ UNCHANGED settleVars
  \/ DeleteTrip
  \/ \E u \in User, r \in Ref : Initialize(u, r)
  \/ \E r \in Ref : Capture(r) \/ WebhookAgain(r)
  \/ \E c \in ConfirmReq, r \in Ref : Webhook(c, r) \/ VerifyPoll(c, r)
  \/ \E c \in ConfirmReq : SettleStep(c) \/ SettleFault(c)

Spec == Init /\ [][Next]_vars

\* Paystack redelivers until it has a 200; a handler that is not hit by a fault
\* runs on; a confirm statement is granted the row locks it queues for; faults
\* stop in the end (what looks like a fault is then a handler's own return).
Fairness ==
  /\ \A r \in Ref : SF_vars(r \notin acked /\ \E c \in ConfirmReq : Webhook(c, r))
  /\ \A c \in ConfirmReq :
       /\ WF_vars(~At(c, {"tx"}) /\ SettleStep(c))
       /\ SF_vars(At(c, {"tx"}) /\ SettleStep(c))
  /\ InvFairness
  /\ <>[][\A c \in ConfirmReq : SettleFault(c) => SettleStep(c)]_vars

FairSpec == Spec /\ Fairness

-------------------------------------------------------------------------------
(* Properties.                                                             *)

\* Every variable keeps its type.
TypeOK ==
  /\ InvTypeOK
  /\ pay \in [Ref -> Payment]
  /\ bookings \subseteq Booking
  /\ issues \subseteq Issue
  /\ acked \subseteq Ref
  /\ announced \in [Ref -> Nat]
  /\ settle \in [ConfirmReq -> Handler]

\* No seat is in two bookings and no payment makes two bookings, although the
\* model has no unique constraints: the row locks of lockAndMarkBooked suffice,
\* the constraints on booked_seats.seatId and bookings.paymentRef never fire.
NoDoubleSale ==
  \A a, b \in bookings : a # b => a.ref # b.ref /\ a.seats \cap b.seats = {}

\* The seats table (inventory) and the bookings tables agree on what is sold.
SoldSeatsAreBooked ==
  \A s \in Seat : seat[s].status = "booked" <=> \E b \in bookings : s \in b.seats

\* A webhook that was answered 200 will not come again: by then its payment has
\* a booking or a report for manual reconciliation.
SettledOrReported ==
  \A r \in Ref : r \in acked => Booked(r) \/ \E i \in issues : i.ref = r

\* However often webhook and verify settle a payment, booking.confirmed (which
\* sends the ticket mail) is emitted at most once, and only for a booking.
AnnouncedOnce ==
  \A r \in Ref : announced[r] <= 1 /\ (announced[r] = 1 => Booked(r))

\* The transactions, locks and retries implement the atomic ledger.
Ledger == INSTANCE SeatLedger WITH
            holder <- [s \in Seat |-> seat[s].heldBy],
            sales <- bookings,
            withdrawn <- trip = "gone"

ImplementsLedger == Ledger!LedgerSpec

\* A captured payment is settled or reported in the end, whatever crashed.
PaymentSettles ==
  \A r \in Ref : pay[r].state = "captured" ~> Booked(r) \/ \E i \in issues : i.ref = r

-------------------------------------------------------------------------------
(* Claims of the repository's comments that the code does not meet.        *)

\* A SEATS_GONE conflict is "non-retryable" (payments.service.ts): a payment
\* reported for a refund never turns into a booking as well.
NoRefundAndTicket ==
  \A r \in Ref : [ref |-> r, code |-> "SEATS_GONE"] \in issues => ~Booked(r)
===============================================================================
