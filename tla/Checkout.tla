------------------------------- MODULE Checkout -------------------------------
(***************************************************************************)
(* One passenger's checkout of seats on one trip: the hold, the payment,   *)
(* and the PaymentVerifier that asks the server how it went, while the     *)
(* webhook settles the same payment, holds lapse, other passengers hold    *)
(* and buy, and the operator closes or deletes the trip.                   *)
(*                                                                         *)
(* SeatInventory looks inside the transactions on the seats and            *)
(* BookingSettlement inside the webhook; here a transaction is a step, and *)
(* what happens between a handler's steps, and between the server's answer *)
(* and the page, is the subject.                                           *)
(***************************************************************************)
EXTENDS Naturals

CONSTANTS Seat,        \* the seats of the trip
          Call,        \* requests without a page the server has at once (bound)
          MaxPolls,    \* MAX_POLLS of the PaymentVerifier
          MaxRetries   \* times lib/api.ts sends a failed GET again

ASSUME CheckoutConstants == MaxPolls \in Nat \ {0} /\ MaxRetries \in Nat

VARIABLES
  trip,   \* "closed" is marked full or switched off by the operator
  seat,   \* the rows of the seats table, as this passenger's payment sees them
  pay,    \* this passenger's payment, with the seats in its metadata
  ask,    \* the verify request of the page: a step of the handler, or its answer
  call,   \* webhooks, verify requests the page gave up, and others' holds
  page    \* the passenger's browser

vars == <<trip, seat, pay, ask, call, page>>

Steps   == {"verify", "settle", "confirm"}
Answers == {"success", "failed", "pending"}

\* mine and theirs are held; sold is booked by another payment, booked by this one.
SeatState == {"available", "mine", "theirs", "sold", "booked"}

Pay  == [state : {"none", "started", "captured"}, seats : SUBSET Seat]
\* verdict is what the verifier shows, or showed when it was last open.
Page == [at : {"trip", "claiming", "checkout", "paystack", "verifier"},
         verdict : {"closed", "polling", "success", "failed", "gaveUp"},
         polls : 0..MaxPolls, retries : 0..MaxRetries]

Init ==
  /\ trip = "open"
  /\ seat = [s \in Seat |-> "available"]
  /\ pay = [state |-> "none", seats |-> {}]
  /\ ask = "idle" /\ call = [c \in Call |-> "idle"]
  /\ page = [at |-> "trip", verdict |-> "closed", polls |-> 0, retries |-> 0]

Exists   == trip # "deleted"
With(st) == {s \in Seat : seat[s] = st}
Booked   == With("booked") # {}

\* S goes to state st, the rest as it was.
Becomes(S, st) == seat' = [s \in Seat |-> IF s \in S THEN st ELSE seat[s]]

-------------------------------------------------------------------------------
(* The operator, the clock, and everybody else's holds and payments.        *)

\* Marked full, reopened, switched off or on.
OpenOrClose ==
  /\ Exists /\ trip' = IF trip = "open" THEN "closed" ELSE "open"
  /\ UNCHANGED <<seat, pay, ask, call, page>>

\* Seats go with their trip; a booking's foreign key forbids it.
DeleteTrip ==
  /\ Exists /\ ~Booked /\ With("sold") = {}
  /\ trip' = "deleted" /\ seat' = [s \in Seat |-> "available"]
  /\ UNCHANGED <<pay, ask, call, page>>

\* Another passenger's hold looks at the trip ...
OthersHold(c) ==
  /\ call[c] = "idle" /\ trip = "open"
  /\ call' = [call EXCEPT ![c] = "claim"]
  /\ UNCHANGED <<trip, seat, pay, ask, page>>

\* ... and claims what is free of it then, or nothing.
OthersClaim(c) ==
  /\ call[c] = "claim"
  /\ call' = [call EXCEPT ![c] = "idle"]
  /\ \E S \in SUBSET With("available") : (Exists \/ S = {}) /\ Becomes(S, "theirs")
  /\ UNCHANGED <<trip, pay, ask, page>>

\* The expiry job, be it one of an earlier hold, or the sweeper.
HoldLapses ==
  /\ \E s \in With("mine") \cup With("theirs") : Becomes({s}, "available")
  /\ UNCHANGED <<trip, pay, ask, call, page>>

\* Another payment is settled, this passenger's or someone's: it takes the seats it
\* paid for if held for its payer or free, however late and whether or not the
\* trip still sells.
OthersSettle ==
  /\ Exists
  /\ \E s \in Seat : seat[s] \in {"available", "mine", "theirs"} /\ Becomes({s}, "sold")
  /\ UNCHANGED <<trip, pay, ask, call, page>>

-------------------------------------------------------------------------------
(* The passenger up to the payment.                                         *)

\* Mutant of Hold: the trip is not looked at.
HoldAlways ==
  /\ page.at = "trip"
  /\ page' = [page EXCEPT !.at = "claiming"]
  /\ UNCHANGED <<trip, seat, pay, ask, call>>

\* bookingsService.hold checks the trip; refused, the page stays ...
Hold ==
  /\ page.at = "trip" /\ trip = "open"
  /\ page' = [page EXCEPT !.at = "claiming"]
  /\ UNCHANGED <<trip, seat, pay, ask, call>>

\* ... and then the inventory gives up what this passenger held and claims anew, or
\* neither.  The answer may be lost.
ClaimSeats ==
  /\ page.at = "claiming"
  /\ \/ /\ Exists
        /\ \E S \in (SUBSET (With("available") \cup With("mine"))) \ {{}} :
             seat' = [s \in Seat |-> IF s \in S THEN "mine"
                                     ELSE IF seat[s] = "mine" THEN "available" ELSE seat[s]]
        /\ \E to \in {"checkout", "trip"} : page' = [page EXCEPT !.at = to]
     \/ UNCHANGED seat /\ page' = [page EXCEPT !.at = "trip"]
  /\ UNCHANGED <<trip, pay, ask, call>>

\* The server charges for the seats it finds held.  Bound: one payment.
HandlePay ==
  /\ page.at = "checkout" /\ pay.state = "none" /\ Exists /\ With("mine") # {}
  /\ pay' = [state |-> "started", seats |-> With("mine")]
  /\ page' = [page EXCEPT !.at = "paystack"]
  /\ UNCHANGED <<trip, seat, ask, call>>

Capture ==
  /\ pay.state = "started" /\ pay' = [pay EXCEPT !.state = "captured"]
  /\ UNCHANGED <<trip, seat, ask, call, page>>

\* The hold is gone, the passenger goes back, or tries again after a verdict: new
\* holds may follow the payment.
BackToTrip ==
  /\ page.at \in {"checkout", "paystack", "verifier"} /\ page.verdict # "polling"
  /\ page' = [page EXCEPT !.at = "trip"]
  /\ UNCHANGED <<trip, seat, pay, ask, call>>

\* Paystack's redirect, or the same address opened again after a verdict.
Return ==
  /\ page.at \in {"paystack", "trip", "verifier"}
  /\ page.verdict # "polling" /\ pay.state # "none"
  /\ page' = [at |-> "verifier", verdict |-> "polling", polls |-> 0, retries |-> 0]
  /\ UNCHANGED <<trip, seat, pay, ask, call>>

-------------------------------------------------------------------------------
(* The handlers: each takes a request to its next step or to its answer.    *)

\* Mutant of VerifyPayment: a charge that went through is a success.
VerifyPaymentTrusting(next) ==
  /\ IF Booked \/ pay.state = "captured" THEN next = "success" ELSE next \in {"failed", "pending"}
  /\ UNCHANGED seat

\* verifyPayment: the booking, or else what Paystack knows of the charge.
VerifyPayment(next) ==
  /\ IF Booked THEN next = "success"
     ELSE IF pay.state = "captured" THEN next = "settle"
     ELSE next \in {"failed", "pending"}
  /\ UNCHANGED seat

\* settleBookingCharge: a payment without its trip is reported for a refund.
SettleBookingCharge(next) ==
  /\ next = IF Booked THEN "success" ELSE IF Exists THEN "confirm" ELSE "failed"
  /\ UNCHANGED seat

\* Mutant of Confirm: the seats that can still be had are booked.
ConfirmPartly(next) ==
  LET had == pay.seats \cap (With("available") \cup With("mine"))
  IN  /\ IF ~Booked /\ Exists THEN Becomes(had, "booked") ELSE UNCHANGED seat
      /\ next = IF Booked \/ had # {} THEN "success" ELSE "failed"

CanBook == Exists /\ pay.seats \subseteq With("available") \cup With("mine")

\* confirm: all the seats paid for, still held or free again, or none; none is
\* reported, which does not keep a later call from booking them after all.
Confirm(next) ==
  IF ~Booked /\ CanBook
    THEN Becomes(pay.seats, "booked") /\ next = "success"
    ELSE UNCHANGED seat /\ next = IF Booked THEN "success" ELSE "failed"

Serve(step, next) ==
  \/ step = "verify"  /\ VerifyPayment(next)
  \/ step = "settle"  /\ SettleBookingCharge(next)
  \/ step = "confirm" /\ Confirm(next)

-------------------------------------------------------------------------------
(* Requests without a page.                                                 *)

\* Paystack delivers charge.success, once, again and again, or never.
Webhook(c) ==
  /\ call[c] = "idle" /\ pay.state = "captured"
  /\ call' = [call EXCEPT ![c] = "settle"]
  /\ UNCHANGED <<trip, seat, pay, ask, page>>

CallGoesOn(c) ==
  /\ \E next \in Steps \cup Answers :
       /\ Serve(call[c], next)
       /\ call' = [call EXCEPT ![c] = IF next \in Answers THEN "idle" ELSE next]
  /\ UNCHANGED <<trip, pay, ask, page>>

\* A fault of the database, or the process ends: nothing of an open transaction stays.
CallFails(c) ==
  /\ call[c] # "idle" /\ call' = [call EXCEPT ![c] = "idle"]
  /\ UNCHANGED <<trip, seat, pay, ask, page>>

-------------------------------------------------------------------------------
(* The PaymentVerifier.                                                     *)

\* Mutant of PaymentVerifier: the count of polls starts over.
PaymentVerifierRestarts(answer) ==
  page' = IF answer \in {"success", "failed"}
            THEN [page EXCEPT !.verdict = answer, !.retries = 0]
            ELSE [page EXCEPT !.polls = (@ + 1) % MaxPolls, !.retries = 0]

\* Mutant of PaymentVerifier: one poll too many is counted.
PaymentVerifierLate(answer) ==
  page' = IF answer \in {"success", "failed"}
            THEN [page EXCEPT !.verdict = answer, !.retries = 0]
            ELSE [page EXCEPT !.polls = @ + 1, !.retries = 0,
                              !.verdict = IF page.polls + 1 > MaxPolls THEN "gaveUp" ELSE @]

\* What the page makes of an answer; what decides nothing counts, errors included.
PaymentVerifier(answer) ==
  page' = IF answer \in {"success", "failed"}
            THEN [page EXCEPT !.verdict = answer, !.retries = 0]
            ELSE [page EXCEPT !.polls = @ + 1, !.retries = 0,
                              !.verdict = IF page.polls + 1 >= MaxPolls THEN "gaveUp" ELSE @]

Polling == page.verdict = "polling"

PollAsks ==
  /\ Polling /\ ask = "idle" /\ ask' = "verify"
  /\ UNCHANGED <<trip, seat, pay, call, page>>

PollServed ==
  /\ \E next \in Steps \cup Answers : Serve(ask, next) /\ ask' = next
  /\ UNCHANGED <<trip, pay, call, page>>

PollHears ==
  /\ ask \in Answers /\ ask' = "idle" /\ PaymentVerifier(ask)
  /\ UNCHANGED <<trip, seat, pay, call>>

\* A 4xx, which Paystack's being out of reach gives as well (409), is taken as final.
PollRefused ==
  /\ ask = "verify" /\ ask' = "idle" /\ PaymentVerifier("failed")
  /\ UNCHANGED <<trip, seat, pay, call>>

\* A 5xx, a lost answer or a timeout: the client asks again, and when it may not any
\* more the page counts it.  The server may have stopped or go on without the page.
PollErrs ==
  /\ ask # "idle"
  /\ IF page.retries < MaxRetries
       THEN ask' = "verify" /\ page' = [page EXCEPT !.retries = @ + 1]
       ELSE ask' = "idle" /\ PaymentVerifier("error")
  /\ \/ UNCHANGED call
     \/ /\ ask \in Steps
        /\ \E c \in Call : call[c] = "idle" /\ call' = [call EXCEPT ![c] = ask]
  /\ UNCHANGED <<trip, seat, pay>>

-------------------------------------------------------------------------------
Passenger == Hold \/ ClaimSeats \/ HandlePay \/ Capture \/ BackToTrip \/ Return

Poll == PollAsks \/ PollServed \/ PollHears \/ PollRefused \/ PollErrs

Background(c) ==
  \/ OthersHold(c) \/ OthersClaim(c) \/ Webhook(c) \/ CallGoesOn(c) \/ CallFails(c)

Next ==
  \/ OpenOrClose \/ DeleteTrip \/ HoldLapses \/ OthersSettle
  \/ \E c \in Call : Background(c)
  \/ Passenger \/ Poll

Spec == Init /\ [][Next]_vars

\* The hold is answered or times out; the page's timer fires, and every request of
\* its polls is answered, fails or times out (15 s, lib/api.ts).
Fairness ==
  /\ WF_vars(ClaimSeats)
  /\ WF_vars(PollAsks) /\ WF_vars(PollServed \/ PollHears \/ PollRefused \/ PollErrs)

FairSpec == Spec /\ Fairness

-------------------------------------------------------------------------------
(* Properties.                                                             *)

\* Every variable keeps its type.
TypeOK ==
  /\ trip \in {"open", "closed", "deleted"} /\ seat \in [Seat -> SeatState] /\ pay \in Pay
  /\ ask \in Steps \cup Answers \cup {"idle"}
  /\ call \in [Call -> Steps \cup {"idle", "claim"}] /\ page \in Page

\* A booking is of all the seats that were paid for and no other, on a trip that
\* exists: neither a hold that lapsed and was sold in part, nor new holds of the
\* same passenger, nor webhook and poll confirming at once, nor the operator's
\* Delete leaves a payer with some of the seats.
BookedAsPaid == Booked => Exists /\ With("booked") = pay.seats

\* The verifier shows a confirmed payment only for a booking.
NeverFalseSuccess == page.verdict = "success" => Booked

\* The checkout as PaymentPoll: what is pending, lost, late or broken is counted up
\* to MAX_POLLS, the client's own retries are not, success is for a booking, and
\* neither lapses and other sales nor a deleted trip nor the new holds of a
\* passenger who tries again take the booking away.
Verdict == INSTANCE PaymentPoll WITH
             Max <- MaxPolls, MayReload <- FALSE,
             recorded <- Booked, tries <- page.polls, shows <- page.verdict

ImplementsPoll == Verdict!PollSpec

\* Once a trip stays marked full or off, sales come to an end: with the holds that
\* had passed the check before, and with the late settlements that still find
\* their seats free.
FullStopsSales ==
  <>[](trip # "open")
    => <>[][\A s \in Seat : seat'[s] # "available" => seat[s] # "available"]_seat

\* A hold is answered and the verifier stops, however often its requests fail: nobody
\* watches a spinner for ever.
PageDecides == (page.at = "claiming" \/ Polling) ~> (page.at # "claiming" /\ ~Polling)
===============================================================================
