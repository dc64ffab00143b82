----------------------------- MODULE CheckoutProofs -----------------------------
(***************************************************************************)
(* Proofs about Checkout, for any trip, any number of requests under way   *)
(* and any number of polls.  The argument is that seats become this        *)
(* payment's in one step only, all of them and after the capture, and that *)
(* no step takes a booked seat away; what a handler has seen of the        *)
(* payment before therefore still holds when it answers, and the answer    *)
(* still holds when the page hears it, however late.                       *)
(***************************************************************************)
EXTENDS Checkout, TLAPS

\* The seats a booking has are the payment's, which was captured.
Sold == Booked => /\ Exists /\ With("booked") = pay.seats
                  /\ pay.state = "captured"

\* A deleted trip has no seats.
Deleted == ~Exists => \A s \in Seat : seat[s] = "available"

\* Only a started payment has seats, and it has some.
Charged == pay.state # "none" => pay.seats # {}

\* A handler past the look-up has seen the payment captured, and an answer of
\* success told of a booking.
Seen ==
  /\ \A c \in Call : call[c] \in {"settle", "confirm"} => pay.state = "captured"
  /\ ask \in {"settle", "confirm"} => pay.state = "captured"
  /\ ask = "success" => Booked

\* Only a page that polls asks, it has been to the payment, and it has polls left.
Asking ==
  /\ ask # "idle" => Polling
  /\ Polling => pay.state # "none" /\ page.polls < MaxPolls

IInv == TypeOK /\ Sold /\ Deleted /\ Charged /\ Seen /\ Asking /\ NeverFalseSuccess

LEMMA PollsAre == MaxPolls \in Nat /\ MaxPolls > 0 /\ MaxRetries \in Nat
BY CheckoutConstants

LEMMA InitInv == Init => IInv
<1> SUFFICES ASSUME Init PROVE IInv
  OBVIOUS
<1>1. With("booked") = {} /\ ~Booked
  BY DEF Init, With, Booked
<1>2. TypeOK
  BY PollsAre DEF Init, TypeOK, SeatState, Pay, Page, Steps, Answers
<1> QED BY <1>1, <1>2 DEF Init, IInv, Sold, Deleted, Charged, Seen, Asking, Polling,
       NeverFalseSuccess, Exists

-------------------------------------------------------------------------------
(* The seats.                                                               *)

\* Seats change hands while no booking is made or undone.
BookingStays == With("booked")' = With("booked")

\* What keeps the invariant about the seats while the booking and the payment stay.
LEMMA SeatsKeep ==
  ASSUME IInv, BookingStays, seat' \in [Seat -> SeatState],
         trip' \in {"open", "closed", "deleted"},
         trip' = "deleted" => \A s \in Seat : seat'[s] = "available",
         UNCHANGED <<pay, ask, call, page>>
  PROVE  IInv'
<1>1. Booked' = Booked
  BY DEF Booked, BookingStays
<1>2. Booked => Exists'
  BY DEF BookingStays, Booked, With, Exists
<1> QED BY <1>1, <1>2 DEF IInv, TypeOK, Sold, Deleted, Charged, Seen, Asking, Polling,
       NeverFalseSuccess, BookingStays, Exists

\* Taking S, none of it booked, to another state than booked leaves the booking.
LEMMA BecomesIs ==
  ASSUME IInv, NEW S \in SUBSET Seat, NEW st \in SeatState \ {"booked"}, Becomes(S, st),
         \A s \in S : seat[s] # "booked"
  PROVE  BookingStays /\ seat' \in [Seat -> SeatState]
<1>1. seat \in [Seat -> SeatState]
  BY DEF IInv, TypeOK
<1>2. seat' = [s \in Seat |-> IF s \in S THEN st ELSE seat[s]]
  BY DEF Becomes
<1>3. \A s \in Seat : seat'[s] = "booked" <=> seat[s] = "booked"
  BY <1>2
<1> QED BY <1>1, <1>2, <1>3 DEF BookingStays, With

LEMMA SeatsMoveKeep ==
  ASSUME IInv, OpenOrClose \/ DeleteTrip \/ HoldLapses \/ OthersSettle
  PROVE  IInv'
<1>1. CASE OpenOrClose
  <2>1. BookingStays /\ Exists
    BY <1>1 DEF OpenOrClose, BookingStays, With
  <2>2. trip' \in {"open", "closed"} /\ seat' \in [Seat -> SeatState]
    BY <1>1 DEF OpenOrClose, IInv, TypeOK
  <2> QED BY <1>1, <2>1, <2>2, SeatsKeep DEF OpenOrClose
<1>2. CASE DeleteTrip
  <2>1. seat' = [s \in Seat |-> "available"] /\ trip' = "deleted" /\ With("booked") = {}
    BY <1>2 DEF DeleteTrip, Booked
  <2>2. BookingStays
    BY <2>1 DEF BookingStays, With
  <2>3. seat' \in [Seat -> SeatState] /\ \A s \in Seat : seat'[s] = "available"
    BY <2>1 DEF SeatState
  <2> QED BY <1>2, <2>1, <2>2, <2>3, SeatsKeep DEF DeleteTrip
<1>3. CASE HoldLapses
  <2>1. PICK s \in With("mine") \cup With("theirs") : Becomes({s}, "available")
    BY <1>3 DEF HoldLapses
  <2>2. s \in Seat /\ seat[s] # "booked" /\ seat[s] # "available"
    BY <2>1 DEF With
  <2>3. BookingStays /\ seat' \in [Seat -> SeatState]
    BY <2>1, <2>2, BecomesIs DEF SeatState
  <2>4. Exists
    BY <2>2 DEF IInv, Deleted
  <2> QED BY <1>3, <2>3, <2>4, SeatsKeep DEF HoldLapses, Exists, IInv, TypeOK
<1>4. CASE OthersSettle
  <2>1. PICK s \in Seat : seat[s] \in {"available", "mine", "theirs"} /\ Becomes({s}, "sold")
    BY <1>4 DEF OthersSettle
  <2>2. BookingStays /\ seat' \in [Seat -> SeatState]
    BY <2>1, BecomesIs DEF SeatState
  <2> QED BY <1>4, <2>2, SeatsKeep DEF OthersSettle, Exists, IInv, TypeOK
<1> QED BY <1>1, <1>2, <1>3, <1>4

-------------------------------------------------------------------------------
(* The handlers.                                                            *)

\* A handler's step keeps a booking, books what was paid for or nothing, and goes
\* on only to what it may know.
Served(next) ==
  /\ seat' \in [Seat -> SeatState]
  /\ Booked => BookingStays
  /\ BookingStays \/ (~Booked /\ Exists /\ pay.state = "captured" /\ With("booked")' = pay.seats)
  /\ next = "success" => Booked'
  /\ next \in {"settle", "confirm"} => pay.state = "captured"
  /\ ~Exists => seat' = seat

LEMMA ServeIs ==
  ASSUME IInv, NEW step, NEW next, Serve(step, next),
         step \in {"settle", "confirm"} => pay.state = "captured"
  PROVE  Served(next)
<1>1. seat \in [Seat -> SeatState] /\ pay.seats \subseteq Seat
  BY DEF IInv, TypeOK, Pay
<1>2. UNCHANGED seat => BookingStays /\ Booked' = Booked
  BY DEF BookingStays, With, Booked
<1>3. CASE step = "verify" /\ VerifyPayment(next)
  BY <1>1, <1>2, <1>3 DEF VerifyPayment, Served
<1>4. CASE step = "settle" /\ SettleBookingCharge(next)
  BY <1>1, <1>2, <1>4 DEF SettleBookingCharge, Served
<1>5. CASE step = "confirm" /\ Confirm(next)
  <2>1. CASE ~Booked /\ CanBook
    <3>1. Becomes(pay.seats, "booked") /\ next = "success" /\ Exists
      BY <1>5, <2>1 DEF Confirm, CanBook
    <3>2. seat' = [s \in Seat |-> IF s \in pay.seats THEN "booked" ELSE seat[s]]
      BY <3>1 DEF Becomes
    <3>3. \A s \in Seat : seat[s] # "booked"
      BY <2>1 DEF Booked, With
    <3>4. With("booked")' = pay.seats
      BY <1>1, <3>2, <3>3 DEF With
    <3>5. pay.state = "captured" /\ pay.seats # {}
      BY <1>5 DEF IInv, Charged
    <3>6. seat' \in [Seat -> SeatState]
      BY <1>1, <3>2 DEF SeatState
    <3> QED BY <2>1, <3>1, <3>4, <3>5, <3>6 DEF Served, Booked
  <2>2. CASE ~(~Booked /\ CanBook)
    BY <1>1, <1>2, <1>5, <2>2 DEF Confirm, Served
  <2> QED BY <2>1, <2>2
<1> QED BY <1>3, <1>4, <1>5 DEF Serve

\* What a handler's step keeps of the seats, the booking and the page.
LEMMA ServedKeeps ==
  ASSUME IInv, NEW next, Served(next), UNCHANGED <<trip, pay, page>>
  PROVE  /\ Sold' /\ Deleted' /\ Charged' /\ NeverFalseSuccess'
         /\ Booked => Booked'
<1>1. Booked => Booked' /\ With("booked")' = With("booked")
  BY DEF Served, BookingStays, Booked
<1>2. Sold'
  <2>1. CASE BookingStays
    BY <2>1 DEF BookingStays, IInv, Sold, Booked, Exists
  <2>2. CASE ~BookingStays
    BY <2>2 DEF Served, IInv, Sold, Booked, Exists
  <2> QED BY <2>1, <2>2
<1>3. Deleted'
  BY DEF Served, IInv, Deleted, Exists
<1>4. Charged' /\ NeverFalseSuccess'
  BY <1>1 DEF IInv, Charged, NeverFalseSuccess
<1> QED BY <1>1, <1>2, <1>3, <1>4

-------------------------------------------------------------------------------
(* Requests without a page.                                                 *)

\* A request that leaves the seats alone and goes to a step it may go to.
LEMMA CallKeeps ==
  ASSUME IInv, NEW c \in Call, NEW to \in Steps \cup {"idle", "claim"},
         call' = [call EXCEPT ![c] = to],
         to \in {"settle", "confirm"} => pay.state = "captured",
         UNCHANGED <<trip, seat, pay, ask, page>>
  PROVE  IInv'
<1>1. call' \in [Call -> Steps \cup {"idle", "claim"}]
  BY DEF IInv, TypeOK
<1>2. \A d \in Call : call'[d] \in {"settle", "confirm"} => pay.state = "captured"
  BY DEF IInv, TypeOK, Seen
<1>3. Booked' = Booked /\ With("booked")' = With("booked")
  BY DEF Booked, With
<1> QED BY <1>1, <1>2, <1>3 DEF IInv, TypeOK, Sold, Deleted, Charged, Seen, Asking, Polling,
       NeverFalseSuccess, Exists

LEMMA BackgroundKeeps ==
  ASSUME IInv, NEW c \in Call, Background(c)
  PROVE  IInv'
<1>1. CASE OthersHold(c)
  BY <1>1, CallKeeps DEF OthersHold
<1>2. CASE OthersClaim(c)
  <2>1. PICK S \in SUBSET With("available") : (Exists \/ S = {}) /\ Becomes(S, "theirs")
    BY <1>2 DEF OthersClaim
  <2>2. S \in SUBSET Seat /\ \A s \in S : seat[s] # "booked"
    BY <2>1 DEF With
  <2>3. BookingStays /\ seat' \in [Seat -> SeatState]
    BY <2>1, <2>2, BecomesIs DEF SeatState
  <2>4. ~Exists => \A s \in Seat : seat'[s] = "available"
    BY <2>1 DEF Becomes, IInv, Deleted
  <2>5. Booked' = Booked
    BY <2>3 DEF Booked, BookingStays
  <2>6. /\ call' \in [Call -> Steps \cup {"idle", "claim"}]
        /\ \A d \in Call : call'[d] \in {"settle", "confirm"} => pay.state = "captured"
    BY <1>2 DEF OthersClaim, IInv, TypeOK, Seen
  <2> QED BY <1>2, <2>3, <2>4, <2>5, <2>6
          DEF OthersClaim, IInv, TypeOK, Sold, Deleted, Charged, Seen, Asking, Polling,
              NeverFalseSuccess, BookingStays, Exists
<1>3. CASE Webhook(c)
  BY <1>3, CallKeeps DEF Webhook, Steps
<1>4. CASE CallGoesOn(c)
  <2>1. PICK next \in Steps \cup Answers :
          /\ Serve(call[c], next)
          /\ call' = [call EXCEPT ![c] = IF next \in Answers THEN "idle" ELSE next]
    BY <1>4 DEF CallGoesOn
  <2>2. Served(next)
    BY <2>1, ServeIs DEF IInv, Seen
  <2>3. Sold' /\ Deleted' /\ Charged' /\ NeverFalseSuccess' /\ (Booked => Booked')
    BY <1>4, <2>2, ServedKeeps DEF CallGoesOn
  <2>4. /\ call' \in [Call -> Steps \cup {"idle", "claim"}]
        /\ \A d \in Call : call'[d] \in {"settle", "confirm"} => pay.state = "captured"
    <3>1. \/ next \in Answers /\ call' = [call EXCEPT ![c] = "idle"]
          \/ next \in Steps /\ call' = [call EXCEPT ![c] = next]
      BY <2>1 DEF Steps, Answers
    <3> QED BY <2>2, <3>1 DEF Served, IInv, TypeOK, Seen
  <2>5. TypeOK'
    BY <1>4, <2>2, <2>4 DEF CallGoesOn, Served, IInv, TypeOK
  <2> QED BY <1>4, <2>3, <2>4, <2>5 DEF CallGoesOn, IInv, Seen, Asking, Polling
<1>5. CASE CallFails(c)
  BY <1>5, CallKeeps DEF CallFails
<1> QED BY <1>1, <1>2, <1>3, <1>4, <1>5 DEF Background

-------------------------------------------------------------------------------
(* The passenger and the verifier.                                          *)

\* A step of the browser that does not touch seats, requests or the payment.
LEMMA PageKeeps ==
  ASSUME IInv, page' \in Page, page'.verdict = "success" => page.verdict = "success",
         ask # "idle" => page'.verdict = "polling",
         page'.verdict = "polling" => pay.state # "none" /\ page'.polls < MaxPolls,
         UNCHANGED <<trip, seat, pay, ask, call>>
  PROVE  IInv'
<1>1. Booked' = Booked /\ With("booked")' = With("booked")
  BY DEF Booked, With
<1> QED BY <1>1 DEF IInv, TypeOK, Sold, Deleted, Charged, Seen, Asking, Polling,
       NeverFalseSuccess, Exists

LEMMA MovesKeep ==
  ASSUME IInv, NEW to \in {"trip", "claiming", "checkout", "paystack", "verifier"},
         page' = [page EXCEPT !.at = to]
  PROVE  page' \in Page /\ page'.verdict = page.verdict /\ page'.polls = page.polls
BY DEF IInv, TypeOK, Page

LEMMA PassengerKeeps ==
  ASSUME IInv, Passenger
  PROVE  IInv'
<1>1. CASE Hold
  BY <1>1, MovesKeep, PageKeeps DEF Hold, IInv, Asking, Polling
<1>2. CASE ClaimSeats
  <2>1. page' \in Page /\ page'.verdict = page.verdict /\ page'.polls = page.polls
    BY <1>2, MovesKeep DEF ClaimSeats
  <2>2. \/ UNCHANGED seat
        \/ Exists /\ \E S \in (SUBSET (With("available") \cup With("mine"))) \ {{}} :
             seat' = [s \in Seat |-> IF s \in S THEN "mine"
                                     ELSE IF seat[s] = "mine" THEN "available" ELSE seat[s]]
    BY <1>2 DEF ClaimSeats
  <2>3. seat \in [Seat -> SeatState]
    BY DEF IInv, TypeOK
  <2>4. seat' \in [Seat -> SeatState] /\ BookingStays /\ (~Exists => seat' = seat)
    <3>1. CASE UNCHANGED seat
      BY <2>3, <3>1 DEF BookingStays, With
    <3>2. ASSUME Exists, NEW S \in SUBSET (With("available") \cup With("mine")),
                 seat' = [s \in Seat |-> IF s \in S THEN "mine"
                                         ELSE IF seat[s] = "mine" THEN "available" ELSE seat[s]]
          PROVE  seat' \in [Seat -> SeatState] /\ BookingStays
      <4>1. \A s \in S : seat[s] # "booked"
        BY <3>2 DEF With
      <4>2. \A s \in Seat : seat'[s] = "booked" <=> seat[s] = "booked"
        BY <3>2, <4>1
      <4>3. seat' \in [Seat -> SeatState]
        BY <2>3, <3>2 DEF SeatState
      <4> QED BY <4>2, <4>3 DEF BookingStays, With
    <3> QED BY <2>2, <3>1, <3>2
  <2>5. Booked' = Booked
    BY <2>4 DEF Booked, BookingStays
  <2> QED BY <1>2, <2>1, <2>4, <2>5
          DEF ClaimSeats, IInv, TypeOK, Sold, Deleted, Charged, Seen, Asking, Polling,
              NeverFalseSuccess, BookingStays, Exists
<1>3. CASE HandlePay
  <2>1. page' \in Page /\ page'.verdict = page.verdict /\ page'.polls = page.polls
    BY <1>3, MovesKeep DEF HandlePay
  <2>2. pay' \in Pay /\ pay'.state = "started" /\ pay'.seats # {}
    BY <1>3 DEF HandlePay, Pay, With
  <2>3. ~Booked /\ ~Booked' /\ ~Polling /\ page.verdict # "success"
    BY <1>3 DEF HandlePay, IInv, Sold, Asking, NeverFalseSuccess, Booked, With
  <2>4. /\ ask \notin {"settle", "confirm", "success"} /\ ask = "idle"
        /\ \A c \in Call : call[c] \notin {"settle", "confirm"}
    BY <1>3, <2>3 DEF HandlePay, IInv, Seen, Asking
  <2> QED BY <1>3, <2>1, <2>2, <2>3, <2>4
          DEF HandlePay, IInv, TypeOK, Sold, Deleted, Charged, Seen, Asking, Polling,
              NeverFalseSuccess, Exists
<1>4. CASE Capture
  <2>1. pay' \in Pay /\ pay'.state = "captured" /\ pay'.seats = pay.seats /\ pay.seats # {}
    BY <1>4 DEF Capture, IInv, TypeOK, Charged, Pay
  <2>2. Booked' = Booked /\ With("booked")' = With("booked")
    BY <1>4 DEF Capture, Booked, With
  <2> QED BY <1>4, <2>1, <2>2
          DEF Capture, IInv, TypeOK, Sold, Deleted, Charged, Seen, Asking, Polling,
              NeverFalseSuccess, Exists
<1>5. CASE BackToTrip
  BY <1>5, MovesKeep, PageKeeps DEF BackToTrip, IInv, Asking, Polling
<1>6. CASE Return
  <2>1. page' \in Page
    BY <1>6, PollsAre DEF Return, Page
  <2>2. ask = "idle" /\ page'.verdict = "polling" /\ page'.polls = 0 /\ pay.state # "none"
    BY <1>6 DEF Return, IInv, Asking, Polling
  <2> QED BY <1>6, <2>1, <2>2, PollsAre, PageKeeps DEF Return
<1> QED BY <1>1, <1>2, <1>3, <1>4, <1>5, <1>6 DEF Passenger

\* What the verifier makes of an answer: a verdict, or one poll more and, at the last
\* one, an end of the polling.
LEMMA VerifierIs ==
  ASSUME IInv, Polling, NEW answer \in Answers \cup {"error"}, PaymentVerifier(answer)
  PROVE  /\ page' \in Page /\ (page'.verdict = "success" <=> answer = "success")
         /\ page'.verdict = "polling" => page'.polls < MaxPolls
         /\ \/ answer \in {"success", "failed"} /\ page'.verdict = answer /\ page'.polls = page.polls
            \/ /\ answer \notin {"success", "failed"} /\ page'.polls = page.polls + 1
               /\ page'.verdict = IF page.polls + 1 = MaxPolls THEN "gaveUp" ELSE "polling"
<1>1. page \in Page /\ page.polls \in 0..MaxPolls /\ page.polls < MaxPolls /\ page.verdict = "polling"
  BY DEF IInv, TypeOK, Page, Asking, Polling
<1>4. 0 \in 0..MaxRetries
  BY PollsAre
<1>2. CASE answer \in {"success", "failed"}
  <2>1. page' = [page EXCEPT !.verdict = answer, !.retries = 0]
    BY <1>2 DEF PaymentVerifier
  <2>2. page' \in Page /\ page'.verdict = answer /\ page'.polls = page.polls
    BY <1>1, <1>4, <1>2, <2>1, Zenon DEF Page
  <2> QED BY <1>2, <2>2
<1>3. CASE answer \notin {"success", "failed"}
  <2>1. PICK n \in 0..MaxPolls : n = page.polls + 1
    BY <1>1, PollsAre
  <2>2. PICK v \in {"polling", "gaveUp"} : v = IF n = MaxPolls THEN "gaveUp" ELSE "polling"
    OBVIOUS
  <2>3. page' = [page EXCEPT !.polls = n, !.retries = 0, !.verdict = v]
    <3>1. page.polls + 1 >= MaxPolls <=> n = MaxPolls
      BY <1>1, <2>1, PollsAre
    <3>2. page' = [page EXCEPT !.polls = page.polls + 1, !.retries = 0,
                     !.verdict = IF page.polls + 1 >= MaxPolls THEN "gaveUp" ELSE page.verdict]
      BY <1>3 DEF PaymentVerifier
    <3> QED BY <1>1, <2>1, <2>2, <3>1, <3>2
  <2>4. page' \in Page /\ page'.polls = n /\ page'.verdict = v
    BY <1>1, <1>4, <2>3, Zenon DEF Page
  <2>5. n # MaxPolls => n < MaxPolls
    BY PollsAre
  <2> QED BY <1>3, <2>1, <2>2, <2>4, <2>5 DEF Answers
<1> QED BY <1>2, <1>3

\* The page takes up an answer, of a booking if it is success.
LEMMA HearKeeps ==
  ASSUME IInv, Polling, NEW answer \in Answers \cup {"error"}, PaymentVerifier(answer),
         answer = "success" => Booked, ask' = "idle",
         call' \in [Call -> Steps \cup {"idle", "claim"}],
         \A c \in Call : call'[c] \in {"settle", "confirm"} => pay.state = "captured",
         UNCHANGED <<trip, seat, pay>>
  PROVE  IInv'
<1>1. /\ page' \in Page /\ (page'.verdict = "success" => answer = "success")
      /\ page'.verdict = "polling" => page'.polls < MaxPolls
  BY VerifierIs
<1>2. Booked' = Booked /\ With("booked")' = With("booked")
  BY DEF Booked, With
<1> QED BY <1>1, <1>2 DEF IInv, TypeOK, Sold, Deleted, Charged, Seen, Asking, Polling,
       NeverFalseSuccess, Exists

\* The request a page gave up goes on without it, or it does not.
LEMMA HandedOver ==
  ASSUME IInv, PollErrs
  PROVE  /\ call' \in [Call -> Steps \cup {"idle", "claim"}]
         /\ \A c \in Call : call'[c] \in {"settle", "confirm"} => pay.state = "captured"
<1>1. CASE UNCHANGED call
  BY <1>1 DEF IInv, TypeOK, Seen
<1>2. ASSUME ask \in Steps, NEW c \in Call, call' = [call EXCEPT ![c] = ask]
      PROVE  /\ call' \in [Call -> Steps \cup {"idle", "claim"}]
             /\ \A d \in Call : call'[d] \in {"settle", "confirm"} => pay.state = "captured"
  BY <1>2 DEF IInv, TypeOK, Seen
<1> QED BY <1>1, <1>2 DEF PollErrs

LEMMA PollKeeps ==
  ASSUME IInv, Poll
  PROVE  IInv'
<1>1. CASE PollAsks
  <2>1. Booked' = Booked /\ With("booked")' = With("booked")
    BY <1>1 DEF PollAsks, Booked, With
  <2> QED BY <1>1, <2>1 DEF PollAsks, IInv, TypeOK, Steps, Sold, Deleted, Charged, Seen, Asking,
         Polling, NeverFalseSuccess, Exists
<1>2. CASE PollServed
  <2>1. PICK next \in Steps \cup Answers : Serve(ask, next) /\ ask' = next
    BY <1>2 DEF PollServed
  <2>2. Served(next) /\ Polling
    BY <2>1, ServeIs DEF IInv, Seen, Asking, Serve
  <2>3. Sold' /\ Deleted' /\ Charged' /\ NeverFalseSuccess' /\ (Booked => Booked')
    BY <1>2, <2>2, ServedKeeps DEF PollServed
  <2>4. TypeOK'
    BY <1>2, <2>1, <2>2 DEF PollServed, Served, IInv, TypeOK
  <2> QED BY <1>2, <2>1, <2>2, <2>3, <2>4 DEF PollServed, Served, IInv, Seen, Asking, Polling
<1>3. CASE PollHears
  BY <1>3, HearKeeps DEF PollHears, IInv, TypeOK, Seen, Asking, Answers
<1>4. CASE PollRefused
  BY <1>4, HearKeeps DEF PollRefused, IInv, TypeOK, Seen, Asking, Answers
<1>5. CASE PollErrs
  <2>1. Polling
    BY <1>5 DEF PollErrs, IInv, Asking
  <2>2. CASE page.retries < MaxRetries
    <3>1. ask' = "verify" /\ page' = [page EXCEPT !.retries = page.retries + 1]
      BY <1>5, <2>2 DEF PollErrs
    <3>2. PICK n \in 0..MaxRetries : n = page.retries + 1
      BY <2>2, PollsAre DEF IInv, TypeOK, Page
    <3>3. page' \in Page /\ page'.verdict = page.verdict /\ page'.polls = page.polls
      BY <3>1, <3>2 DEF IInv, TypeOK, Page
    <3>4. Booked' = Booked /\ With("booked")' = With("booked")
      BY <1>5 DEF PollErrs, Booked, With
    <3>5. UNCHANGED <<trip, seat, pay>>
      BY <1>5 DEF PollErrs
    <3> QED BY <2>1, <3>1, <3>3, <3>4, <3>5, <1>5, HandedOver
            DEF IInv, TypeOK, Steps, Sold, Deleted, Charged, Seen, Asking, Polling,
                NeverFalseSuccess, Exists
  <2>3. CASE ~(page.retries < MaxRetries)
    <3>1. ask' = "idle" /\ PaymentVerifier("error") /\ UNCHANGED <<trip, seat, pay>>
      BY <1>5, <2>3 DEF PollErrs
    <3> QED BY <2>1, <3>1, <1>5, HandedOver, HearKeeps
  <2> QED BY <2>2, <2>3
<1> QED BY <1>1, <1>2, <1>3, <1>4, <1>5 DEF Poll

-------------------------------------------------------------------------------
(* The invariant, and what it gives.                                       *)

\* Every reachable state satisfies the inductive invariant.
THEOREM CheckoutInductive == Spec => []IInv
<1>1. IInv /\ [Next]_vars => IInv'
  <2> SUFFICES ASSUME IInv, [Next]_vars PROVE IInv'
    OBVIOUS
  <2>1. CASE UNCHANGED vars
    <3>1. Booked' = Booked /\ With("booked")' = With("booked")
      BY <2>1 DEF vars, Booked, With
    <3> QED BY <2>1, <3>1 DEF vars, IInv, TypeOK, Sold, Deleted, Charged, Seen, Asking, Polling,
           NeverFalseSuccess, Exists
  <2> QED BY <2>1, SeatsMoveKeep, BackgroundKeeps, PassengerKeeps, PollKeeps DEF Next
<1> QED BY <1>1, InitInv, PTL DEF Spec

\* Every variable keeps its type, for any number of seats, requests and polls.
THEOREM CheckoutTypes == Spec => []TypeOK
BY CheckoutInductive, PTL DEF IInv

\* A booking is of the seats that were paid for, all of them, on a trip that exists,
\* however lapsed holds, other sales, repeated settlements and a deletion interleave.
THEOREM BookedSeatsArePaid == Spec => []BookedAsPaid
<1>1. IInv => BookedAsPaid
  BY DEF IInv, Sold, BookedAsPaid
<1> QED BY <1>1, CheckoutInductive, PTL

\* The verifier shows success for a booking only, however its answers were delayed,
\* lost or asked for again.
THEOREM CheckoutTellsTheTruth == Spec => []NeverFalseSuccess
BY CheckoutInductive, PTL DEF IInv

-------------------------------------------------------------------------------
(* The checkout implements PaymentPoll.                                     *)

\* A booking is never undone.
LEMMA BookingLasts ==
  ASSUME IInv, Next, Booked
  PROVE  Booked'
<1>1. PICK s \in Seat : seat[s] = "booked"
  BY DEF Booked, With
<1>2. seat \in [Seat -> SeatState]
  BY DEF IInv, TypeOK
<1>3. CASE UNCHANGED seat
  BY <1>3 DEF Booked, With
<1>4. ASSUME NEW S \in SUBSET Seat, NEW st, Becomes(S, st), s \notin S PROVE Booked'
  BY <1>1, <1>2, <1>4 DEF Becomes, Booked, With
<1>5. CASE HoldLapses \/ OthersSettle \/ DeleteTrip \/ OpenOrClose
  BY <1>1, <1>3, <1>4, <1>5 DEF HoldLapses, OthersSettle, DeleteTrip, OpenOrClose, With
<1>6. ASSUME NEW c \in Call, Background(c) PROVE Booked'
  <2>1. CASE OthersClaim(c)
    BY <1>1, <1>4, <2>1 DEF OthersClaim, With
  <2>2. CASE CallGoesOn(c)
    BY <2>2, ServeIs DEF CallGoesOn, IInv, Seen, Served, BookingStays, Booked
  <2> QED BY <1>3, <1>6, <2>1, <2>2 DEF Background, OthersHold, Webhook, CallFails
<1>7. CASE ClaimSeats
  BY <1>1, <1>2, <1>3, <1>7 DEF ClaimSeats, Booked, With
<1>8. CASE PollServed
  BY <1>8, ServeIs DEF PollServed, IInv, Seen, Served, BookingStays, Booked
<1> QED BY <1>3, <1>5, <1>6, <1>7, <1>8
        DEF Next, Passenger, Poll, Hold, HandlePay, Capture, BackToTrip, Return, PollAsks,
            PollHears, PollRefused, PollErrs

PollStep == [Verdict!PollNext]_(Verdict!pollVars)

\* Where the verifier keeps its count and verdict, the booking may be recorded.
LEMMA QuietStep ==
  ASSUME IInv, Next, page'.polls = page.polls, page'.verdict = page.verdict
  PROVE  PollStep
<1>1. CASE Booked' = Booked
  BY <1>1 DEF PollStep, Verdict!pollVars
<1>2. CASE Booked' # Booked
  <2>1. ~Booked /\ Booked'
    BY <1>2, BookingLasts DEF Booked
  <2>2. Verdict!Record
    BY <2>1 DEF Verdict!Record
  <2> QED BY <2>2 DEF PollStep, Verdict!PollNext
<1> QED BY <1>1, <1>2

\* What the verifier makes of an answer is a step of the poll.
LEMMA VerifierStep ==
  ASSUME IInv, Next, Polling, UNCHANGED seat, NEW answer \in Answers \cup {"error"},
         PaymentVerifier(answer), answer = "success" => Booked
  PROVE  PollStep
<1>1. Booked' = Booked
  BY DEF Booked, With
<1>2. page.verdict = "polling" /\ page.polls \in 0..MaxPolls /\ page.polls < MaxPolls
  BY DEF IInv, TypeOK, Page, Asking, Polling
<1>3. CASE answer \in {"success", "failed"} /\ page'.verdict = answer /\ page'.polls = page.polls
  BY <1>1, <1>2, <1>3
     DEF PollStep, Verdict!PollNext, Verdict!Decide, Verdict!Decided
<1>4. CASE /\ answer \notin {"success", "failed"} /\ page'.polls = page.polls + 1
           /\ page'.verdict = IF page.polls + 1 = MaxPolls THEN "gaveUp" ELSE "polling"
  <2>1. CASE page.polls + 1 = MaxPolls
    BY <1>1, <1>2, <1>4, <2>1 DEF PollStep, Verdict!PollNext, Verdict!GiveUp
  <2>2. CASE page.polls + 1 # MaxPolls
    <3>1. page.polls + 1 < MaxPolls
      BY <1>2, <2>2, PollsAre
    <3> QED BY <1>1, <1>2, <1>4, <2>2, <3>1 DEF PollStep, Verdict!PollNext, Verdict!AskAgain
  <2> QED BY <2>1, <2>2
<1> QED BY <1>3, <1>4, VerifierIs

LEMMA PassengerPolls ==
  ASSUME IInv, Next, Passenger
  PROVE  PollStep
<1>1. CASE Return
  <2>1. /\ page'.verdict = "polling" /\ page'.polls = 0 /\ page.verdict # "polling"
        /\ Booked' = Booked
    BY <1>1 DEF Return, Booked, With
  <2> QED BY <2>1 DEF PollStep, Verdict!PollNext, Verdict!Open
<1>2. CASE Capture
  BY <1>2, QuietStep DEF Capture
<1>3. CASE Hold \/ ClaimSeats \/ HandlePay \/ BackToTrip
  BY <1>3, MovesKeep, QuietStep DEF Hold, ClaimSeats, HandlePay, BackToTrip
<1> QED BY <1>1, <1>2, <1>3 DEF Passenger

LEMMA PollPolls ==
  ASSUME IInv, Next, Poll
  PROVE  PollStep
<1>1. CASE PollAsks \/ PollServed
  BY <1>1, QuietStep DEF PollAsks, PollServed
<1>2. CASE PollHears
  BY <1>2, VerifierStep DEF PollHears, IInv, Seen, Asking, Answers
<1>3. CASE PollRefused
  BY <1>3, VerifierStep DEF PollRefused, IInv, Asking, Answers
<1>4. CASE PollErrs
  <2>1. CASE page.retries < MaxRetries
    <3>1. page' = [page EXCEPT !.retries = page.retries + 1]
      BY <1>4, <2>1 DEF PollErrs
    <3>2. page'.polls = page.polls /\ page'.verdict = page.verdict
      BY <3>1 DEF IInv, TypeOK, Page
    <3> QED BY <3>2, QuietStep
  <2>2. CASE ~(page.retries < MaxRetries)
    BY <1>4, <2>2, VerifierStep DEF PollErrs, IInv, Asking
  <2> QED BY <2>1, <2>2
<1> QED BY <1>1, <1>2, <1>3, <1>4 DEF Poll

LEMMA NextPolls ==
  ASSUME IInv, [Next]_vars
  PROVE  PollStep
<1>1. CASE UNCHANGED vars
  BY <1>1 DEF vars, PollStep, Verdict!pollVars, Booked, With
<1>2. CASE Next /\ UNCHANGED page
  BY <1>2, QuietStep
<1>3. CASE Next /\ ~UNCHANGED page
  <2>1. Passenger \/ Poll
    BY <1>3 DEF Next, OpenOrClose, DeleteTrip, HoldLapses, OthersSettle, Background, OthersHold,
       OthersClaim, Webhook, CallGoesOn, CallFails
  <2> QED BY <1>3, <2>1, PassengerPolls, PollPolls
<1> QED BY <1>1, <1>2, <1>3

\* The checkout implements PaymentPoll: every answer that decides nothing is counted
\* up to MAX_POLLS, success is for a recorded booking, and nothing takes it back.
THEOREM CheckoutPoll == Spec => ImplementsPoll
<1>1. Init => Verdict!PollInit
  BY DEF Init, Verdict!PollInit, Booked, With
<1>2. IInv /\ [Next]_vars => PollStep
  BY NextPolls
<1> QED BY <1>1, <1>2, CheckoutInductive, PTL
        DEF Spec, ImplementsPoll, Verdict!PollSpec, PollStep
===============================================================================
