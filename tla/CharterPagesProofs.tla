-------------------------- MODULE CharterPagesProofs --------------------------
(***************************************************************************)
(* Proofs about CharterLifecycle and CharterPages, for any number of       *)
(* requests, references, prices and attempts.  Of the lifecycle: its type  *)
(* invariant, that only a paid charter is ever confirmed or completed, and *)
(* that it implements PaymentOnce.  Of the pages: they only do what the    *)
(* lifecycle allows, so all that holds behind them too; and the poll of My *)
(* Charters is the one PaymentPoll promises.                               *)
(***************************************************************************)
EXTENDS CharterPages, TLAPS

USE CharterAssumption

\* What a request under way still knows to be true when it writes.
InFlight ==
  \A q \in Request :
    /\ req[q].pc \in {"adminConfirmBooking", "completeCharter"} => charter.paid > 0
    /\ req[q].pc \in {"sendQuote", "initialize"} => req[q].price \in Price
    /\ req[q].pc = "setPaymentRef" =>
         req[q].ref \in Ref /\ charge[req[q].ref].state = "started"
    /\ req[q].pc \in {"process", "confirm"} =>
         req[q].ref \in Ref /\ charge[req[q].ref].state = "captured"
    /\ req[q].pc = "confirm" => req[q].price = charge[req[q].ref].amount

\* A reference belongs to the request that started it, and has a price.
Started ==
  /\ \A r \in Ref : charge[r].state # "none" => charge[r].amount \in Price
  /\ \A q, p \in Request :
       req[q].pc = "setPaymentRef" /\ req[p].pc = "setPaymentRef" /\ req[q].ref = req[p].ref
         => q = p

\* The event is emitted after the payment, by the one request that recorded it.
Announcing ==
  /\ announced > 0 => charter.paid > 0
  /\ announced <= 1
  /\ \A q \in Request : req[q].pc = "emit" => charter.paid > 0 /\ announced = 0
  /\ \A q, p \in Request : req[q].pc = "emit" /\ req[p].pc = "emit" => q = p

IInv == TypeOK /\ PaidFirst /\ InFlight /\ Started /\ Announcing

LEMMA PricePositive == \A p \in Price : p \in Nat /\ p > 0
BY CharterAssumption

-------------------------------------------------------------------------------
(* One lemma per group of actions: it keeps the invariant.                 *)

\* A new request changes nothing but itself, and knows what it has just read.
LEMMA StartKeeps ==
  ASSUME IInv, NEW q \in Request, Start(q)
  PROVE  IInv'
<1> USE DEF IInv, TypeOK, Charter, Charge, Req, Op, Begin, Idle
<1>1. CASE \E p \in Price : Check(q, "sendQuote", p)
  BY <1>1 DEF Check, PaidFirst, InFlight, Started, Announcing
<1>2. CASE \E op \in Op \ {"sendQuote"} : Check(q, op, 0)
  <2>1. PICK op \in Op \ {"sendQuote"} : Check(q, op, 0)
    BY <1>2
  <2>2. op \in {"adminConfirmBooking", "completeCharter"} => charter.paid > 0
    BY <2>1 DEF Check, AllowedIn, PaidFirst
  <2> QED BY <2>1, <2>2 DEF Check, PaidFirst, InFlight, Started, Announcing
<1>3. CASE \E r \in Ref : Webhook(q, r)
  BY <1>3 DEF Webhook, PaidFirst, InFlight, Started, Announcing
<1>4. CASE InitiatePayment(q)
  BY <1>4 DEF InitiatePayment, PaidFirst, InFlight, Started, Announcing
<1>5. CASE VerifyPayment(q)
  BY <1>5 DEF VerifyPayment, PaidFirst, InFlight, Started, Announcing
<1> QED BY <1>1, <1>2, <1>3, <1>4, <1>5 DEF Start

\* A request that ends without a write, for whatever reason.
LEMMA EndKeeps ==
  ASSUME IInv, NEW q \in Request, End(q), UNCHANGED <<charter, charge, announced>>,
         issues' \subseteq Ref
  PROVE  IInv'
BY DEF IInv, TypeOK, Charter, Charge, Req, Op, End, Idle, PaidFirst, InFlight, Started, Announcing

\* A stale write touches neither the payment nor, unpaid, a later status.
LEMMA WriteKeeps ==
  ASSUME IInv, NEW q \in Request, Write(q)
  PROVE  IInv'
<1> USE DEF IInv, TypeOK, Op
<1>1. charter'.paid = charter.paid
  BY DEF Write, After, Charter
<1>2. charter' \in Charter
  BY DEF Write, After, Charter, Status, InFlight, Req
<1>3. PaidFirst'
  BY DEF Write, After, Charter, PaidFirst, InFlight
<1>4. TypeOK'
  BY <1>2 DEF Write, End, Idle, Req
<1> QED
  BY <1>1, <1>3, <1>4 DEF Write, End, Idle, Req, InFlight, Started, Announcing

\* Paystack's transaction is started with a fresh reference.
LEMMA InitializeKeeps ==
  ASSUME IInv, NEW q \in Request, NEW r \in Ref, InitializeCharterPayment(q, r)
  PROVE  IInv'
<1> USE DEF IInv, TypeOK, Charge, Req, InitializeCharterPayment
<1>1. TypeOK' /\ PaidFirst'
  BY DEF PaidFirst
<1>2. InFlight'
  BY DEF InFlight
<1>3. Started'
  BY DEF InFlight, Started
<1>4. Announcing'
  BY DEF Announcing
<1> QED BY <1>1, <1>2, <1>3, <1>4

LEMMA SetPaymentRefKeeps ==
  ASSUME IInv, NEW q \in Request, SetPaymentRef(q)
  PROVE  IInv'
<1> USE DEF IInv, TypeOK, Charter, Charge, Req, Idle, End, SetPaymentRef
<1>1. TypeOK' /\ PaidFirst'
  BY DEF PaidFirst, InFlight
<1>2. InFlight'
  BY DEF InFlight, Started
<1>3. Started'
  BY DEF InFlight, Started
<1>4. Announcing'
  BY DEF Announcing
<1> QED BY <1>1, <1>2, <1>3, <1>4

LEMMA CaptureKeeps ==
  ASSUME IInv, NEW r \in Ref, Capture(r)
  PROVE  IInv'
BY DEF IInv, TypeOK, Charge, Capture, PaidFirst, InFlight, Started, Announcing

LEMMA ProcessKeeps ==
  ASSUME IInv, NEW q \in Request, ProcessPayment(q)
  PROVE  IInv'
<1>1. CASE End(q)
  <2>1. issues' \subseteq Ref
    BY DEF ProcessPayment, IInv, TypeOK, InFlight
  <2> QED BY <1>1, <2>1, EndKeeps DEF ProcessPayment
<1>2. CASE ~End(q)
  <2>1. /\ req' = [req EXCEPT ![q].pc = "confirm", ![q].price = charter.quotedPrice]
        /\ charge[req[q].ref].amount = charter.quotedPrice
        /\ req[q].pc = "process" /\ UNCHANGED <<charter, charge, issues, announced>>
    BY <1>2 DEF ProcessPayment
  <2>2. TypeOK' /\ PaidFirst'
    <3>1. charter.quotedPrice \in Price \cup {0}
      BY DEF IInv, TypeOK, Charter
    <3>2. req' \in [Request -> Req]
      BY <2>1, <3>1 DEF IInv, TypeOK, Req
    <3> QED BY <2>1, <3>2 DEF IInv, TypeOK, PaidFirst
  <2>3. InFlight' /\ Started' /\ Announcing'
    BY <2>1 DEF IInv, TypeOK, Req, InFlight, Started, Announcing
  <2> QED BY <2>2, <2>3 DEF IInv
<1> QED BY <1>1, <1>2

\* Only an unpaid charter is paid, so nobody else is about to announce.
LEMMA ConfirmKeeps ==
  ASSUME IInv, NEW q \in Request, ConfirmPayment(q)
  PROVE  IInv'
<1>1. CASE Payable
  <2>1. req[q].price \in Price /\ req[q].pc = "confirm"
    BY DEF ConfirmPayment, IInv, InFlight, Started
  <2>2. /\ charter' = [charter EXCEPT !.paid = req[q].price, !.status = "confirmed"]
        /\ req' = [req EXCEPT ![q].pc = "emit"]
        /\ UNCHANGED <<charge, issues, announced>>
    BY <1>1 DEF ConfirmPayment
  <2>3. charter' \in Charter /\ charter'.paid > 0
    <3>1. charter' \in Charter
      BY <2>1, <2>2 DEF IInv, TypeOK, Charter, Status
    <3>2. charter'.paid = req[q].price
      BY <2>2 DEF IInv, TypeOK, Charter
    <3>3. req[q].price > 0
      BY <2>1, PricePositive
    <3> QED BY <3>1, <3>2, <3>3
  <2>4. charter.paid = 0 /\ announced = 0 /\ \A p \in Request : req[p].pc # "emit"
    BY <1>1 DEF Payable, IInv, TypeOK, Announcing
  <2>5. TypeOK' /\ PaidFirst'
    BY <2>2, <2>3 DEF IInv, TypeOK, Req, PaidFirst
  <2>6. InFlight' /\ Started' /\ Announcing'
    BY <2>2, <2>3, <2>4 DEF IInv, TypeOK, Req, InFlight, Started, Announcing
  <2> QED BY <2>5, <2>6 DEF IInv
<1>2. CASE ~Payable
  BY <1>2, EndKeeps DEF ConfirmPayment, IInv, TypeOK
<1> QED BY <1>1, <1>2

LEMMA EmitKeeps ==
  ASSUME IInv, NEW q \in Request, Emit(q)
  PROVE  IInv'
BY DEF IInv, TypeOK, Req, Emit, End, Idle, PaidFirst, InFlight, Started, Announcing

-------------------------------------------------------------------------------
(* The invariant, and what it gives.                                       *)

\* Every reachable state satisfies the inductive invariant.
THEOREM CharterInductive == Spec => []IInv
<1>1. Init => IInv
  BY DEF Init, IInv, TypeOK, Charter, Charge, Req, Status, Idle, Op, PaidFirst, InFlight,
     Started, Announcing
<1>2. IInv /\ [Next]_vars => IInv'
  <2> SUFFICES ASSUME IInv, [Next]_vars PROVE IInv'
    OBVIOUS
  <2>1. ASSUME NEW q \in Request, GoOn(q) PROVE IInv'
    <3>1. CASE InitializeRefused(q)
      BY <3>1, EndKeeps DEF InitializeRefused, IInv, TypeOK
    <3> QED BY <2>1, <3>1, WriteKeeps, InitializeKeeps, SetPaymentRefKeeps, ProcessKeeps,
               ConfirmKeeps, EmitKeeps DEF GoOn
  <2>2. ASSUME NEW q \in Request, Fail(q) PROVE IInv'
    BY <2>2, EndKeeps DEF Fail, IInv, TypeOK
  <2>3. CASE UNCHANGED vars
    BY <2>3 DEF vars, IInv, TypeOK, PaidFirst, InFlight, Started, Announcing
  <2> QED BY <2>1, <2>2, <2>3, StartKeeps, CaptureKeeps DEF Next
<1> QED BY <1>1, <1>2, PTL DEF Spec

\* Every variable keeps its type, for any number of requests and references.
THEOREM CharterTypes == Spec => []TypeOK
BY CharterInductive, PTL DEF IInv

\* However stale the check before a write was, only a paid charter is ever
\* confirmed, completed or given its booking details.
THEOREM OnlyPaidConfirmed == Spec => []PaidFirst
BY CharterInductive, PTL DEF IInv

-------------------------------------------------------------------------------
(* The refinement.                                                         *)

OnceStep == [Once!OnceNext]_(Once!onceVars)

\* A step that leaves what Paystack has captured, the payment and the event
\* count alone does not show.
LEMMA NoOnceStep ==
  ASSUME \A r \in Ref : charge'[r].state = "captured" <=> charge[r].state = "captured",
         \A r \in Captured : charge'[r].amount = charge[r].amount,
         charter'.paid = charter.paid, UNCHANGED announced
  PROVE  OnceStep
BY DEF OnceStep, Once!onceVars, Captured

LEMMA CaptureStep ==
  ASSUME IInv, NEW r \in Ref, Capture(r)
  PROVE  OnceStep
<1>1. PICK a \in Price : a = charge[r].amount
  BY DEF IInv, Started, Capture
<1>2. Captured' = Captured \cup {r} /\ \A x \in Captured' : charge'[x].amount = charge[x].amount
  BY DEF Capture, Captured, IInv, TypeOK, Charge
<1>3. {charge'[x].amount : x \in Captured'} = {charge[x].amount : x \in Captured} \cup {a}
  BY <1>1, <1>2
<1>4. Once!Charge(a)
  BY <1>3 DEF Once!Charge, Capture
<1> QED BY <1>4 DEF OnceStep, Once!OnceNext

LEMMA ConfirmStep ==
  ASSUME IInv, NEW q \in Request, ConfirmPayment(q)
  PROVE  OnceStep
<1>1. CASE ~Payable
  BY <1>1, NoOnceStep DEF ConfirmPayment
<1>2. CASE Payable
  <2>1. PICK a \in Price : a = req[q].price
    BY DEF IInv, InFlight, Started, ConfirmPayment
  <2>2. a \in {charge[x].amount : x \in Captured}
    BY <2>1 DEF IInv, InFlight, ConfirmPayment, Captured
  <2>3. charter'.paid = a /\ charter.paid = 0 /\ UNCHANGED <<charge, announced>>
    BY <1>2, <2>1 DEF ConfirmPayment, Payable, IInv, TypeOK, Charter
  <2>4. Once!Take(a)
    BY <2>2, <2>3 DEF Once!Take, Captured
  <2> QED BY <2>4 DEF OnceStep, Once!OnceNext
<1> QED BY <1>1, <1>2

LEMMA EmitStep ==
  ASSUME IInv, NEW q \in Request, Emit(q)
  PROVE  OnceStep
<1>1. Once!Tell
  BY DEF Once!Tell, Emit, IInv, Announcing, Captured
<1> QED BY <1>1 DEF OnceStep, Once!OnceNext

LEMMA OtherStep ==
  ASSUME IInv, NEW q \in Request, Start(q) \/ GoOn(q) \/ Fail(q),
         ~ConfirmPayment(q), ~Emit(q)
  PROVE  OnceStep
<1>1. CASE UNCHANGED <<charge, charter, announced>>
  BY <1>1, NoOnceStep
<1>2. CASE Write(q)
  <2>1. charter'.paid = charter.paid
    BY <1>2 DEF Write, After, Op, IInv, TypeOK, Charter
  <2> QED BY <1>2, <2>1, NoOnceStep DEF Write
<1>3. CASE \E r \in Ref : InitializeCharterPayment(q, r)
  BY <1>3, NoOnceStep DEF InitializeCharterPayment, IInv, TypeOK, Charge, Captured
<1>4. CASE SetPaymentRef(q)
  <2>1. req[q].ref \in Ref /\ charge[req[q].ref].state = "started" /\ charter'.paid = charter.paid
    BY <1>4 DEF SetPaymentRef, IInv, InFlight, TypeOK, Charter
  <2> QED BY <1>4, <2>1, NoOnceStep DEF SetPaymentRef, IInv, TypeOK, Charge, Captured
<1> QED BY <1>1, <1>2, <1>3, <1>4 DEF Start, GoOn, Fail, Check, Webhook, InitiatePayment,
           VerifyPayment, InitializeRefused, ProcessPayment

\* Whatever stale writes, repeated webhooks, verify polls and crashes do to the
\* charter, one captured amount is recorded as paid, once, and charter.confirmed
\* is emitted at most once, after that.
THEOREM CharterPaidOnce == Spec => ImplementsOnce
<1>1. Init => Once!OnceInit
  BY DEF Init, Once!OnceInit, Captured
<1>2. IInv /\ [Next]_vars => OnceStep
  <2> SUFFICES ASSUME IInv, [Next]_vars PROVE OnceStep
    OBVIOUS
  <2>1. CASE UNCHANGED vars
    BY <2>1, NoOnceStep DEF vars
  <2> QED BY <2>1, CaptureStep, ConfirmStep, EmitStep, OtherStep DEF Next
<1> QED BY <1>1, <1>2, CharterInductive, PTL DEF Spec, ImplementsOnce, Once!OnceSpec, OnceStep

-------------------------------------------------------------------------------
(* The pages.                                                              *)

\* Every step of the pages is a step of CharterLifecycle or leaves it alone.
LEMMA PagesStepIsOne == [PagesNext]_pagesVars => [Next]_vars
<1> SUFFICES ASSUME [PagesNext]_pagesVars PROVE [Next]_vars
  OBVIOUS
<1>1. CASE UNCHANGED pagesVars
  BY <1>1 DEF pagesVars, vars
<1>2. CASE CharterForm \/ Find \/ AskAndHear \/ Hear \/ TimesOut \/ \E r \in Ref : Return(r)
  BY <1>2 DEF CharterForm, Find, AskAndHear, Hear, TimesOut, Return
<1>3. ASSUME NEW q \in Request, PagesStart(q) \/ Ask(q) PROVE Start(q)
  <2>1. CASE AdminChartersPage(q)
    <3>1. PICK s \in Status :
            \/ QuoteModal(q, s) \/ ConfirmBookingModal(q, s)
            \/ \E op \in DetailModal(s) \cap {"cancelCharter", "completeCharter"} : Check(q, op, 0)
      BY <2>1 DEF AdminChartersPage
    <3> QED BY <3>1 DEF QuoteModal, ConfirmBookingModal, Start, Op
  <2>2. CASE MyCharterCard(q) \/ Ask(q) \/ \E r \in Ref : Webhook(q, r)
    BY <2>2 DEF MyCharterCard, Ask, Start, Op
  <2> QED BY <1>3, <2>1, <2>2 DEF PagesStart
<1>4. ASSUME NEW q \in Request, PagesGoOn(q) \/ PagesFail(q) PROVE Next
  BY <1>4 DEF PagesGoOn, PagesFail, Next
<1>5. ASSUME NEW r \in Ref, Capture(r) PROVE Next
  BY <1>5 DEF Next
<1> QED BY <1>1, <1>2, <1>3, <1>4, <1>5 DEF PagesNext, Next

\* The pages implement CharterLifecycle: whatever a stale copy offers to press is a
\* request that the server's own checks answer.
THEOREM PagesKeepLifecycle == PagesSpec => Spec
<1>1. PagesInit => Init
  BY DEF PagesInit
<1> QED BY <1>1, PagesStepIsOne, PTL DEF PagesSpec, Spec

-------------------------------------------------------------------------------
(* The poll.                                                               *)

\* What is recorded as paid stays so, whatever stale writes do to the row.
LEMMA PaidStays ==
  ASSUME IInv, [Next]_vars, charter.paid > 0
  PROVE  charter'.paid > 0
<1>1. CASE UNCHANGED charter
  BY <1>1
<1>2. ASSUME NEW q \in Request, Write(q) PROVE charter'.paid > 0
  BY <1>2 DEF Write, After, Op, IInv, TypeOK, Charter
<1>3. ASSUME NEW q \in Request, SetPaymentRef(q) PROVE charter'.paid > 0
  BY <1>3 DEF SetPaymentRef, IInv, TypeOK, Charter
<1>4. ASSUME NEW q \in Request, ConfirmPayment(q) PROVE charter'.paid > 0
  <2>1. ~Payable
    BY DEF Payable
  <2> QED BY <1>1, <1>4, <2>1 DEF ConfirmPayment
<1> QED BY <1>1, <1>2, <1>3, <1>4
     DEF vars, Next, Start, GoOn, Fail, Check, Webhook, InitiatePayment, VerifyPayment,
         InitializeCharterPayment, InitializeRefused, ProcessPayment, Emit, Capture

\* The page waits for an answer only while it polls, and polls only while an
\* attempt is left.
PollInv ==
  /\ poll \in Poll
  /\ form \in {"open", "refused", "submitted"}
  /\ Waiting => Polling
  /\ Polling => poll.attempts < MaxAttempts
  /\ NeverFalseSuccess

\* While an attempt is left, what an answer makes of the poll.
LEMMA SeenIs ==
  ASSUME PollInv, Polling, NEW a \in {"success", "failed", "again"}, poll' = Seen(a)
  PROVE  /\ poll' \in Poll /\ poll'.asks = NoRequest
         /\ a # "again" => poll'.shows = a /\ poll'.attempts = poll.attempts
         /\ a = "again" =>
              /\ poll'.attempts = poll.attempts + 1
              /\ poll'.shows = IF poll.attempts + 1 = MaxAttempts THEN "received" ELSE "verifying"
<1>1. poll.attempts \in Nat /\ poll.attempts + 1 \in 0..MaxAttempts /\ poll.attempts \in 0..MaxAttempts
  BY PagesAssumption DEF PollInv, Poll
<1>2. ASSUME NEW s \in {"success", "failed", "received", "verifying"}, NEW n \in 0..MaxAttempts,
             poll' = Showing(s, n)
      PROVE  poll' \in Poll /\ poll'.asks = NoRequest /\ poll'.shows = s /\ poll'.attempts = n
  BY <1>2 DEF Showing, PollInv, Poll
<1>3. CASE a # "again"
  BY <1>1, <1>2, <1>3 DEF Seen
<1>4. CASE a = "again"
  BY <1>1, <1>2, <1>4 DEF Seen
<1> QED BY <1>3, <1>4

LEMMA SeenKeeps ==
  ASSUME PollInv, Polling, NEW a \in {"success", "failed", "again"}, poll' = Seen(a),
         charter'.paid \in Nat, a = "success" => charter'.paid > 0,
         UNCHANGED form
  PROVE  PollInv'
<1>1. poll.attempts \in Nat /\ poll.attempts < MaxAttempts /\ MaxAttempts \in Nat
  BY PagesAssumption DEF PollInv, Poll
<1>2. poll'.shows = "success" => a = "success"
  BY SeenIs
<1>3. poll'.shows \in {"verifying", "found"} => poll'.attempts < MaxAttempts
  BY <1>1, SeenIs
<1> QED BY <1>2, <1>3, SeenIs DEF PollInv, Waiting, Polling, NeverFalseSuccess

LEMMA PollKeeps ==
  ASSUME IInv, IInv', PollInv, [PagesNext]_pagesVars
  PROVE  PollInv'
<1>1. charter'.paid \in Nat /\ (charter.paid > 0 => charter'.paid > 0)
  <2>1. charter'.paid \in Nat
    <3>1. charter'.paid \in Price \cup {0}
      BY DEF IInv, TypeOK, Charter
    <3>2. \A n \in Price \cup {0} : n \in Nat
      BY PricePositive
    <3> QED BY <3>1, <3>2, Zenon
  <2> QED BY <2>1, PagesStepIsOne, PaidStays
<1>2. CASE UNCHANGED poll /\ form' \in {"open", "refused", "submitted"}
  BY <1>1, <1>2 DEF PollInv, Waiting, Polling, NeverFalseSuccess
<1>3. CASE Find
  <2>1. CASE poll' = [poll EXCEPT !.shows = "found"]
    BY <1>3, <2>1 DEF Find, PollInv, Poll, Waiting, Polling, NeverFalseSuccess
  <2>2. CASE poll' = Seen("again")
    BY <1>1, <1>3, <2>2, SeenKeeps DEF Find, Polling
  <2> QED BY <1>3, <2>1, <2>2 DEF Find
<1>4. CASE AskAndHear
  <2>1. PICK a \in VerifyAnswers \cup {"again"} : poll' = Seen(a)
    BY <1>4 DEF AskAndHear
  <2>2. a \in {"success", "failed", "again"} /\ (a = "success" => charter.paid > 0)
    BY DEF VerifyAnswers, IInv, PaidFirst
  <2> QED BY <1>1, <1>4, <2>1, <2>2, SeenKeeps DEF AskAndHear, Polling
<1>5. CASE Hear
  <2>1. charter.status \in {"confirmed", "completed"} => charter.paid > 0
    BY DEF IInv, PaidFirst
  <2> QED BY <1>1, <1>5, <2>1, SeenKeeps DEF Hear, PollInv
<1>6. ASSUME NEW q \in Request, Ask(q) PROVE PollInv'
  BY <1>1, <1>6 DEF Ask, PollInv, Poll, Waiting, Polling, NeverFalseSuccess
<1>7. ASSUME NEW q \in Request, PagesFail(q) PROVE PollInv'
  <2>1. CASE poll.asks = q
    <3>1. Polling
      BY <2>1, PagesAssumption DEF PollInv, Waiting
    <3> QED BY <1>1, <1>7, <2>1, <3>1, SeenKeeps DEF PagesFail
  <2>2. CASE poll.asks # q
    BY <1>2, <1>7, <2>2 DEF PagesFail, PollInv
  <2> QED BY <2>1, <2>2
<1>8. ASSUME NEW r \in Ref, Return(r) PROVE PollInv'
  BY <1>8, PagesAssumption DEF Return, PollInv, Poll, Waiting, Polling, NeverFalseSuccess
<1>9. CASE \/ UNCHANGED pagesVars \/ CharterForm
           \/ \E q \in Request : PagesStart(q) \/ PagesGoOn(q)
           \/ \E r \in Ref : Capture(r) /\ UNCHANGED <<form, poll>>
  BY <1>2, <1>9 DEF pagesVars, CharterForm, PagesStart, PagesGoOn, PollInv
<1>10. CASE TimesOut
  BY <1>1, <1>10, SeenKeeps DEF TimesOut, PollInv
<1> QED BY <1>3, <1>4, <1>5, <1>6, <1>7, <1>8, <1>9, <1>10 DEF PagesNext

LEMMA PollHolds == PagesSpec => []PollInv
<1>1. PagesInit => PollInv
  BY PagesAssumption DEF PagesInit, PollInv, Poll, Waiting, Polling, NeverFalseSuccess
<1>2. PagesSpec => []IInv
  BY PagesKeepLifecycle, CharterInductive, PTL
<1> QED BY <1>1, <1>2, PollKeeps, PTL DEF PagesSpec

\* Row, requests, form and poll keep their types; the attempts stay within
\* MAX_ATTEMPTS.
THEOREM PagesTypes == PagesSpec => []PagesTypeOK
<1>1. PollInv /\ TypeOK => PagesTypeOK
  BY DEF PollInv, PagesTypeOK
<1> QED BY <1>1, PollHolds, PagesKeepLifecycle, CharterTypes, PTL

\* My Charters says that the payment is confirmed only if one was recorded.
THEOREM PagesTellTheTruth == PagesSpec => []NeverFalseSuccess
<1>1. PollInv => NeverFalseSuccess
  BY DEF PollInv
<1> QED BY <1>1, PollHolds, PTL

\* The pages behind them keep CharterLifecycle's promises: only what was paid is
\* confirmed, and one captured amount is recorded and announced, once.
THEOREM PagesPaidFirst == PagesSpec => []PaidFirst
BY PagesKeepLifecycle, OnlyPaidConfirmed, PTL

THEOREM PagesPaidOnce == PagesSpec => ImplementsOnce
BY PagesKeepLifecycle, CharterPaidOnce, PTL

-------------------------------------------------------------------------------
(* The poll implements PaymentPoll.                                        *)

PollStep == [Verdict!PollNext]_(Verdict!pollVars)

\* While the poll rests, a payment may be recorded, but never taken back.
LEMMA RestStep ==
  ASSUME charter.paid > 0 => charter'.paid > 0,
         poll'.attempts = poll.attempts, PollShows' = PollShows
  PROVE  PollStep
<1>1. CASE (charter'.paid > 0) <=> (charter.paid > 0)
  BY <1>1 DEF PollStep, Verdict!pollVars
<1>2. CASE ~(charter.paid > 0) /\ charter'.paid > 0
  BY <1>2 DEF PollStep, Verdict!PollNext, Verdict!Record
<1> QED BY <1>1, <1>2

\* An answer, or the failure of a call, while the page polls.
LEMMA SeenStep ==
  ASSUME PollInv, Polling, NEW a \in {"success", "failed", "again"}, poll' = Seen(a),
         a = "success" => charter.paid > 0, UNCHANGED charter
  PROVE  PollStep
<1>1. poll.attempts \in Nat /\ poll.attempts < MaxAttempts /\ MaxAttempts \in Nat
  BY PagesAssumption DEF PollInv, Poll
<1>2. PollShows = "polling"
  BY DEF PollShows, Polling
<1>3. CASE a # "again"
  <2>1. poll'.attempts = poll.attempts /\ PollShows' = a
    BY <1>3, SeenIs DEF PollShows
  <2>2. Verdict!Decide(a)
    BY <1>1, <1>2, <2>1 DEF Verdict!Decide
  <2> QED BY <1>3, <2>2 DEF PollStep, Verdict!PollNext, Verdict!Decided
<1>4. CASE a = "again" /\ poll.attempts + 1 = MaxAttempts
  <2>1. poll'.attempts = poll.attempts + 1 /\ PollShows' = "gaveUp"
    BY <1>4, SeenIs DEF PollShows
  <2>2. Verdict!GiveUp
    BY <1>2, <1>4, <2>1 DEF Verdict!GiveUp
  <2> QED BY <2>2 DEF PollStep, Verdict!PollNext
<1>5. CASE a = "again" /\ poll.attempts + 1 # MaxAttempts
  <2>1. poll'.attempts = poll.attempts + 1 /\ PollShows' = "polling"
    BY <1>5, SeenIs DEF PollShows
  <2>2. poll.attempts + 1 < MaxAttempts
    BY <1>1, <1>5
  <2>3. Verdict!AskAgain
    BY <1>2, <2>1, <2>2 DEF Verdict!AskAgain
  <2> QED BY <2>3 DEF PollStep, Verdict!PollNext
<1> QED BY <1>3, <1>4, <1>5

LEMMA PagesStepPolls ==
  ASSUME IInv, PollInv, [PagesNext]_pagesVars
  PROVE  PollStep
<1>1. charter.paid > 0 => charter'.paid > 0
  BY PagesStepIsOne, PaidStays
<1>2. CASE UNCHANGED poll
  BY <1>1, <1>2, RestStep DEF PollShows
<1>3. CASE Find
  <2>1. CASE poll' = [poll EXCEPT !.shows = "found"]
    BY <1>1, <1>3, <2>1, RestStep DEF Find, PollInv, Poll, PollShows
  <2>2. CASE poll' = Seen("again")
    BY <1>3, <2>2, SeenStep DEF Find, Polling, vars
  <2> QED BY <1>3, <2>1, <2>2 DEF Find
<1>4. CASE AskAndHear
  <2>1. PICK a \in VerifyAnswers \cup {"again"} : poll' = Seen(a)
    BY <1>4 DEF AskAndHear
  <2>2. a \in {"success", "failed", "again"} /\ (a = "success" => charter.paid > 0)
    BY DEF VerifyAnswers, IInv, PaidFirst
  <2> QED BY <1>4, <2>1, <2>2, SeenStep DEF AskAndHear, Polling, vars
<1>5. CASE Hear
  <2>1. charter.status \in {"confirmed", "completed"} => charter.paid > 0
    BY DEF IInv, PaidFirst
  <2> QED BY <1>5, <2>1, SeenStep DEF Hear, PollInv, vars
<1>6. ASSUME NEW q \in Request, Ask(q) PROVE PollStep
  BY <1>1, <1>6, RestStep DEF Ask, PollInv, Poll, PollShows
<1>7. ASSUME NEW q \in Request, PagesFail(q) PROVE PollStep
  <2>1. CASE poll.asks = q
    <3>1. Polling
      BY <2>1, PagesAssumption DEF PollInv, Waiting
    <3> QED BY <1>7, <2>1, <3>1, SeenStep DEF PagesFail, Fail
  <2>2. CASE poll.asks # q
    BY <1>2, <1>7, <2>2 DEF PagesFail
  <2> QED BY <2>1, <2>2
<1>8. ASSUME NEW r \in Ref, Return(r) PROVE PollStep
  <2>1. PollShows # "polling" /\ poll'.attempts = 0 /\ PollShows' = "polling"
    BY <1>8 DEF Return, PollInv, Poll, Polling, PollShows
  <2>2. Verdict!Open
    BY <1>8, <2>1 DEF Verdict!Open, Return, vars
  <2> QED BY <2>2 DEF PollStep, Verdict!PollNext
<1>9. CASE TimesOut
  BY <1>9, SeenStep DEF TimesOut, PollInv, vars
<1> QED BY <1>2, <1>3, <1>4, <1>5, <1>6, <1>7, <1>8, <1>9
        DEF PagesNext, pagesVars, CharterForm, PagesStart, PagesGoOn

\* Whatever races with it, My Charters counts its attempts, stops when they are
\* used, and shows success only for a recorded payment, which stays recorded.
THEOREM PagesPoll == PagesSpec => ImplementsPoll
<1>1. PagesInit => Verdict!PollInit
  BY DEF PagesInit, Init, Verdict!PollInit, PollShows
<1>2. IInv /\ PollInv /\ [PagesNext]_pagesVars => PollStep
  BY PagesStepPolls
<1>3. PagesSpec => []IInv
  BY PagesKeepLifecycle, CharterInductive, PTL
<1> QED BY <1>1, <1>2, <1>3, PollHolds, PTL
        DEF PagesSpec, ImplementsPoll, Verdict!PollSpec, PollStep
===============================================================================
