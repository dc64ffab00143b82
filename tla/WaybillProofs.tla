----------------------------- MODULE WaybillProofs -----------------------------
(***************************************************************************)
(* Proofs about Waybills, for any number of requests, references, fees and *)
(* carriers: its invariants, and that it implements PaymentOnce and        *)
(* PaymentPoll.  The argument is that paidAt is never unset, so what a     *)
(* request under way knows of the payment stays true however stale its     *)
(* check of the status.                                                    *)
(***************************************************************************)
EXTENDS Waybills, TLAPS

Moved == {"dropped_off", "picked_up", "in_transit", "arrived_at_hub", "completed"}

LEMMA StatusIs ==
  Status = {"none", "pending", "quote_sent", "paid", "cancelled"} \cup Moved
BY DEF Status, VALID_TRANSITIONS, Moved

\* The pages' buttons move a parcel, and only a paid or moved one can be moved.
LEMMA ButtonsMove ==
  /\ \A s \in DOMAIN NEXT_ACTIONS : NEXT_ACTIONS[s] \in Moved
  /\ \A s \in DOMAIN NEXT_STATUS : NEXT_STATUS[s] \in Moved
BY DEF NEXT_ACTIONS, NEXT_STATUS, Moved

LEMMA MovedFromPaid ==
  \A s \in Status, to \in Moved : to \in VALID_TRANSITIONS[s] => s \in Moved \cup {"paid"}
BY StatusIs DEF VALID_TRANSITIONS, Moved

-------------------------------------------------------------------------------
(* The inductive invariant.                                                *)

\* What a request under way still knows to be true when it writes.
InFlight ==
  \A q \in Request :
    /\ req[q].pc \in {"sendQuote", "initialize"} => req[q].fee \in Fee
    /\ req[q].pc = "updateStatus" =>
         req[q].to = "cancelled" \/ (req[q].to \in Moved /\ waybill.paid > 0)
    /\ req[q].pc = "setPaymentRef" =>
         req[q].ref \in Ref /\ payment[req[q].ref].state = "started"
    /\ req[q].pc \in {"settle", "confirm"} =>
         req[q].ref \in Ref /\ payment[req[q].ref].state = "captured"
    /\ req[q].pc = "confirm" => req[q].fee = payment[req[q].ref].amount

\* A reference belongs to the request that started it, and has an amount.
Started ==
  /\ \A r \in Ref : payment[r].state # "none" => payment[r].amount \in Fee
  /\ \A q, p \in Request :
       req[q].pc = "setPaymentRef" /\ req[p].pc = "setPaymentRef" /\ req[q].ref = req[p].ref
         => q = p

\* The event is emitted after the payment, by the one request that recorded it.
Announcing ==
  /\ announced > 0 => waybill.paid > 0
  /\ announced <= 1
  /\ \A q \in Request : req[q].pc \in {"paidEvent", "emit"} => waybill.paid > 0 /\ announced = 0
  /\ \A q, p \in Request :
       req[q].pc \in {"paidEvent", "emit"} /\ req[p].pc \in {"paidEvent", "emit"} => q = p

\* The page asks one request at a time, and while it asks or polls a poll is left.
Asking ==
  /\ \A q \in Request : req[q].page => payPage.shows = "asking"
  /\ \A q, p \in Request : req[q].page /\ req[p].page => q = p
  /\ \A q \in Request : req[q].pc = "answer" => req[q].page
  /\ payPage.shows \in {"verifying", "asking"} =>
       payPage.polls < MaxPolls /\ payPage.ref \in Ref

Paying == InFlight /\ Started /\ Announcing

IInv == TypeOK /\ NothingMovesUnpaid /\ NeverFalseSuccess /\ Paying /\ Asking

LEMMA FeePositive == \A f \in Fee : f \in Nat /\ f > 0
BY WaybillConstants

LEMMA IdleType == Idle \in Req
BY StatusIs DEF Idle, Req, Step

-------------------------------------------------------------------------------
(* Steps that leave the row alone.                                         *)

\* What is said of the row holds while the row and its timeline stay.
LEMMA RowStays ==
  ASSUME IInv, UNCHANGED <<waybill, timeline>>
  PROVE  NothingMovesUnpaid' /\ waybill' \in Waybill /\ timeline' \subseteq Status
BY DEF IInv, TypeOK, NothingMovesUnpaid

\* A new request that is not the page's.
LEMMA BeginKeeps ==
  ASSUME IInv, NEW q \in Request, NEW what \in Req, Begin(q, what),
         UNCHANGED <<waybill, timeline, payment, payPage, issues, announced>>,
         ~what.page, what.pc \in {"sendQuote", "updateStatus", "initialize", "settle"},
         what.pc \in {"sendQuote", "initialize"} => what.fee \in Fee,
         what.pc = "updateStatus" =>
           what.to = "cancelled" \/ (what.to \in Moved /\ waybill.paid > 0),
         what.pc = "settle" => what.ref \in Ref /\ payment[what.ref].state = "captured"
  PROVE  IInv'
<1>1. req' \in [Request -> Req] /\ req'[q] = what /\ \A p \in Request \ {q} : req'[p] = req[p]
  BY DEF Begin, IInv, TypeOK
<1>2. TypeOK'
  BY <1>1 DEF IInv, TypeOK
<1>3. InFlight'
  BY <1>1 DEF IInv, Paying, InFlight
<1>4. Started' /\ Announcing'
  BY <1>1 DEF IInv, Paying, Started, Announcing
<1>5. Asking' /\ NeverFalseSuccess'
  BY <1>1 DEF IInv, Asking, NeverFalseSuccess
<1> QED BY <1>2, <1>3, <1>4, <1>5, RowStays DEF IInv, Paying

LEMMA StartKeeps ==
  ASSUME IInv, NEW q \in Request, Start(q), ~PollSettles(q)
  PROVE  IInv'
<1>1. ASSUME NEW o \in Operator, NEW f \in Fee, SendQuote(q, o, f) PROVE IInv'
  <2> DEFINE what == [Idle EXCEPT !.pc = "sendQuote", !.carrier = o, !.fee = f]
  <2>1. what \in Req /\ ~what.page /\ what.pc = "sendQuote" /\ what.fee = f
    BY IdleType DEF Idle, Req, Step
  <2>2. Begin(q, what) /\ UNCHANGED <<waybill, timeline, payment, payPage, issues, announced>>
    BY <1>1 DEF SendQuote
  <2> HIDE DEF what
  <2> QED BY <2>1, <2>2, BeginKeeps
<1>2. ASSUME NEW to \in Moved \cup {"cancelled"}, UpdateWaybillStatus(q, to) PROVE IInv'
  <2> DEFINE what == [Idle EXCEPT !.pc = "updateStatus", !.to = to]
  <2>1. what \in Req /\ ~what.page /\ what.pc = "updateStatus" /\ what.to = to
    BY IdleType, StatusIs DEF Idle, Req, Step
  <2>2. Begin(q, what) /\ UNCHANGED <<waybill, timeline, payment, payPage, issues, announced>>
    BY <1>2 DEF UpdateWaybillStatus
  <2>3. to \in Moved => waybill.paid > 0
    <3> SUFFICES ASSUME to \in Moved PROVE waybill.paid > 0
      OBVIOUS
    <3>1. waybill.status \in Status /\ to \in VALID_TRANSITIONS[waybill.status]
      BY <1>2 DEF UpdateWaybillStatus, IInv, TypeOK, Waybill
    <3>2. waybill.status \in Moved \cup {"paid"}
      BY <3>1, MovedFromPaid
    <3> QED BY <3>2 DEF IInv, NothingMovesUnpaid, Moved
  <2>4. to = "cancelled" \/ (to \in Moved /\ waybill.paid > 0)
    BY <1>2, <2>3
  <2> HIDE DEF what
  <2> QED BY <2>1, <2>2, <2>4, BeginKeeps
<1>3. CASE InitiatePay(q)
  <2> DEFINE what == [Idle EXCEPT !.pc = "initialize", !.fee = waybill.fee]
  <2>1. waybill.fee \in Fee
    BY <1>3 DEF InitiatePay, IInv, TypeOK, Waybill
  <2>2. what \in Req /\ ~what.page /\ what.pc = "initialize" /\ what.fee = waybill.fee
    BY <2>1, IdleType DEF Idle, Req, Step
  <2>3. Begin(q, what) /\ UNCHANGED <<waybill, timeline, payment, payPage, issues, announced>>
    BY <1>3 DEF InitiatePay
  <2> HIDE DEF what
  <2> QED BY <2>1, <2>2, <2>3, BeginKeeps
<1>4. ASSUME NEW r \in Ref, Webhook(q, r) PROVE IInv'
  <2> DEFINE what == [Idle EXCEPT !.pc = "settle", !.ref = r]
  <2>1. what \in Req /\ ~what.page /\ what.pc = "settle" /\ what.ref = r
    BY IdleType DEF Idle, Req, Step
  <2>2. Begin(q, what) /\ UNCHANGED <<waybill, timeline, payment, payPage, issues, announced>>
        /\ payment[r].state = "captured"
    BY <1>4 DEF Webhook
  <2> HIDE DEF what
  <2> QED BY <2>1, <2>2, BeginKeeps
<1>5. CASE AdminWaybillsPage(q)
  <2>1. CASE QuoteModal(q)
    BY <1>1, <2>1 DEF QuoteModal
  <2>2. CASE StatusModal(q)
    BY <1>2, <2>2, ButtonsMove DEF StatusModal
  <2> QED BY <1>5, <2>1, <2>2 DEF AdminWaybillsPage, WaybillRow
<1>6. CASE Advance(q)
  BY <1>2, <1>6, ButtonsMove DEF Advance
<1>7. CASE AdminCancels(q)
  BY <1>2, <1>7 DEF AdminCancels
<1>8. CASE AcceptAndPay(q)
  BY <1>3, <1>8 DEF AcceptAndPay
<1> QED BY <1>4, <1>5, <1>6, <1>7, <1>8 DEF Start

\* A request that is not the page's ends without another write.
LEMMA EndKeeps ==
  ASSUME IInv, NEW q \in Request, End(q), ~req[q].page, issues' \subseteq Ref,
         UNCHANGED <<waybill, timeline, payment, payPage, announced>>
  PROVE  IInv'
<1>1. req' \in [Request -> Req] /\ req'[q] = Idle /\ \A p \in Request \ {q} : req'[p] = req[p]
  BY IdleType DEF End, IInv, TypeOK
<1>2. TypeOK'
  BY <1>1 DEF IInv, TypeOK
<1>3. InFlight'
  BY <1>1 DEF IInv, Paying, InFlight, Idle
<1>4. Started' /\ Announcing'
  BY <1>1 DEF IInv, Paying, Started, Announcing, Idle
<1>5. Asking' /\ NeverFalseSuccess'
  BY <1>1 DEF IInv, Asking, NeverFalseSuccess, Idle
<1> QED BY <1>2, <1>3, <1>4, <1>5, RowStays DEF IInv, Paying

\* ... or the page's is about to be answered.
LEMMA AnsweredKeeps ==
  ASSUME IInv, NEW q \in Request, GoTo(q, "answer"), req[q].page, issues' \subseteq Ref,
         UNCHANGED <<waybill, timeline, payment, payPage, announced>>
  PROVE  IInv'
<1>1. req' \in [Request -> Req] /\ req'[q].pc = "answer" /\ req'[q].page
      /\ \A p \in Request \ {q} : req'[p] = req[p]
  BY DEF GoTo, IInv, TypeOK, Req, Step
<1>2. TypeOK'
  BY <1>1 DEF IInv, TypeOK
<1>3. InFlight'
  BY <1>1 DEF IInv, Paying, InFlight
<1>4. Started' /\ Announcing'
  BY <1>1 DEF IInv, Paying, Started, Announcing
<1>5. Asking' /\ NeverFalseSuccess'
  BY <1>1 DEF IInv, Asking, NeverFalseSuccess
<1> QED BY <1>2, <1>3, <1>4, <1>5, RowStays DEF IInv, Paying

LEMMA LeaveKeeps ==
  ASSUME IInv, NEW q \in Request, Leave(q), issues' \subseteq Ref,
         UNCHANGED <<waybill, timeline, payment, payPage, announced>>
  PROVE  IInv'
BY EndKeeps, AnsweredKeeps DEF Leave
-------------------------------------------------------------------------------
(* Steps that write the row or Paystack's transactions.                     *)

\* A write of the service: the payment stays, and only a paid parcel is moved.
LEMMA WriteKeeps ==
  ASSUME IInv, NEW q \in Request, WriteQuote(q) \/ WriteStatus(q)
  PROVE  IInv'
<1>1. /\ req' \in [Request -> Req] /\ req'[q] = Idle /\ \A p \in Request \ {q} : req'[p] = req[p]
      /\ UNCHANGED <<payment, payPage, issues, announced>>
  BY IdleType DEF WriteQuote, WriteStatus, End, IInv, TypeOK
<1>2. PICK s \in Status : /\ waybill'.status = s /\ timeline' = timeline \cup {s}
                          /\ waybill'.paid = waybill.paid /\ waybill' \in Waybill
                          /\ s \in Moved => waybill.paid > 0
                          /\ s \in Moved \cup {"cancelled", "quote_sent"}
  <2>1. CASE WriteQuote(q)
    <3>1. req[q].fee \in Fee \cup {0} /\ req[q].carrier \in Operator \cup {NoOne}
      BY DEF IInv, TypeOK, Req
    <3>2. /\ waybill'.status = "quote_sent" /\ timeline' = timeline \cup {"quote_sent"}
          /\ waybill'.paid = waybill.paid
      BY <2>1 DEF WriteQuote, IInv, TypeOK, Waybill
    <3>3. waybill' \in Waybill
      BY <2>1, <3>1, StatusIs DEF WriteQuote, IInv, TypeOK, Waybill
    <3> QED BY <3>2, <3>3, StatusIs DEF Moved
  <2>2. CASE WriteStatus(q)
    <3>1. req[q].to \in Status /\ (req[q].to = "cancelled" \/ (req[q].to \in Moved /\ waybill.paid > 0))
      BY <2>2 DEF WriteStatus, IInv, TypeOK, Req, Paying, InFlight
    <3>2. /\ waybill'.status = req[q].to /\ timeline' = timeline \cup {req[q].to}
          /\ waybill'.paid = waybill.paid
      BY <2>2 DEF WriteStatus, IInv, TypeOK, Waybill
    <3>3. waybill' \in Waybill
      BY <2>2, <3>1 DEF WriteStatus, IInv, TypeOK, Waybill
    <3> QED BY <3>1, <3>2, <3>3 DEF Moved
  <2> QED BY <2>1, <2>2
<1>3. TypeOK'
  BY <1>1, <1>2 DEF IInv, TypeOK
<1>4. NothingMovesUnpaid'
  BY <1>2 DEF IInv, NothingMovesUnpaid, Moved
<1>5. InFlight'
  BY <1>1, <1>2 DEF IInv, Paying, InFlight, Idle
<1>6. Started' /\ Announcing'
  BY <1>1, <1>2 DEF IInv, Paying, Started, Announcing, Idle
<1>7. Asking' /\ NeverFalseSuccess'
  BY <1>1, <1>2 DEF IInv, Asking, NeverFalseSuccess, Idle
<1> QED BY <1>3, <1>4, <1>5, <1>6, <1>7 DEF IInv, Paying

LEMMA SubmitKeeps ==
  ASSUME IInv, Submit
  PROVE  IInv'
<1>1. /\ waybill'.status = "pending" /\ waybill'.paid = waybill.paid
      /\ timeline' = {"pending"} /\ UNCHANGED <<payment, req, payPage, issues, announced>>
  BY DEF Submit, CreateWaybill, IInv, TypeOK, Waybill
<1>2. waybill' \in Waybill
  BY StatusIs DEF Submit, CreateWaybill, IInv, TypeOK, Waybill
<1>3. TypeOK'
  BY <1>1, <1>2, StatusIs DEF IInv, TypeOK
<1>4. NothingMovesUnpaid'
  BY <1>1 DEF NothingMovesUnpaid
<1>5. InFlight' /\ Started' /\ Announcing'
  BY <1>1 DEF IInv, Paying, InFlight, Started, Announcing
<1>6. Asking' /\ NeverFalseSuccess'
  BY <1>1 DEF IInv, Asking, NeverFalseSuccess
<1> QED BY <1>3, <1>4, <1>5, <1>6 DEF IInv, Paying

\* Paystack's transaction is started with a fresh reference.
LEMMA InitializeKeeps ==
  ASSUME IInv, NEW q \in Request, NEW r \in Ref, InitializeWaybillPayment(q, r)
  PROVE  IInv'
<1>1. /\ req[q].pc = "initialize" /\ req[q].fee \in Fee /\ payment[r].state = "none"
      /\ payment' = [payment EXCEPT ![r] = [state |-> "started", amount |-> req[q].fee]]
      /\ req' = [req EXCEPT ![q].pc = "setPaymentRef", ![q].ref = r]
      /\ UNCHANGED <<waybill, timeline, payPage, issues, announced>>
  BY DEF InitializeWaybillPayment, IInv, Paying, InFlight
<1>2. req' \in [Request -> Req]
  <2>1. [req[q] EXCEPT !.pc = "setPaymentRef", !.ref = r] \in Req
    BY DEF IInv, TypeOK, Req, Step
  <2>2. req' = [req EXCEPT ![q] = [req[q] EXCEPT !.pc = "setPaymentRef", !.ref = r]]
    BY <1>1 DEF IInv, TypeOK
  <2> QED BY <2>1, <2>2 DEF IInv, TypeOK
<1>3. payment' \in [Ref -> Payment]
  BY <1>1 DEF IInv, TypeOK, Payment
<1>4. TypeOK'
  BY <1>1, <1>2, <1>3 DEF IInv, TypeOK
<1>5. InFlight'
  BY <1>1 DEF IInv, TypeOK, Payment, Req, Paying, InFlight
<1>6. Started'
  BY <1>1 DEF IInv, TypeOK, Payment, Req, Paying, InFlight, Started
<1>7. Announcing'
  BY <1>1 DEF IInv, TypeOK, Req, Paying, Announcing
<1>8. Asking' /\ NeverFalseSuccess'
  BY <1>1 DEF IInv, TypeOK, Req, Asking, NeverFalseSuccess
<1> QED BY <1>1, <1>4, <1>5, <1>6, <1>7, <1>8, RowStays DEF IInv, Paying

LEMMA SetPaymentRefKeeps ==
  ASSUME IInv, NEW q \in Request, SetPaymentRef(q)
  PROVE  IInv'
<1> DEFINE r == req[q].ref
<1>1. /\ req[q].pc = "setPaymentRef" /\ r \in Ref /\ payment[r].state = "started"
      /\ payment' = [payment EXCEPT ![r].state = "offered"]
      /\ waybill' = [waybill EXCEPT !.paymentRef = r]
      /\ UNCHANGED <<timeline, payPage, issues, announced>>
  BY DEF SetPaymentRef, IInv, Paying, InFlight
<1>2. /\ req' \in [Request -> Req] /\ req'[q] = Idle /\ \A p \in Request \ {q} : req'[p] = req[p]
  BY IdleType DEF SetPaymentRef, End, IInv, TypeOK
<1>3. /\ waybill' \in Waybill /\ waybill'.status = waybill.status /\ waybill'.paid = waybill.paid
      /\ payment' \in [Ref -> Payment]
  BY <1>1 DEF IInv, TypeOK, Waybill, Payment
<1>4. \A p \in Request : p # q /\ req[p].pc = "setPaymentRef" => req[p].ref # r
  BY <1>1 DEF IInv, Paying, Started
<1>5. TypeOK'
  BY <1>1, <1>2, <1>3 DEF IInv, TypeOK
<1>6. NothingMovesUnpaid'
  BY <1>1, <1>3 DEF IInv, NothingMovesUnpaid
<1>7. InFlight'
  BY <1>1, <1>2, <1>3, <1>4 DEF IInv, TypeOK, Payment, Paying, InFlight, Idle
<1>8. Started'
  <2>1. \A x \in Ref : /\ payment'[x].amount = payment[x].amount
                       /\ payment'[x].state # "none" => payment[x].state # "none"
    BY <1>1 DEF IInv, TypeOK, Payment
  <2>2. \A p \in Request : req'[p].pc = "setPaymentRef" => p # q /\ req'[p] = req[p]
    BY <1>2 DEF Idle
  <2>3. Started
    BY DEF IInv, Paying
  <2> QED BY <2>1, <2>2, <2>3 DEF Started
<1>9. Announcing'
  BY <1>1, <1>2, <1>3 DEF IInv, Paying, Announcing, Idle
<1>10. Asking' /\ NeverFalseSuccess'
  BY <1>1, <1>2, <1>3 DEF IInv, Asking, NeverFalseSuccess, Idle
<1> QED BY <1>5, <1>6, <1>7, <1>8, <1>9, <1>10 DEF IInv, Paying

LEMMA CaptureKeeps ==
  ASSUME IInv, NEW r \in Ref, Capture(r)
  PROVE  IInv'
<1>1. /\ payment[r].state = "offered" /\ payment' = [payment EXCEPT ![r].state = "captured"]
      /\ UNCHANGED <<waybill, timeline, req, payPage, issues, announced>>
  BY DEF Capture
<1>2. TypeOK'
  BY <1>1 DEF IInv, TypeOK, Payment
<1>3. InFlight' /\ Started'
  BY <1>1 DEF IInv, TypeOK, Payment, Paying, InFlight, Started
<1>4. Announcing' /\ Asking' /\ NeverFalseSuccess'
  BY <1>1 DEF IInv, Paying, Announcing, Asking, NeverFalseSuccess
<1> QED BY <1>1, <1>2, <1>3, <1>4, RowStays DEF IInv, Paying

\* A settlement goes on to confirmPayment with the amount that was captured.
LEMMA SettleKeeps ==
  ASSUME IInv, NEW q \in Request, HandlePaymentConfirmed(q)
  PROVE  IInv'
<1>1. CASE Leave(q)
  <2>1. issues' \subseteq Ref
    BY DEF HandlePaymentConfirmed, IInv, TypeOK, Paying, InFlight
  <2> QED BY <1>1, <2>1, LeaveKeeps DEF HandlePaymentConfirmed
<1>2. CASE ~Leave(q)
  <2>1. /\ req' = [req EXCEPT ![q].pc = "confirm", ![q].fee = waybill.fee]
        /\ payment[req[q].ref].amount = waybill.fee /\ req[q].pc = "settle"
        /\ UNCHANGED <<waybill, timeline, payment, payPage, issues, announced>>
    BY <1>2 DEF HandlePaymentConfirmed
  <2>2. waybill.fee \in Fee \cup {0}
    BY DEF IInv, TypeOK, Waybill
  <2>3. TypeOK'
    <3>1. [req[q] EXCEPT !.pc = "confirm", !.fee = waybill.fee] \in Req
      BY <2>2 DEF IInv, TypeOK, Req, Step
    <3>2. req' = [req EXCEPT ![q] = [req[q] EXCEPT !.pc = "confirm", !.fee = waybill.fee]]
      BY <2>1 DEF IInv, TypeOK
    <3>3. req' \in [Request -> Req]
      BY <3>1, <3>2 DEF IInv, TypeOK
    <3> QED BY <2>1, <3>3 DEF IInv, TypeOK
  <2>4. InFlight' /\ Started' /\ Announcing'
    BY <2>1 DEF IInv, TypeOK, Req, Paying, InFlight, Started, Announcing
  <2>5. Asking' /\ NeverFalseSuccess'
    BY <2>1 DEF IInv, TypeOK, Req, Asking, NeverFalseSuccess
  <2> QED BY <2>1, <2>3, <2>4, <2>5, RowStays DEF IInv, Paying
<1> QED BY <1>1, <1>2

\* Only an unpaid waybill is paid, so nobody else is about to announce.
LEMMA ConfirmKeeps ==
  ASSUME IInv, NEW q \in Request, ConfirmPayment(q)
  PROVE  IInv'
<1>1. CASE Payable
  <2>1. req[q].fee \in Fee /\ req[q].fee > 0 /\ req[q].pc = "confirm"
    BY FeePositive DEF ConfirmPayment, IInv, Paying, InFlight, Started
  <2>2. /\ waybill' = [waybill EXCEPT !.status = "paid", !.paid = req[q].fee]
        /\ req' = [req EXCEPT ![q].pc = "paidEvent"]
        /\ UNCHANGED <<timeline, payment, payPage, issues, announced>>
    BY <1>1 DEF ConfirmPayment, GoTo
  <2>3. waybill' \in Waybill /\ waybill'.status = "paid" /\ waybill'.paid > 0
    BY <2>1, <2>2, StatusIs DEF IInv, TypeOK, Waybill
  <2>4. waybill.paid = 0 /\ announced = 0 /\ \A p \in Request : req[p].pc \notin {"paidEvent", "emit"}
    BY <1>1 DEF Payable, IInv, TypeOK, Paying, Announcing
  <2>5. TypeOK'
    BY <2>2, <2>3 DEF IInv, TypeOK, Req, Step
  <2>6. NothingMovesUnpaid' /\ NeverFalseSuccess'
    BY <2>3 DEF NothingMovesUnpaid, NeverFalseSuccess
  <2>7. InFlight' /\ Started' /\ Announcing'
    BY <2>2, <2>3, <2>4 DEF IInv, TypeOK, Req, Paying, InFlight, Started, Announcing
  <2>8. Asking'
    BY <2>1, <2>2 DEF IInv, TypeOK, Req, Asking
  <2> QED BY <2>5, <2>6, <2>7, <2>8 DEF IInv, Paying
<1>2. CASE ~Payable
  BY <1>2, LeaveKeeps DEF ConfirmPayment, IInv, TypeOK
<1> QED BY <1>1, <1>2

LEMMA PaidEventKeeps ==
  ASSUME IInv, NEW q \in Request, PaidEvent(q)
  PROVE  IInv'
<1>1. /\ req[q].pc = "paidEvent" /\ timeline' = timeline \cup {"paid"}
      /\ req' = [req EXCEPT ![q].pc = "emit"]
      /\ UNCHANGED <<waybill, payment, payPage, issues, announced>>
  BY DEF PaidEvent, GoTo
<1>2. TypeOK'
  BY <1>1, StatusIs DEF IInv, TypeOK, Req, Step
<1>3. NothingMovesUnpaid' /\ NeverFalseSuccess'
  BY <1>1 DEF IInv, NothingMovesUnpaid, NeverFalseSuccess
<1>4. InFlight' /\ Started' /\ Announcing'
  BY <1>1 DEF IInv, TypeOK, Req, Paying, InFlight, Started, Announcing
<1>5. Asking'
  BY <1>1 DEF IInv, TypeOK, Req, Asking
<1> QED BY <1>2, <1>3, <1>4, <1>5 DEF IInv, Paying

LEMMA EmitKeeps ==
  ASSUME IInv, NEW q \in Request, EmitPaid(q)
  PROVE  IInv'
<1>1. /\ req[q].pc = "emit" /\ announced' = announced + 1 /\ announced = 0 /\ waybill.paid > 0
      /\ \A p \in Request \ {q} : req[p].pc \notin {"paidEvent", "emit"}
      /\ UNCHANGED <<waybill, timeline, payment, payPage, issues>>
  BY DEF EmitPaid, IInv, Paying, Announcing
<1>2. /\ req' \in [Request -> Req] /\ \A p \in Request \ {q} : req'[p] = req[p]
      /\ req'[q].pc \in {"idle", "answer"} /\ (req'[q].pc = "answer" => req'[q].page)
      /\ req'[q].page => req[q].page
  <2>1. CASE End(q)
    BY <2>1, IdleType DEF End, IInv, TypeOK, Idle
  <2>2. CASE req[q].page /\ GoTo(q, "answer")
    BY <2>2 DEF GoTo, IInv, TypeOK, Req, Step
  <2> QED BY <2>1, <2>2 DEF EmitPaid, Leave
<1>3. TypeOK'
  BY <1>1, <1>2 DEF IInv, TypeOK
<1>4. InFlight' /\ Started' /\ Announcing'
  BY <1>1, <1>2 DEF IInv, Paying, InFlight, Started, Announcing
<1>5. Asking' /\ NeverFalseSuccess'
  BY <1>1, <1>2 DEF IInv, Asking, NeverFalseSuccess
<1> QED BY <1>1, <1>3, <1>4, <1>5, RowStays DEF IInv, Paying

-------------------------------------------------------------------------------
(* Steps of the pay-success page.                                          *)

\* See gives up at the last poll, and may show success for a paid waybill only.
LEMMA SeeTells ==
  ASSUME IInv, NEW answer, See(answer), payPage.shows \in {"verifying", "asking"},
         answer = "success" => waybill.paid > 0
  PROVE  /\ payPage' \in PayPage
         /\ payPage'.shows = "success" => waybill.paid > 0
         /\ payPage'.shows # "asking"
         /\ payPage'.shows = "verifying" => payPage'.polls < MaxPolls /\ payPage'.ref \in Ref
<1> DEFINE shown == IF answer \in {"success", "failed"} THEN answer
                    ELSE IF payPage.polls + 1 = MaxPolls THEN "pending" ELSE "verifying"
<1>1. payPage.ref \in Ref /\ payPage.polls \in 0..MaxPolls /\ payPage.polls < MaxPolls
      /\ MaxPolls \in Nat
  BY WaybillConstants DEF IInv, TypeOK, PayPage, Asking
<1>2. payPage' = [payPage EXCEPT !.polls = payPage.polls + 1, !.shows = shown]
  BY DEF See
<1>3. shown \in {"success", "failed", "pending", "verifying"}
  OBVIOUS
<1>4. payPage.polls + 1 \in 0..MaxPolls
  BY <1>1
<1>5. payPage' \in PayPage /\ payPage'.shows = shown /\ payPage'.polls = payPage.polls + 1
      /\ payPage'.ref = payPage.ref
  <2> HIDE DEF shown
  <2> QED BY <1>1, <1>2, <1>3, <1>4 DEF IInv, TypeOK, PayPage
<1>6. shown = "verifying" => payPage.polls + 1 # MaxPolls
  OBVIOUS
<1>7. shown = "success" => answer = "success"
  OBVIOUS
<1> HIDE DEF shown
<1> QED BY <1>1, <1>3, <1>5, <1>6, <1>7

\* verifyPayment answers success without settling only for a paid waybill.
LEMMA PollKeeps ==
  ASSUME IInv, Poll
  PROVE  IInv'
<1>1. PICK a \in VerifyAnswers \cup {"error"} : See(a)
  BY DEF Poll
<1>2. a = "success" => waybill.paid > 0
  BY <1>1 DEF VerifyAnswers
<1>3. payPage.shows = "verifying" /\ UNCHANGED <<waybill, timeline, payment, req, issues, announced>>
  BY DEF Poll
<1>4. /\ payPage' \in PayPage /\ (payPage'.shows = "success" => waybill.paid > 0)
      /\ payPage'.shows # "asking"
      /\ payPage'.shows = "verifying" => payPage'.polls < MaxPolls /\ payPage'.ref \in Ref
  BY <1>1, <1>2, <1>3, SeeTells
<1>5. TypeOK' /\ NeverFalseSuccess'
  BY <1>3, <1>4 DEF IInv, TypeOK, NeverFalseSuccess
<1>6. InFlight' /\ Started' /\ Announcing'
  BY <1>3 DEF IInv, Paying, InFlight, Started, Announcing
<1>7. Asking'
  BY <1>3, <1>4 DEF IInv, Asking
<1> QED BY <1>3, <1>5, <1>6, <1>7, RowStays DEF IInv, Paying

LEMMA PollSettlesKeeps ==
  ASSUME IInv, NEW q \in Request, PollSettles(q)
  PROVE  IInv'
<1> DEFINE what == [Idle EXCEPT !.pc = "settle", !.ref = payPage.ref, !.page = TRUE]
<1>1. payPage.ref \in Ref /\ payment[payPage.ref].state = "captured"
  BY DEF PollSettles, IInv, Asking
<1>2. what \in Req /\ what.page /\ what.pc = "settle" /\ what.ref = payPage.ref
  BY <1>1, IdleType DEF Idle, Req, Step
<1>3. /\ req' = [req EXCEPT ![q] = what] /\ payPage' = [payPage EXCEPT !.shows = "asking"]
      /\ payPage.shows = "verifying" /\ UNCHANGED <<waybill, timeline, payment, issues, announced>>
  BY DEF PollSettles, Begin
<1> HIDE DEF what
<1>4. /\ req' \in [Request -> Req] /\ req'[q] = what /\ \A p \in Request \ {q} : req'[p] = req[p]
  BY <1>2, <1>3 DEF IInv, TypeOK
<1>5. payPage' \in PayPage /\ payPage'.shows = "asking" /\ payPage'.polls = payPage.polls
      /\ payPage'.ref = payPage.ref
  BY <1>3 DEF IInv, TypeOK, PayPage
<1>6. TypeOK' /\ NeverFalseSuccess'
  BY <1>3, <1>4, <1>5 DEF IInv, TypeOK, NeverFalseSuccess
<1>7. InFlight' /\ Started' /\ Announcing'
  BY <1>1, <1>2, <1>3, <1>4 DEF IInv, Paying, InFlight, Started, Announcing
<1>8. \A p \in Request : ~req[p].page
  BY <1>3 DEF IInv, Asking
<1>9. Asking'
  BY <1>2, <1>3, <1>4, <1>5, <1>8 DEF IInv, Asking
<1> QED BY <1>3, <1>6, <1>7, <1>9, RowStays DEF IInv, Paying

\* The page's request ends with an answer.
LEMMA AnswerKeeps ==
  ASSUME IInv, NEW q \in Request, req[q].page, NEW answer, See(answer), End(q),
         answer = "success" => waybill.paid > 0,
         UNCHANGED <<waybill, timeline, payment, issues, announced>>
  PROVE  IInv'
<1>1. req' \in [Request -> Req] /\ req'[q] = Idle /\ \A p \in Request \ {q} : req'[p] = req[p]
  BY IdleType DEF End, IInv, TypeOK
<1>2. payPage.shows = "asking" /\ \A p \in Request \ {q} : ~req[p].page
  BY DEF IInv, Asking
<1>3. /\ payPage' \in PayPage /\ (payPage'.shows = "success" => waybill.paid > 0)
      /\ payPage'.shows # "asking"
      /\ payPage'.shows = "verifying" => payPage'.polls < MaxPolls /\ payPage'.ref \in Ref
  BY <1>2, SeeTells
<1>4. TypeOK' /\ NeverFalseSuccess'
  BY <1>1, <1>3 DEF IInv, TypeOK, NeverFalseSuccess
<1>5. InFlight'
  BY <1>1 DEF IInv, Paying, InFlight, Idle
<1>6. Started' /\ Announcing'
  BY <1>1 DEF IInv, Paying, Started, Announcing, Idle
<1>7. \A p \in Request : ~req'[p].page /\ req'[p].pc # "answer"
  BY <1>1, <1>2 DEF Idle, IInv, Asking
<1>8. Asking'
  BY <1>3, <1>7 DEF Asking
<1> QED BY <1>4, <1>5, <1>6, <1>8, RowStays DEF IInv, Paying

LEMMA ReturnKeeps ==
  ASSUME IInv, NEW r \in Ref, Return(r)
  PROVE  IInv'
<1>1. /\ payPage.shows # "asking" /\ payPage' = [ref |-> r, polls |-> 0, shows |-> "verifying"]
      /\ UNCHANGED <<waybill, timeline, payment, req, issues, announced>>
  BY DEF Return
<1>2. payPage' \in PayPage /\ 0 < MaxPolls
  BY <1>1, WaybillConstants DEF PayPage
<1>3. TypeOK' /\ NeverFalseSuccess'
  BY <1>1, <1>2 DEF IInv, TypeOK, NeverFalseSuccess
<1>4. InFlight' /\ Started' /\ Announcing'
  BY <1>1 DEF IInv, Paying, InFlight, Started, Announcing
<1>5. Asking'
  BY <1>1, <1>2 DEF IInv, Asking
<1> QED BY <1>1, <1>3, <1>4, <1>5, RowStays DEF IInv, Paying

-------------------------------------------------------------------------------
(* The invariant, and what it gives.                                       *)

LEMMA InitInv ==
  ASSUME Init
  PROVE  IInv
<1>1. TypeOK
  <2>1. waybill \in Waybill /\ timeline \subseteq Status /\ payment \in [Ref -> Payment]
    BY StatusIs DEF Init, Waybill, Payment
  <2>2. req \in [Request -> Req]
    BY IdleType DEF Init
  <2>3. payPage \in PayPage
    BY WaybillConstants DEF Init, PayPage
  <2> QED BY <2>1, <2>2, <2>3 DEF Init, TypeOK
<1>2. NothingMovesUnpaid /\ NeverFalseSuccess
  BY DEF Init, NothingMovesUnpaid, NeverFalseSuccess
<1>3. Paying /\ Asking
  BY DEF Init, Paying, InFlight, Started, Announcing, Asking, Idle
<1> QED BY <1>1, <1>2, <1>3 DEF IInv

LEMMA NextInv ==
  ASSUME IInv, [Next]_vars
  PROVE  IInv'
<1>1. ASSUME NEW q \in Request, Start(q) PROVE IInv'
  BY <1>1, StartKeeps, PollSettlesKeeps
<1>2. ASSUME NEW q \in Request, GoOn(q) PROVE IInv'
  <2>1. CASE Answer(q)
    <3>1. req[q].page
      BY <2>1 DEF Answer, IInv, Asking
    <3>2. CASE waybill.paid > 0
      BY <2>1, <3>1, <3>2, AnswerKeeps DEF Answer
    <3>3. CASE ~(waybill.paid > 0)
      BY <2>1, <3>1, <3>3, AnswerKeeps DEF Answer
    <3> QED BY <3>2, <3>3
  <2> QED BY <1>2, <2>1, WriteKeeps, SetPaymentRefKeeps, InitializeKeeps, SettleKeeps,
             ConfirmKeeps, PaidEventKeeps, EmitKeeps DEF GoOn
<1>3. ASSUME NEW q \in Request, Fail(q) PROVE IInv'
  <2>1. CASE req[q].page
    BY <1>3, <2>1, AnswerKeeps DEF Fail
  <2>2. CASE ~req[q].page
    BY <1>3, <2>2, EndKeeps DEF Fail, IInv, TypeOK
  <2> QED BY <2>1, <2>2
<1>4. CASE UNCHANGED vars
  <2>1. UNCHANGED <<waybill, timeline, payment, req, payPage, issues, announced>>
    BY <1>4 DEF vars
  <2>2. TypeOK' /\ NothingMovesUnpaid' /\ NeverFalseSuccess'
    BY <2>1 DEF IInv, TypeOK, NothingMovesUnpaid, NeverFalseSuccess
  <2>3. Paying' /\ Asking'
    BY <2>1 DEF IInv, Paying, InFlight, Started, Announcing, Asking
  <2> QED BY <2>2, <2>3 DEF IInv
<1> QED BY <1>1, <1>2, <1>3, <1>4, SubmitKeeps, PollKeeps, CaptureKeeps, ReturnKeeps DEF Next

\* Every reachable state satisfies the inductive invariant.
THEOREM WaybillInductive == Spec => []IInv
<1>1. Init => IInv
  BY InitInv
<1>2. IInv /\ [Next]_vars => IInv'
  BY NextInv
<1> QED BY <1>1, <1>2, PTL DEF Spec

\* Every variable keeps its type, for any number of requests, references, fees
\* and polls.
THEOREM WaybillTypes == Spec => []TypeOK
BY WaybillInductive, PTL DEF IInv

\* However stale the page and the check behind a write, no parcel is dropped
\* off, moved or delivered before its payment was recorded.
THEOREM OnlyPaidMoves == Spec => []NothingMovesUnpaid
BY WaybillInductive, PTL DEF IInv

\* The pay-success page shows success for a paid waybill only.
THEOREM PageTellsTheTruth == Spec => []NeverFalseSuccess
BY WaybillInductive, PTL DEF IInv

-------------------------------------------------------------------------------
(* The refinement.                                                         *)

OnceStep == [Once!OnceNext]_(Once!onceVars)

\* A step that leaves what Paystack has captured, the payment and the event
\* count alone does not show.
LEMMA NoOnceStep ==
  ASSUME \A r \in Ref : payment'[r].state = "captured" <=> payment[r].state = "captured",
         \A r \in Ref : payment[r].state = "captured" => payment'[r].amount = payment[r].amount,
         waybill'.paid = waybill.paid, UNCHANGED announced
  PROVE  OnceStep
<1>1. {x \in Ref : payment'[x].state = "captured"} = {x \in Ref : payment[x].state = "captured"}
  OBVIOUS
<1>2. {payment'[r].amount : r \in {x \in Ref : payment'[x].state = "captured"}}
      = {payment[r].amount : r \in {x \in Ref : payment[x].state = "captured"}}
  BY <1>1
<1> QED BY <1>2 DEF OnceStep, Once!onceVars

LEMMA CaptureStep ==
  ASSUME IInv, NEW r \in Ref, Capture(r)
  PROVE  OnceStep
<1> DEFINE C == {x \in Ref : payment[x].state = "captured"}
<1>1. PICK a \in Fee : a = payment[r].amount
  BY DEF IInv, Paying, Started, Capture
<1>2. C' = C \cup {r} /\ \A x \in C' : payment'[x].amount = payment[x].amount
  BY DEF Capture, IInv, TypeOK, Payment
<1>3. {payment'[x].amount : x \in C'} = {payment[x].amount : x \in C} \cup {a}
  BY <1>1, <1>2
<1>4. Once!Charge(a)
  BY <1>3 DEF Once!Charge, Capture
<1> QED BY <1>4 DEF OnceStep, Once!OnceNext

LEMMA ConfirmStep ==
  ASSUME IInv, NEW q \in Request, ConfirmPayment(q)
  PROVE  OnceStep
<1>1. CASE ~Payable
  BY <1>1, NoOnceStep DEF ConfirmPayment
<1>2. CASE Payable
  <2>1. PICK a \in Fee : a = req[q].fee
    BY DEF IInv, Paying, InFlight, Started, ConfirmPayment
  <2>2. a \in {payment[r].amount : r \in {x \in Ref : payment[x].state = "captured"}}
    BY <2>1 DEF IInv, Paying, InFlight, ConfirmPayment
  <2>3. waybill'.paid = a /\ waybill.paid = 0 /\ UNCHANGED <<payment, announced>>
    BY <1>2, <2>1 DEF ConfirmPayment, Payable, IInv, TypeOK, Waybill
  <2>4. Once!Take(a)
    BY <2>2, <2>3 DEF Once!Take
  <2> QED BY <2>4 DEF OnceStep, Once!OnceNext
<1> QED BY <1>1, <1>2

LEMMA EmitStep ==
  ASSUME IInv, NEW q \in Request, EmitPaid(q)
  PROVE  OnceStep
<1>1. Once!Tell
  BY DEF Once!Tell, EmitPaid, IInv, Paying, Announcing
<1> QED BY <1>1 DEF OnceStep, Once!OnceNext

LEMMA WriteStep ==
  ASSUME IInv, NEW q \in Request, WriteQuote(q) \/ WriteStatus(q) \/ SetPaymentRef(q)
  PROVE  OnceStep
<1>1. waybill'.paid = waybill.paid /\ UNCHANGED announced
  BY DEF WriteQuote, WriteStatus, SetPaymentRef, IInv, TypeOK, Waybill
<1>2. CASE UNCHANGED payment
  BY <1>1, <1>2, NoOnceStep
<1>3. CASE SetPaymentRef(q)
  <2>1. req[q].ref \in Ref /\ payment[req[q].ref].state = "started"
    BY <1>3 DEF SetPaymentRef, IInv, Paying, InFlight
  <2> QED BY <1>1, <1>3, <2>1, NoOnceStep DEF SetPaymentRef, IInv, TypeOK, Payment
<1> QED BY <1>2, <1>3 DEF WriteQuote, WriteStatus

\* Whatever stale writes, repeated webhooks, polls and crashes do to the
\* waybill, one captured fee is recorded as paid, once, and waybill.paid is
\* emitted at most once, after that.
THEOREM WaybillPaidOnce == Spec => ImplementsOnce
<1>1. Init => Once!OnceInit
  BY DEF Init, Once!OnceInit
<1>2. IInv /\ [Next]_vars => OnceStep
  <2> SUFFICES ASSUME IInv, [Next]_vars PROVE OnceStep
    OBVIOUS
  <2>1. CASE UNCHANGED <<waybill, payment, announced>>
    BY <2>1, NoOnceStep
  <2>2. CASE Submit
    BY <2>2, NoOnceStep DEF Submit, CreateWaybill, IInv, TypeOK, Waybill
  <2>3. ASSUME NEW q \in Request, NEW r \in Ref, InitializeWaybillPayment(q, r) PROVE OnceStep
    BY <2>3, NoOnceStep DEF InitializeWaybillPayment, IInv, TypeOK, Payment
  <2>4. ASSUME NEW q \in Request, Start(q) PROVE UNCHANGED <<waybill, payment, announced>>
    BY <2>4 DEF Start, AdminWaybillsPage, WaybillRow, QuoteModal, SendQuote, StatusModal,
       Advance, AdminCancels, UpdateWaybillStatus, AcceptAndPay, InitiatePay, PollSettles, Webhook
  <2>5. ASSUME NEW q \in Request, GoOn(q) PROVE OnceStep
    BY <2>1, <2>3, <2>5, ConfirmStep, EmitStep, WriteStep
       DEF GoOn, HandlePaymentConfirmed, PaidEvent, Answer
  <2> QED BY <2>1, <2>2, <2>4, <2>5, CaptureStep DEF Next, Poll, Return, Fail, vars
<1> QED BY <1>1, <1>2, WaybillInductive, PTL DEF Spec, ImplementsOnce, Once!OnceSpec, OnceStep

-------------------------------------------------------------------------------
(* The pay-success page implements PaymentPoll.                            *)

PollStep == [Verdict!PollNext]_(Verdict!pollVars)

\* The amount taken is never taken back: a stale write leaves it, and
\* confirmPayment writes it only where there is none.
LEMMA PaidStays ==
  ASSUME IInv, [Next]_vars, waybill.paid > 0
  PROVE  waybill'.paid = waybill.paid
<1>1. CASE UNCHANGED waybill
  BY <1>1
<1>2. ASSUME NEW q \in Request, WriteQuote(q) \/ WriteStatus(q) \/ SetPaymentRef(q)
      PROVE  waybill'.paid = waybill.paid
  BY <1>2 DEF WriteQuote, WriteStatus, SetPaymentRef, IInv, TypeOK, Waybill
<1>3. ASSUME NEW q \in Request, ConfirmPayment(q) PROVE waybill'.paid = waybill.paid
  <2>1. ~Payable
    BY DEF Payable
  <2> QED BY <1>3, <2>1 DEF ConfirmPayment
<1>4. CASE Submit
  BY <1>4 DEF Submit, CreateWaybill, IInv, TypeOK, Waybill
<1>5. ASSUME NEW q \in Request, Start(q) \/ Fail(q) PROVE UNCHANGED waybill
  BY <1>5 DEF Start, Fail, AdminWaybillsPage, WaybillRow, QuoteModal, SendQuote, StatusModal,
     Advance, AdminCancels, UpdateWaybillStatus, AcceptAndPay, InitiatePay, PollSettles, Webhook
<1>6. ASSUME NEW q \in Request, GoOn(q) PROVE waybill'.paid = waybill.paid
  BY <1>1, <1>2, <1>3, <1>6
     DEF GoOn, InitializeWaybillPayment, HandlePaymentConfirmed, PaidEvent, EmitPaid, Answer
<1> QED BY <1>1, <1>4, <1>5, <1>6 DEF Next, Poll, Capture, Return, vars

\* While the page rests, a payment may be recorded, but never taken back.
LEMMA RestStep ==
  ASSUME waybill.paid > 0 => waybill'.paid > 0,
         payPage'.polls = payPage.polls, PollShows' = PollShows
  PROVE  PollStep
<1>1. CASE (waybill'.paid > 0) <=> (waybill.paid > 0)
  BY <1>1 DEF PollStep, Verdict!pollVars
<1>2. CASE ~(waybill.paid > 0) /\ waybill'.paid > 0
  BY <1>2 DEF PollStep, Verdict!PollNext, Verdict!Record
<1> QED BY <1>1, <1>2

\* An answer, or the failure of a call, while the page verifies or asks.
LEMMA SeeStep ==
  ASSUME IInv, NEW answer, See(answer), payPage.shows \in {"verifying", "asking"},
         answer = "success" => waybill.paid > 0, UNCHANGED waybill
  PROVE  PollStep
<1>1. payPage.polls \in Nat /\ payPage.polls < MaxPolls /\ MaxPolls \in Nat
  BY WaybillConstants DEF IInv, TypeOK, PayPage, Asking
<1>2. PollShows = "polling" /\ payPage \in PayPage
  BY DEF PollShows, IInv, TypeOK
<1>3. payPage'.polls = payPage.polls + 1
  BY <1>2 DEF See, PayPage
<1>4. CASE answer \in {"success", "failed"}
  <2>1. PollShows' = answer
    BY <1>2, <1>4 DEF See, PayPage, PollShows
  <2>2. Verdict!Decide(answer)
    BY <1>1, <1>2, <1>3, <2>1 DEF Verdict!Decide
  <2> QED BY <1>4, <2>2 DEF PollStep, Verdict!PollNext, Verdict!Decided
<1>5. CASE answer \notin {"success", "failed"} /\ payPage.polls + 1 = MaxPolls
  <2>1. PollShows' = "gaveUp"
    BY <1>2, <1>5 DEF See, PayPage, PollShows
  <2>2. Verdict!GiveUp
    BY <1>2, <1>3, <1>5, <2>1 DEF Verdict!GiveUp
  <2> QED BY <2>2 DEF PollStep, Verdict!PollNext
<1>6. CASE answer \notin {"success", "failed"} /\ payPage.polls + 1 # MaxPolls
  <2>1. PollShows' = "polling"
    BY <1>2, <1>6 DEF See, PayPage, PollShows
  <2>2. payPage.polls + 1 < MaxPolls
    BY <1>1, <1>6
  <2>3. Verdict!AskAgain
    BY <1>2, <1>3, <2>1, <2>2 DEF Verdict!AskAgain
  <2> QED BY <2>3 DEF PollStep, Verdict!PollNext
<1> QED BY <1>4, <1>5, <1>6

LEMMA StepPolls ==
  ASSUME IInv, [Next]_vars
  PROVE  PollStep
<1>1. waybill.paid > 0 => waybill'.paid > 0
  BY PaidStays
<1>2. CASE UNCHANGED payPage
  BY <1>1, <1>2, RestStep DEF PollShows
<1>3. CASE Poll
  <2>1. PICK a \in VerifyAnswers \cup {"error"} : See(a)
    BY <1>3 DEF Poll
  <2>2. a = "success" => waybill.paid > 0
    BY <2>1 DEF VerifyAnswers
  <2> QED BY <1>3, <2>1, <2>2, SeeStep DEF Poll
<1>4. ASSUME NEW q \in Request, PollSettles(q) PROVE PollStep
  BY <1>1, <1>4, RestStep DEF PollSettles, PollShows, IInv, TypeOK, PayPage
<1>5. ASSUME NEW q \in Request, Answer(q) PROVE PollStep
  <2>1. payPage.shows = "asking"
    BY <1>5 DEF Answer, IInv, Asking
  <2>2. CASE waybill.paid > 0
    BY <1>5, <2>1, <2>2, SeeStep DEF Answer
  <2>3. CASE ~(waybill.paid > 0)
    BY <1>5, <2>1, <2>3, SeeStep DEF Answer
  <2> QED BY <2>2, <2>3
<1>6. ASSUME NEW q \in Request, Fail(q) PROVE PollStep
  <2>1. CASE req[q].page
    BY <1>6, <2>1, SeeStep DEF Fail, IInv, Asking
  <2>2. CASE ~req[q].page
    BY <1>2, <1>6, <2>2 DEF Fail
  <2> QED BY <2>1, <2>2
<1>7. ASSUME NEW r \in Ref, Return(r) PROVE PollStep
  <2>1. payPage'.polls = 0 /\ PollShows' = "polling"
    BY <1>7 DEF Return, PollShows
  <2>2. Verdict!Open
    BY <1>7, <2>1 DEF Verdict!Open, Return
  <2> QED BY <2>2 DEF PollStep, Verdict!PollNext
<1>8. ASSUME NEW q \in Request, Start(q), ~PollSettles(q) PROVE UNCHANGED payPage
  BY <1>8 DEF Start, AdminWaybillsPage, WaybillRow, QuoteModal, SendQuote, StatusModal,
     Advance, AdminCancels, UpdateWaybillStatus, AcceptAndPay, InitiatePay, Webhook
<1>9. ASSUME NEW q \in Request, GoOn(q), ~Answer(q) PROVE UNCHANGED payPage
  BY <1>9 DEF GoOn, WriteQuote, WriteStatus, SetPaymentRef, InitializeWaybillPayment,
     HandlePaymentConfirmed, ConfirmPayment, PaidEvent, EmitPaid
<1> QED BY <1>2, <1>3, <1>4, <1>5, <1>6, <1>7, <1>8, <1>9 DEF Next, Submit, Capture, vars

\* Whatever settles the payment, or fails to, the pay-success page counts its
\* polls, stops when they are used, and shows success only for a recorded
\* payment, which stays recorded.
THEOREM WaybillPoll == Spec => ImplementsPoll
<1>1. Init => Verdict!PollInit
  BY DEF Init, Verdict!PollInit, PollShows
<1>2. IInv /\ [Next]_vars => PollStep
  BY StepPolls
<1> QED BY <1>1, <1>2, WaybillInductive, PTL DEF Spec, ImplementsPoll, Verdict!PollSpec, PollStep
===============================================================================
