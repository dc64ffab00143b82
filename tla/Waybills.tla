------------------------------ MODULE Waybills ------------------------------
(***************************************************************************)
(* One parcel waybill: the customer's form and shipments page, the admin's *)
(* and the carrier's pages, the waybills service and repository, Paystack, *)
(* and the page Paystack sends the customer back to.  Every write of the   *)
(* service but confirmPayment is unconditional: the row is checked when    *)
(* the request comes in and written some time later.                       *)
(*                                                                         *)
(* A page shows a copy of the row that may be arbitrarily old, so a page   *)
(* may act on any status the waybill has had (Shown).                      *)
(***************************************************************************)
EXTENDS Naturals

CONSTANTS Request,   \* requests the server may have under way at once
          Ref,       \* payment references (bound: payments started)
          Fee,       \* the fees an admin may quote
          Operator,  \* approved transport companies
          NoRef, NoOne,
          MaxPolls   \* MAX_POLLS of the pay-success page

ASSUME WaybillConstants ==
  /\ NoRef \notin Ref /\ NoOne \notin Operator
  /\ Fee \subseteq Nat \ {0} /\ MaxPolls \in Nat \ {0}

VARIABLES
  waybill,    \* the row; paid is the amount taken when paidAt was set, 0 before
  timeline,   \* the statuses of its waybill_events
  payment,    \* Paystack's transactions
  req,        \* requests under way
  payPage,    \* the pay-success page: reference, what it shows, polls made
  issues,     \* payments reported for a wrong amount
  announced   \* waybill.paid events emitted

vars == <<waybill, timeline, payment, req, payPage, issues, announced>>

VALID_TRANSITIONS ==
  [none |-> {}, pending |-> {"quote_sent", "cancelled"},
   quote_sent |-> {"paid", "cancelled"}, paid |-> {"dropped_off", "cancelled"},
   dropped_off |-> {"picked_up"}, picked_up |-> {"in_transit"},
   in_transit |-> {"arrived_at_hub"}, arrived_at_hub |-> {"completed"},
   completed |-> {}, cancelled |-> {}]

Status == DOMAIN VALID_TRANSITIONS

Waybill == [status : Status, fee : Fee \cup {0}, carrier : Operator \cup {NoOne},
            paymentRef : Ref \cup {NoRef}, paid : Fee \cup {0}]
Payment == [state : {"none", "started", "offered", "captured"}, amount : Fee \cup {0}]

\* A request: the step it is at, and what it read or was given.
Step == {"idle", "sendQuote", "updateStatus", "initialize", "setPaymentRef",
         "settle", "confirm", "paidEvent", "emit", "answer"}
Req  == [pc : Step, ref : Ref \cup {NoRef}, fee : Fee \cup {0},
         carrier : Operator \cup {NoOne}, to : Status, page : BOOLEAN]
Idle == [pc |-> "idle", ref |-> NoRef, fee |-> 0, carrier |-> NoOne, to |-> "none",
         page |-> FALSE]

PayPage == [ref : Ref \cup {NoRef}, polls : 0..MaxPolls,
            shows : {"closed", "verifying", "asking", "success", "failed", "pending"}]

Init ==
  /\ waybill = [status |-> "none", fee |-> 0, carrier |-> NoOne,
                paymentRef |-> NoRef, paid |-> 0]
  /\ timeline = {} /\ issues = {} /\ announced = 0
  /\ payment = [r \in Ref |-> [state |-> "none", amount |-> 0]]
  /\ req = [q \in Request |-> Idle]
  /\ payPage = [ref |-> NoRef, polls |-> 0, shows |-> "closed"]

Begin(q, what) ==
  /\ req[q] = Idle
  /\ req' = [req EXCEPT ![q] = what]

GoTo(q, pc) == req' = [req EXCEPT ![q].pc = pc]
End(q) == req' = [req EXCEPT ![q] = Idle]

\* The next step of a settlement, or its end: a poll of the page is answered.
Leave(q) == IF req[q].page THEN GoTo(q, "answer") ELSE End(q)

\* A list fetched by useServerList keeps what it fetched until it is refetched.
Shown(s) == s = waybill.status \/ s \in timeline \/ (s = "paid" /\ waybill.paid > 0)

\* listWaybills: a carrier sees the waybills assigned to it.
Listed(o) == waybill.carrier = o

-------------------------------------------------------------------------------
(* Request, quote, status: the pages and the handlers behind them.         *)

CreateWaybill ==
  /\ waybill.status = "none"
  /\ waybill' = [waybill EXCEPT !.status = "pending"]
  /\ timeline' = {"pending"}

\* The customer's form submits, once: the page then shows the number.
Submit == CreateWaybill /\ UNCHANGED <<payment, req, payPage, issues, announced>>

SendQuote(q, o, f) ==
  /\ waybill.status = "pending"
  /\ Begin(q, [Idle EXCEPT !.pc = "sendQuote", !.carrier = o, !.fee = f])
  /\ UNCHANGED <<waybill, timeline, payment, payPage, issues, announced>>

QuoteModal(q) ==
  /\ Shown("pending")
  /\ \E o \in Operator, f \in Fee : SendQuote(q, o, f)

WriteQuote(q) ==
  /\ req[q].pc = "sendQuote"
  /\ waybill' = [waybill EXCEPT !.status = "quote_sent", !.fee = req[q].fee,
                                !.carrier = req[q].carrier]
  /\ timeline' = timeline \cup {"quote_sent"}
  /\ End(q)
  /\ UNCHANGED <<payment, payPage, issues, announced>>

UpdateWaybillStatus(q, to) ==
  /\ to \in VALID_TRANSITIONS[waybill.status]
  /\ Begin(q, [Idle EXCEPT !.pc = "updateStatus", !.to = to])
  /\ UNCHANGED <<waybill, timeline, payment, payPage, issues, announced>>

WriteStatus(q) ==
  /\ req[q].pc = "updateStatus"
  /\ waybill' = [waybill EXCEPT !.status = req[q].to]
  /\ timeline' = timeline \cup {req[q].to}
  /\ End(q)
  /\ UNCHANGED <<payment, payPage, issues, announced>>

\* The buttons of the admin's rows: a quote for a pending waybill (QuoteModal),
\* one step forward after payment (StatusModal).  None of them cancels.
NEXT_ACTIONS ==
  [paid |-> "dropped_off", dropped_off |-> "picked_up", picked_up |-> "in_transit",
   in_transit |-> "arrived_at_hub", arrived_at_hub |-> "completed"]

StatusModal(q) ==
  \E s \in DOMAIN NEXT_ACTIONS : Shown(s) /\ UpdateWaybillStatus(q, NEXT_ACTIONS[s])

\* Mutant of NEXT_STATUS: no button for a parcel at the destination hub.
NextStatusGap ==
  [paid |-> "dropped_off", dropped_off |-> "picked_up", picked_up |-> "in_transit",
   in_transit |-> "arrived_at_hub"]

\* A row of the admin's page, and the page: everything that was submitted.
WaybillRow(q) == QuoteModal(q) \/ StatusModal(q)

AdminWaybillsPage(q) == waybill.status # "none" /\ WaybillRow(q)

\* The carrier's page has a table of its own.
NEXT_STATUS ==
  [paid |-> "dropped_off", dropped_off |-> "picked_up", picked_up |-> "in_transit",
   in_transit |-> "arrived_at_hub", arrived_at_hub |-> "completed"]

Advance(q) ==
  /\ \E o \in Operator : Listed(o)
  /\ \E s \in DOMAIN NEXT_STATUS : Shown(s) /\ UpdateWaybillStatus(q, NEXT_STATUS[s])

\* An admin may cancel through the API.
AdminCancels(q) == UpdateWaybillStatus(q, "cancelled")

-------------------------------------------------------------------------------
(* Payment: check, start a Paystack transaction, store its reference, and   *)
(* only then answer with the URL to pay at.                                 *)

InitiatePay(q) ==
  /\ waybill.status = "quote_sent" /\ waybill.fee > 0
  /\ Begin(q, [Idle EXCEPT !.pc = "initialize", !.fee = waybill.fee])
  /\ UNCHANGED <<waybill, timeline, payment, payPage, issues, announced>>

\* A card of My Shipments offers Accept & Pay while its copy awaits payment.
IsQuoteReady == Shown("quote_sent")

AcceptAndPay(q) == IsQuoteReady /\ InitiatePay(q)

InitializeWaybillPayment(q, r) ==
  /\ req[q].pc = "initialize" /\ payment[r].state = "none"
  /\ payment' = [payment EXCEPT ![r] = [state |-> "started", amount |-> req[q].fee]]
  /\ req' = [req EXCEPT ![q].pc = "setPaymentRef", ![q].ref = r]
  /\ UNCHANGED <<waybill, timeline, payPage, issues, announced>>

SetPaymentRef(q) ==
  /\ req[q].pc = "setPaymentRef"
  /\ waybill' = [waybill EXCEPT !.paymentRef = req[q].ref]
  /\ payment' = [payment EXCEPT ![req[q].ref].state = "offered"]
  /\ End(q)
  /\ UNCHANGED <<timeline, payPage, issues, announced>>

\* The customer pays, at any time: Paystack knows nothing of the waybill.
Capture(r) ==
  /\ payment[r].state = "offered"
  /\ payment' = [payment EXCEPT ![r].state = "captured"]
  /\ UNCHANGED <<waybill, timeline, req, payPage, issues, announced>>

\* The webhook is answered 200 before its listener settles the payment.
Webhook(q, r) ==
  /\ payment[r].state = "captured"
  /\ Begin(q, [Idle EXCEPT !.pc = "settle", !.ref = r])
  /\ UNCHANGED <<waybill, timeline, payment, payPage, issues, announced>>


\* handlePaymentConfirmed up to confirmPayment: skip a paid waybill, report a
\* wrong amount.
HandlePaymentConfirmed(q) ==
  LET right == payment[req[q].ref].amount = waybill.fee IN
  /\ req[q].pc = "settle"
  /\ \/ waybill.paid > 0 /\ Leave(q) /\ UNCHANGED issues
     \/ waybill.paid = 0 /\ ~right /\ issues' = issues \cup {req[q].ref} /\ Leave(q)
     \/ /\ waybill.paid = 0 /\ right
        /\ req' = [req EXCEPT ![q].pc = "confirm", ![q].fee = waybill.fee]
        /\ UNCHANGED issues
  /\ UNCHANGED <<waybill, timeline, payment, payPage, announced>>

Payable == waybill.status = "quote_sent" /\ waybill.paid = 0

\* Mutants of ConfirmPayment: the count of changed rows is not looked at ...
ConfirmPaymentUnchecked(q) ==
  /\ req[q].pc = "confirm"
  /\ waybill' = IF Payable THEN [waybill EXCEPT !.status = "paid", !.paid = req[q].fee]
                           ELSE waybill
  /\ GoTo(q, "paidEvent")
  /\ UNCHANGED <<timeline, payment, payPage, issues, announced>>

\* ... and the status is set before the condition is looked at.
ConfirmPaymentHalf(q) ==
  /\ req[q].pc = "confirm"
  /\ waybill' = [waybill EXCEPT !.status = "paid"]
  /\ Leave(q)
  /\ UNCHANGED <<timeline, payment, payPage, issues, announced>>

\* The conditional updateMany; if it changes no row the payment is let go.
ConfirmPayment(q) ==
  /\ req[q].pc = "confirm"
  /\ IF Payable
       THEN /\ waybill' = [waybill EXCEPT !.status = "paid", !.paid = req[q].fee]
            /\ GoTo(q, "paidEvent")
       ELSE UNCHANGED waybill /\ Leave(q)
  /\ UNCHANGED <<timeline, payment, payPage, issues, announced>>

\* The event is a statement of its own.
PaidEvent(q) ==
  /\ req[q].pc = "paidEvent"
  /\ timeline' = timeline \cup {"paid"}
  /\ GoTo(q, "emit")
  /\ UNCHANGED <<waybill, payment, payPage, issues, announced>>

EmitPaid(q) ==
  /\ req[q].pc = "emit"
  /\ announced' = announced + 1
  /\ Leave(q)
  /\ UNCHANGED <<waybill, timeline, payment, payPage, issues>>

-------------------------------------------------------------------------------
(* The pay-success page polls verifyPayment.                                *)

\* Paystack sends the customer back with the reference, paid or not; so does a
\* reload of the page.
Return(r) ==
  /\ payment[r].state \in {"offered", "captured"}
  /\ payPage.shows # "asking"
  /\ payPage' = [ref |-> r, polls |-> 0, shows |-> "verifying"]
  /\ UNCHANGED <<waybill, timeline, payment, req, issues, announced>>

\* Mutant of See: one poll too many before the page gives up.
SeeLate(answer) ==
  payPage' = [payPage EXCEPT !.polls = @ + 1,
                !.shows = IF answer \in {"success", "failed"} THEN answer
                          ELSE IF payPage.polls = MaxPolls THEN "pending"
                          ELSE "verifying"]

\* What the page makes of an answer; "error" stands for every failed call.
See(answer) ==
  payPage' = [payPage EXCEPT !.polls = @ + 1,
                !.shows = IF answer \in {"success", "failed"} THEN answer
                          ELSE IF payPage.polls + 1 = MaxPolls THEN "pending"
                          ELSE "verifying"]

\* verifyPayment, where it answers without settling; a newer payment hides the
\* reference (404), and Paystack calls an unpaid transaction failed or pending.
VerifyAnswers ==
  LET r == payPage.ref IN
  IF waybill.paymentRef # r THEN {"error"}
  ELSE IF waybill.paid > 0 THEN {"success"}
  ELSE IF waybill.status # "quote_sent" THEN {"pending"}
  ELSE IF payment[r].state # "captured" THEN {"failed", "pending", "error"}
  ELSE {"error"}

Poll ==
  /\ payPage.shows = "verifying"
  /\ \E a \in VerifyAnswers \cup {"error"} : See(a)
  /\ UNCHANGED <<waybill, timeline, payment, req, issues, announced>>

\* verifyPayment, where it settles first.
PollSettles(q) ==
  LET r == payPage.ref IN
  /\ payPage.shows = "verifying" /\ waybill.paymentRef = r
  /\ waybill.paid = 0 /\ waybill.status = "quote_sent" /\ payment[r].state = "captured"
  /\ Begin(q, [Idle EXCEPT !.pc = "settle", !.ref = r, !.page = TRUE])
  /\ payPage' = [payPage EXCEPT !.shows = "asking"]
  /\ UNCHANGED <<waybill, timeline, payment, issues, announced>>

\* Mutant of Answer: the settled charge is taken for a confirmed waybill.
AnswerTrusting(q) ==
  /\ req[q].pc = "answer"
  /\ See("success")
  /\ End(q)
  /\ UNCHANGED <<waybill, timeline, payment, issues, announced>>

Answer(q) ==
  /\ req[q].pc = "answer"
  /\ See(IF waybill.paid > 0 THEN "success" ELSE "failed")
  /\ End(q)
  /\ UNCHANGED <<waybill, timeline, payment, issues, announced>>

\* A query fails, Paystack is unreachable or the process dies: the rest of the
\* request never happens.  A webhook's listener logs that, the page asks again.
Fail(q) ==
  /\ req[q] # Idle
  /\ End(q)
  /\ IF req[q].page THEN See("error") ELSE UNCHANGED payPage
  /\ UNCHANGED <<waybill, timeline, payment, issues, announced>>

-------------------------------------------------------------------------------
Start(q) ==
  \/ AdminWaybillsPage(q) \/ Advance(q) \/ AdminCancels(q)
  \/ AcceptAndPay(q) \/ PollSettles(q)
  \/ \E r \in Ref : Webhook(q, r)

GoOn(q) ==
  \/ WriteQuote(q) \/ WriteStatus(q) \/ SetPaymentRef(q)
  \/ \E r \in Ref : InitializeWaybillPayment(q, r)
  \/ HandlePaymentConfirmed(q) \/ ConfirmPayment(q) \/ PaidEvent(q) \/ EmitPaid(q)
  \/ Answer(q)

Next ==
  \/ Submit \/ Poll
  \/ \E r \in Ref : Capture(r) \/ Return(r)
  \/ \E q \in Request : Start(q) \/ GoOn(q) \/ Fail(q)

Spec == Init /\ [][Next]_vars

\* The carrier works through its list; requests that are not hit by a fault run
\* on; faults stop in the end.
Fairness ==
  /\ SF_vars(\E q \in Request : Advance(q))
  /\ \A q \in Request : WF_vars(GoOn(q))
  /\ <>[][\A q \in Request : Fail(q) => GoOn(q)]_vars

FairSpec == Spec /\ Fairness

-------------------------------------------------------------------------------
(* Properties.                                                             *)

\* Every variable keeps its type.
TypeOK ==
  /\ waybill \in Waybill
  /\ timeline \subseteq Status
  /\ payment \in [Ref -> Payment]
  /\ req \in [Request -> Req]
  /\ payPage \in PayPage
  /\ issues \subseteq Ref
  /\ announced \in Nat

\* However stale the check before a write was, no parcel moves unpaid: from paid
\* on (cancelled apart) a payment has been recorded (updateStatus writes without
\* a condition; confirmPayment alone sets paidAt).
NothingMovesUnpaid ==
  waybill.status \notin {"none", "pending", "quote_sent", "cancelled"} => waybill.paid > 0

\* The pay-success page never shows success for a waybill that is not paid.
NeverFalseSuccess == payPage.shows = "success" => waybill.paid > 0

\* The pay-success page as PaymentPoll: every answer is counted, whether it comes at
\* once or after a settlement that another one overtook; the page gives up at
\* MAX_POLLS; success is for a recorded payment, which no stale write undoes.
PollShows == CASE payPage.shows \in {"verifying", "asking"} -> "polling"
               [] payPage.shows = "pending" -> "gaveUp"
               [] OTHER -> payPage.shows

Verdict == INSTANCE PaymentPoll WITH
             Max <- MaxPolls, MayReload <- TRUE,
             recorded <- waybill.paid > 0, tries <- payPage.polls, shows <- PollShows

ImplementsPoll == Verdict!PollSpec

\* Duplicated webhooks, polls and stale writes take one captured payment, once,
\* and emit waybill.paid at most once (confirmPayment's condition).
Once == INSTANCE PaymentOnce WITH
          Amount <- Fee,
          captured <- {payment[r].amount : r \in {x \in Ref : payment[x].state = "captured"}},
          paid <- waybill.paid

ImplementsOnce == Once!OnceSpec


\* With the buttons the carrier's page offers, a paid parcel is brought to its
\* receiver, cancelled, or (stale quote) returned to quote_sent in the end.
ParcelArrives ==
  waybill.status = "paid" ~> waybill.status \in {"completed", "cancelled", "quote_sent"}
===============================================================================
