-------------------------- MODULE CharterLifecycle --------------------------
(***************************************************************************)
(* One charter, from the passenger's request to its completion: the quote, *)
(* its acceptance, the Paystack payment, webhook and verify, cancellation. *)
(*                                                                         *)
(* Every operation of chartersService reads the row, checks its status,    *)
(* and writes in a later statement that names the row by id alone; only    *)
(* confirmPayment repeats the check in its UPDATE.  So a request is two or *)
(* more steps, with the requests of passenger, admin and Paystack          *)
(* interleaved in between, and it may fail at any of them.                 *)
(***************************************************************************)
EXTENDS Naturals

CONSTANTS Request,  \* server requests and event listeners that may be running
          Ref,      \* payment references (generateRef: fresh for every payment)
          Price,    \* the prices a quote may carry
          NoRef

ASSUME CharterAssumption == NoRef \notin Ref /\ Price \subseteq Nat \ {0}

VARIABLES charter,   \* the row of the charters table
          charge,    \* Paystack's view of each reference, with our amount
          req,       \* what each request is about to do
          issues,    \* references reported for manual reconciliation
          announced  \* charter.confirmed events emitted

vars == <<charter, charge, req, issues, announced>>

Status == {"pending", "quote_sent", "awaiting_payment",
           "confirmed", "completed", "cancelled"}

\* Operations that read the row, check its status and then write it.
Op == {"sendQuote", "acceptQuote", "rejectQuote", "cancelCharter",
       "adminConfirmBooking", "completeCharter"}

\* paid is paidAmount, set together with paidAt, and 0 for NULL.
Charter == [status : Status, quotedPrice : Price \cup {0}, paymentRef : Ref \cup {NoRef},
            paid : Price \cup {0}, assigned : BOOLEAN]

Charge == [state : {"none", "started", "offered", "captured"}, amount : Price \cup {0}]

Req == [pc : Op \cup {"idle", "initialize", "setPaymentRef", "process", "confirm", "emit"},
        ref : Ref \cup {NoRef}, price : Price \cup {0}]

Idle == [pc |-> "idle", ref |-> NoRef, price |-> 0]

Init ==
  /\ charter = [status |-> "pending", quotedPrice |-> 0, paymentRef |-> NoRef,
                paid |-> 0, assigned |-> FALSE]
  /\ charge = [r \in Ref |-> [state |-> "none", amount |-> 0]]
  /\ req = [q \in Request |-> Idle]
  /\ issues = {}
  /\ announced = 0

-------------------------------------------------------------------------------
(* Requests.                                                               *)

Begin(q, pc, r, price) ==
  /\ req[q] = Idle
  /\ req' = [req EXCEPT ![q] = [pc |-> pc, ref |-> r, price |-> price]]

End(q) == req' = [req EXCEPT ![q] = Idle]

\* A query fails or the process dies: the rest of the request never happens.
\* For a webhook's listener that is logged and forgotten.
Fail(q) ==
  /\ req[q] # Idle
  /\ End(q)
  /\ UNCHANGED <<charter, charge, issues, announced>>

-------------------------------------------------------------------------------
(* Quote, acceptance, cancellation, completion: check, then write.          *)

AllowedIn(op) ==
  CASE op = "sendQuote" -> {"pending"}
    [] op \in {"acceptQuote", "rejectQuote"} -> {"quote_sent"}
    [] op = "cancelCharter" -> {"pending", "quote_sent", "awaiting_payment"}
    [] op \in {"adminConfirmBooking", "completeCharter"} -> {"confirmed"}

Check(q, op, price) ==
  /\ charter.status \in AllowedIn(op)
  /\ Begin(q, op, NoRef, price)
  /\ UNCHANGED <<charter, charge, issues, announced>>

\* The row after the operation; nothing is read again.
After(op, price) ==
  CASE op = "sendQuote" ->
         [charter EXCEPT !.status = "quote_sent", !.quotedPrice = price]
    [] op = "acceptQuote" -> [charter EXCEPT !.status = "awaiting_payment"]
    [] op \in {"rejectQuote", "cancelCharter"} -> [charter EXCEPT !.status = "cancelled"]
    [] op = "adminConfirmBooking" -> [charter EXCEPT !.assigned = TRUE]
    [] op = "completeCharter" -> [charter EXCEPT !.status = "completed"]

Write(q) ==
  /\ req[q].pc \in Op
  /\ charter' = After(req[q].pc, req[q].price)
  /\ End(q)
  /\ UNCHANGED <<charge, issues, announced>>

-------------------------------------------------------------------------------
(* initiatePayment: check, start a Paystack transaction, store its          *)
(* reference, and only then answer with the URL to pay at.                  *)

InitiatePayment(q) ==
  /\ charter.status = "awaiting_payment" /\ charter.quotedPrice > 0
  /\ Begin(q, "initialize", NoRef, charter.quotedPrice)
  /\ UNCHANGED <<charter, charge, issues, announced>>

InitializeCharterPayment(q, r) ==
  /\ req[q].pc = "initialize" /\ charge[r].state = "none"
  /\ charge' = [charge EXCEPT ![r] = [state |-> "started", amount |-> req[q].price]]
  /\ req' = [req EXCEPT ![q].pc = "setPaymentRef", ![q].ref = r]
  /\ UNCHANGED <<charter, issues, announced>>

\* Paystack is unreachable, or answers without a URL.
InitializeRefused(q) ==
  /\ req[q].pc = "initialize"
  /\ End(q)
  /\ UNCHANGED <<charter, charge, issues, announced>>

SetPaymentRef(q) ==
  /\ req[q].pc = "setPaymentRef"
  /\ charter' = [charter EXCEPT !.paymentRef = req[q].ref]
  /\ charge' = [charge EXCEPT ![req[q].ref].state = "offered"]
  /\ End(q)
  /\ UNCHANGED <<issues, announced>>

\* The passenger pays, at any time: Paystack knows nothing of the charter.
Capture(r) ==
  /\ charge[r].state = "offered"
  /\ charge' = [charge EXCEPT ![r].state = "captured"]
  /\ UNCHANGED <<charter, req, issues, announced>>

-------------------------------------------------------------------------------
(* The two ways to settle: Paystack's webhook (answered 200 before it is    *)
(* processed) and the passenger's verify, which asks for the newest         *)
(* reference only.                                                          *)

Webhook(q, r) ==
  /\ charge[r].state = "captured"
  /\ Begin(q, "process", r, 0)
  /\ UNCHANGED <<charter, charge, issues, announced>>

VerifyPayment(q) ==
  /\ charter.status = "awaiting_payment" /\ charter.paymentRef # NoRef
  /\ charge[charter.paymentRef].state = "captured"
  /\ Begin(q, "process", charter.paymentRef, 0)
  /\ UNCHANGED <<charter, charge, issues, announced>>

\* processWebhookPayment up to confirmPayment: skip a confirmed charter, report
\* a wrong amount.
ProcessPayment(q) ==
  LET r == req[q].ref IN
  /\ req[q].pc = "process"
  /\ \/ /\ charter.status \in {"confirmed", "completed"}
        /\ End(q) /\ UNCHANGED issues
     \/ /\ charter.status \notin {"confirmed", "completed"}
        /\ charge[r].amount # charter.quotedPrice
        /\ issues' = issues \cup {r} /\ End(q)
     \/ /\ charter.status \notin {"confirmed", "completed"}
        /\ charge[r].amount = charter.quotedPrice
        /\ req' = [req EXCEPT ![q].pc = "confirm", ![q].price = charter.quotedPrice]
        /\ UNCHANGED issues
  /\ UNCHANGED <<charter, charge, announced>>

Payable == charter.status = "awaiting_payment" /\ charter.paid = 0

\* Mutants of ConfirmPayment: unconditional on paidAt ...
ConfirmPaymentTwice(q) ==
  /\ req[q].pc = "confirm" /\ charter.status = "awaiting_payment"
  /\ charter' = [charter EXCEPT !.paid = req[q].price, !.status = "confirmed"]
  /\ req' = [req EXCEPT ![q].pc = "emit"]
  /\ UNCHANGED <<charge, issues, announced>>

\* ... and the status is set before the condition is looked at.
ConfirmPaymentBlind(q) ==
  /\ req[q].pc = "confirm"
  /\ charter' = [charter EXCEPT !.paid = IF Payable THEN req[q].price ELSE @,
                                !.status = "confirmed"]
  /\ IF Payable THEN req' = [req EXCEPT ![q].pc = "emit"] ELSE End(q)
  /\ UNCHANGED <<charge, issues, announced>>

\* The conditional updateMany; if it changes no row the payment is let go.
ConfirmPayment(q) ==
  /\ req[q].pc = "confirm"
  /\ IF Payable
       THEN /\ charter' = [charter EXCEPT !.paid = req[q].price, !.status = "confirmed"]
            /\ req' = [req EXCEPT ![q].pc = "emit"]
       ELSE UNCHANGED charter /\ End(q)
  /\ UNCHANGED <<charge, issues, announced>>

Emit(q) ==
  /\ req[q].pc = "emit"
  /\ announced' = announced + 1
  /\ End(q)
  /\ UNCHANGED <<charter, charge, issues>>

-------------------------------------------------------------------------------
\* A request arrives, and a request goes on.
Start(q) ==
  \/ \E p \in Price : Check(q, "sendQuote", p)
  \/ \E op \in Op \ {"sendQuote"} : Check(q, op, 0)
  \/ \E r \in Ref : Webhook(q, r)
  \/ InitiatePayment(q) \/ VerifyPayment(q)

GoOn(q) ==
  \/ \E r \in Ref : InitializeCharterPayment(q, r)
  \/ InitializeRefused(q) \/ SetPaymentRef(q) \/ Write(q)
  \/ ProcessPayment(q) \/ ConfirmPayment(q) \/ Emit(q)

Next ==
  \/ \E q \in Request : Start(q) \/ GoOn(q) \/ Fail(q)
  \/ \E r \in Ref : Capture(r)

Spec == Init /\ [][Next]_vars

-------------------------------------------------------------------------------
(* Properties.                                                             *)

\* Every variable keeps its type.
TypeOK ==
  /\ charter \in Charter
  /\ charge \in [Ref -> Charge]
  /\ req \in [Request -> Req]
  /\ issues \subseteq Ref
  /\ announced \in Nat

\* However stale the check before a write was, only a paid charter is ever
\* confirmed, completed or given its booking details.
PaidFirst ==
  charter.status \in {"confirmed", "completed"} \/ charter.assigned => charter.paid > 0

\* Whatever stale writes do to the status, confirmPayment records one captured
\* amount once, and charter.confirmed is emitted at most once, after that
\* ("so the confirmation event fires exactly once", charters.repository.ts).
Captured == {r \in Ref : charge[r].state = "captured"}

Once == INSTANCE PaymentOnce WITH
          Amount <- Price,
          captured <- {charge[r].amount : r \in Captured},
          paid <- charter.paid

ImplementsOnce == Once!OnceSpec
===============================================================================
