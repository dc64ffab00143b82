----------------------------- MODULE PaymentOnce -----------------------------
(***************************************************************************)
(* What confirmPayment promises for one order, a charter or a waybill:     *)
(* among all the amounts that were captured for it, one is taken, once,    *)
(* and the paid event is emitted at most once and only after that.         *)
(***************************************************************************)
EXTENDS Naturals

CONSTANTS Amount   \* the amounts that may be asked for

VARIABLES captured,   \* the amounts of the captured charges of the order
          paid,       \* the amount recorded as paid, 0 before that
          announced   \* confirmation events emitted

onceVars == <<captured, paid, announced>>

OnceInit == captured = {} /\ paid = 0 /\ announced = 0

\* The provider captures a charge of amount a.
Charge(a) ==
  /\ captured' = captured \cup {a}
  /\ UNCHANGED <<paid, announced>>

\* A captured amount is recorded as the payment.
Take(a) ==
  /\ paid = 0 /\ a \in captured
  /\ paid' = a
  /\ UNCHANGED <<captured, announced>>

\* The confirmation event.
Tell ==
  /\ paid > 0 /\ announced = 0
  /\ announced' = 1
  /\ UNCHANGED <<captured, paid>>

OnceNext == Tell \/ \E a \in Amount : Charge(a) \/ Take(a)

OnceSpec == OnceInit /\ [][OnceNext]_onceVars
===============================================================================
