----------------------------- MODULE PaymentPoll -----------------------------
(***************************************************************************)
(* What every page that Paystack sends a payer back to promises: it asks   *)
(* the server how the payment went, counts each answer that decides        *)
(* nothing, gives up when its attempts are used, and shows success only    *)
(* for a payment the server has recorded, which nothing undoes.  The three *)
(* pages differ in what they count and in how they ask.                    *)
(***************************************************************************)
EXTENDS Naturals

CONSTANTS Max,        \* the attempts of the page
          MayReload   \* whether it may be opened anew while it polls

VARIABLES recorded,   \* the server has recorded the payment
          tries,      \* attempts counted since the page was opened
          shows       \* what the page shows

pollVars == <<recorded, tries, shows>>

Decided == {"success", "failed"}

PollInit == ~recorded /\ tries = 0 /\ shows = "closed"

\* The payment is recorded, by whoever settles it, once and for good.
Record ==
  /\ ~recorded /\ recorded'
  /\ UNCHANGED <<tries, shows>>

Open ==
  /\ shows = "polling" => MayReload
  /\ tries' = 0 /\ shows' = "polling"
  /\ UNCHANGED recorded

\* An answer that decides nothing is counted while another attempt is left ...
AskAgain ==
  /\ shows = "polling" /\ tries + 1 < Max
  /\ tries' = tries + 1
  /\ UNCHANGED <<recorded, shows>>

\* ... and ends the polling when it was the last.
GiveUp ==
  /\ shows = "polling" /\ tries + 1 = Max
  /\ tries' = tries + 1 /\ shows' = "gaveUp"
  /\ UNCHANGED recorded

\* An answer that decides; the server may have settled the payment to give it.
Decide(a) ==
  /\ shows = "polling" /\ tries < Max
  /\ recorded => recorded'
  /\ a = "success" => recorded'
  /\ tries' \in {tries, tries + 1} /\ shows' = a

PollNext == Record \/ Open \/ AskAgain \/ GiveUp \/ \E a \in Decided : Decide(a)

PollSpec == PollInit /\ [][PollNext]_pollVars
===============================================================================
