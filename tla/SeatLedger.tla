------------------------------ MODULE SeatLedger ------------------------------
(***************************************************************************)
(* What the booking core promises about the seats of one trip, with no     *)
(* transactions, clocks, jobs or retries: a ledger of who holds which seat *)
(* and which payment bought which seats.  Every step is atomic.            *)
(*                                                                         *)
(*   - a user may take free seats, giving back those held before;          *)
(*   - held seats may lapse back to free;                                  *)
(*   - a payment buys all of its seats at once, from the free seats and    *)
(*     the payer's own, once, and for good;                                *)
(*   - the trip may be withdrawn only while nothing has been sold.         *)
(*                                                                         *)
(* BookingSettlement implements this module.                               *)
(***************************************************************************)
CONSTANTS Seat, User, Ref, NoOne

VARIABLES holder,     \* who holds each seat, NoOne when it is not held
          sales,      \* the sales made: records [ref, user, seats]
          withdrawn   \* the operator has deleted the trip

ledgerVars == <<holder, sales, withdrawn>>

Sold == UNION {sale.seats : sale \in sales}

HeldBy(u) == {s \in Seat : holder[s] = u}

Free == {s \in Seat : holder[s] = NoOne /\ s \notin Sold}

GiveTo(S, u) == [s \in Seat |-> IF s \in S THEN u ELSE holder[s]]

LedgerInit ==
  /\ holder = [s \in Seat |-> NoOne]
  /\ sales = {}
  /\ withdrawn = FALSE

\* User u ends up holding C instead of the seats F given back; every other
\* user's holds and every sale stand.
Rehold(u, F, C) ==
  /\ ~withdrawn
  /\ F \subseteq HeldBy(u)
  /\ C \subseteq Free \cup F
  /\ holder' = [s \in Seat |-> IF s \in C THEN u
                               ELSE IF s \in F THEN NoOne ELSE holder[s]]
  /\ UNCHANGED <<sales, withdrawn>>

\* Held seats fall back to free.
Lapse(S) ==
  /\ holder' = GiveTo(S, NoOne)
  /\ UNCHANGED <<sales, withdrawn>>

\* Payment r of user u buys the seats S.
Sell(r, u, S) ==
  /\ ~withdrawn
  /\ S # {}
  /\ S \subseteq Free \cup HeldBy(u)
  /\ \A sale \in sales : sale.ref # r
  /\ sales' = sales \cup {[ref |-> r, user |-> u, seats |-> S]}
  /\ holder' = GiveTo(S, NoOne)
  /\ UNCHANGED withdrawn

Withdraw ==
  /\ ~withdrawn
  /\ sales = {}
  /\ withdrawn' = TRUE
  /\ holder' = [s \in Seat |-> NoOne]
  /\ UNCHANGED sales

LedgerNext ==
  \/ \E u \in User, F, C \in SUBSET Seat : Rehold(u, F, C)
  \/ \E S \in SUBSET Seat : Lapse(S)
  \/ \E r \in Ref, u \in User, S \in SUBSET Seat : Sell(r, u, S)
  \/ Withdraw

LedgerSpec == LedgerInit /\ [][LedgerNext]_ledgerVars
===============================================================================
