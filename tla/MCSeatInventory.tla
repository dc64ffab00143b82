--------------------------- MODULE MCSeatInventory ---------------------------
(* Small instances of SeatInventory for TLC. *)
EXTENDS SeatInventory, TLC

\* Seats, users and sessions are interchangeable.
Symmetry == Permutations(Seat) \cup Permutations(User)
              \cup Permutations(HoldReq) \cup Permutations(ConfirmReq)
===============================================================================
