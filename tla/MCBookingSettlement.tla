------------------------- MODULE MCBookingSettlement -------------------------
(* Small instances of BookingSettlement for TLC. *)
EXTENDS BookingSettlement, TLC

\* Seats, users, references and sessions are interchangeable.
Symmetry == Permutations(Seat) \cup Permutations(User) \cup Permutations(Ref)
              \cup Permutations(HoldReq) \cup Permutations(ConfirmReq)
===============================================================================
