------------------------------ MODULE TripProofs ------------------------------
(***************************************************************************)
(* Proofs about TripJourney, for any number of staff requests, seats,      *)
(* walk-in counts and events: its types, which bound what a stale walk-in  *)
(* count or an overtaken event can do, and that no walk-in save reopens a  *)
(* trip marked full.                                                       *)
(***************************************************************************)
EXTENDS TripJourney, SequenceTheorems, TLAPS

LEMMA TotalIs ==
  /\ Total \in Nat /\ MaxPush \in Nat \ {0} /\ 0 \in Seats /\ 1 \in Seats /\ Seats \subseteq Nat
BY JourneyConstants DEF Seats

LEMMA InitTypes ==
  ASSUME Init
  PROVE  TypeOK
<1>1. pushes \in Seq(BOOLEAN) /\ Len(pushes) <= MaxPush
  BY TotalIs DEF Init
<1> QED BY <1>1, TotalIs DEF Init, TypeOK, Trip, Req, Idle, Page, NoCopy

-------------------------------------------------------------------------------
(* Staff.                                                                   *)

\* A staff request takes a step that leaves seats and passengers alone.
LEMMA RequestKeeps ==
  ASSUME TypeOK, NEW q \in Request, NEW what \in Req, req' = [req EXCEPT ![q] = what],
         trip' \in Trip, UNCHANGED <<taken, pushes, page>>
  PROVE  TypeOK'
BY DEF TypeOK

LEMMA MarkFullKeeps ==
  ASSUME TypeOK, NEW q \in Request, NEW b \in BOOLEAN, MarkFull(q, b)
  PROVE  TypeOK'
<1>1. [pc |-> "read", of |-> "markFull", n |-> 0, flag |-> b] \in Req
  BY TotalIs DEF Req
<1>2. trip' \in Trip
  BY DEF MarkFull, TypeOK, Trip
<1> QED BY <1>1, <1>2, RequestKeeps DEF MarkFull, Begin

LEMMA StaffKeeps ==
  ASSUME TypeOK, NEW q \in Request, Staff(q)
  PROVE  TypeOK'
<1>1. CASE AddTripModal
  BY <1>1 DEF AddTripModal, CreateTrip, TypeOK, Trip
<1>2. ASSUME NEW b \in BOOLEAN, ToggleActive(b) PROVE TypeOK'
  BY <1>2 DEF ToggleActive, TypeOK, Trip
<1>3. CASE DeleteTrip
  BY <1>3, TotalIs DEF DeleteTrip, TypeOK, Trip
<1>4. ASSUME NEW n \in WalkIns, SetOfflineCount(q, n) PROVE TypeOK'
  <2>1. trip \in Trip /\ n \in Seats
    BY <1>4, TotalIs, JourneyConstants DEF SetOfflineCount, TypeOK, Seats
  <2>2. [pc |-> "count", of |-> "offline", n |-> n, flag |-> trip.isFull] \in Req
    BY <2>1 DEF Req, Trip
  <2> QED BY <1>4, <2>1, <2>2, RequestKeeps DEF SetOfflineCount, Begin
<1> QED BY <1>1, <1>2, <1>3, <1>4, MarkFullKeeps DEF Staff, OperatorRow, DriverCard, HandleOfflineSave

LEMMA GoOnKeeps ==
  ASSUME TypeOK, NEW q \in Request, GoOn(q) \/ Fail(q)
  PROVE  TypeOK'
<1>1. trip \in Trip /\ req[q] \in Req /\ Idle \in Req /\ req \in [Request -> Req]
  BY TotalIs DEF TypeOK, Idle, Req
<1>2. CASE CountAvailableSeats(q)
  <2> DEFINE what == [req[q] EXCEPT !.pc = "write", !.flag = Available <= req[q].n /\ ~req[q].flag]
  <2>1. what \in Req
    BY <1>1 DEF Req
  <2>2. req' = [req EXCEPT ![q] = what]
    BY <1>1, <1>2 DEF CountAvailableSeats
  <2> HIDE DEF what
  <2> QED BY <1>1, <1>2, <2>1, <2>2, RequestKeeps DEF CountAvailableSeats
<1>3. CASE WriteOffline(q)
  <2>1. trip' \in Trip
    BY <1>1, <1>3 DEF WriteOffline, Trip, Req
  <2>2. [req[q] EXCEPT !.pc = "read"] \in Req
    BY <1>1 DEF Req
  <2>3. req' = [req EXCEPT ![q] = [req[q] EXCEPT !.pc = "read"]]
    BY <1>1, <1>3 DEF WriteOffline
  <2> QED BY <1>3, <2>1, <2>2, <2>3, RequestKeeps DEF WriteOffline
<1>4. CASE ReadTrip(q)
  <2> DEFINE f == IF req[q].of = "offline" THEN trip.isFull ELSE req[q].flag
             what == [req[q] EXCEPT !.pc = "emit", !.flag = f]
  <2>1. f \in BOOLEAN
    BY <1>1 DEF Req, Trip
  <2>2. req' = [req EXCEPT ![q] = what]
    BY <1>1, <1>4 DEF ReadTrip
  <2> HIDE DEF f
  <2>3. what \in Req
    BY <1>1, <2>1 DEF Req
  <2> HIDE DEF what
  <2> QED BY <1>1, <1>4, <2>2, <2>3, RequestKeeps DEF ReadTrip
<1>5. CASE EmitCapacity(q)
  <2>1. req[q].flag \in BOOLEAN /\ pushes \in Seq(BOOLEAN) /\ Len(pushes) < MaxPush
    BY <1>1, <1>5 DEF EmitCapacity, TypeOK, Req
  <2>2. Len(pushes) \in Nat
    BY <2>1, LenProperties
  <2>3. Append(pushes, req[q].flag) \in Seq(BOOLEAN) /\ Len(Append(pushes, req[q].flag)) = Len(pushes) + 1
    BY <2>1, AppendProperties
  <2>4. CASE pushes' = pushes
    BY <1>1, <1>5, <2>4 DEF EmitCapacity, TypeOK
  <2>5. CASE pushes' = Append(pushes, req[q].flag)
    <3>1. Len(pushes) + 1 <= MaxPush
      BY <2>1, <2>2, TotalIs
    <3> QED BY <1>1, <1>5, <2>3, <2>5, <3>1 DEF EmitCapacity, TypeOK
  <2> QED BY <1>5, <2>4, <2>5 DEF EmitCapacity
<1>6. CASE Fail(q)
  BY <1>1, <1>6, RequestKeeps DEF Fail
<1> QED BY <1>2, <1>3, <1>4, <1>5, <1>6 DEF GoOn

-------------------------------------------------------------------------------
(* Passengers.                                                              *)

LEMMA OthersKeep ==
  ASSUME TypeOK, OthersMove
  PROVE  TypeOK'
BY DEF OthersMove, TypeOK

\* A step of the browser alone.
LEMMA PageKeeps ==
  ASSUME TypeOK, page' \in Page, pushes' \in Seq(BOOLEAN), Len(pushes') <= MaxPush,
         UNCHANGED <<trip, taken, req>>
  PROVE  TypeOK'
BY DEF TypeOK

LEMMA NoPushes == <<>> \in Seq(BOOLEAN) /\ Len(<<>>) <= MaxPush
BY TotalIs

LEMMA TripPageKeeps ==
  ASSUME TypeOK, TripPage
  PROVE  TypeOK'
<1>1. /\ page \in Page /\ pushes \in Seq(BOOLEAN) /\ Len(pushes) <= MaxPush
      /\ taken \in Seats /\ Total \in Nat /\ trip.isFull \in BOOLEAN /\ trip.offlineCount \in Seats
  BY TotalIs DEF TypeOK, Trip
<1>2. CASE SearchTrips
  BY <1>1, <1>2, PageKeeps DEF SearchTrips, Page
<1>3. CASE FetchTrip
  <2> DEFINE free == IF Available > trip.offlineCount THEN Available - trip.offlineCount ELSE 0
             ov == IF page.loaded THEN page.override ELSE "none"
             qt == IF page.loaded THEN page.quantity ELSE 1
  <2>1. free \in Seats
    BY <1>1 DEF Available, Seats
  <2>2. ov \in {"none", "full", "open"} /\ qt \in Seats
    BY <1>1, TotalIs DEF Page
  <2>3. page' = [page EXCEPT !.fetching = FALSE, !.loaded = TRUE, !.override = ov, !.quantity = qt,
                   !.copy = [isFull |-> trip.isFull, availableSeats |-> free]]
    BY <1>3 DEF FetchTrip
  <2> HIDE DEF free, ov, qt
  <2>4. page' \in Page
    BY <1>1, <2>1, <2>2, <2>3 DEF Page
  <2> QED BY <1>1, <1>3, <2>4, PageKeeps DEF FetchTrip
<1>4. CASE FetchFails
  BY <1>1, <1>4, PageKeeps DEF FetchFails, Page
<1>5. CASE Connect
  BY <1>1, <1>5, PageKeeps DEF Connect, Page
<1>6. CASE Disconnect
  BY <1>1, <1>6, NoPushes, PageKeeps DEF Disconnect, Page
<1>7. CASE OnCapacityChanged
  <2>1. Tail(pushes) \in Seq(BOOLEAN) /\ Len(Tail(pushes)) <= MaxPush
    <3>1. pushes # <<>>
      BY <1>7 DEF OnCapacityChanged
    <3>2. Tail(pushes) \in Seq(BOOLEAN) /\ Len(Tail(pushes)) = Len(pushes) - 1 /\ Len(pushes) \in Nat
      BY <1>1, <3>1, HeadTailProperties, LenProperties
    <3> QED BY <1>1, <3>2, TotalIs
  <2>2. page' \in Page
    BY <1>1, <1>7 DEF OnCapacityChanged, Page
  <2> QED BY <1>7, <2>1, <2>2, PageKeeps DEF OnCapacityChanged
<1>8. CASE Quantity
  <2>1. PICK n \in (1..page.copy.availableSeats) \ {page.quantity} : page' = [page EXCEPT !.quantity = n]
    BY <1>8 DEF Quantity
  <2>2. n \in Seats
    BY <1>1, <2>1 DEF Page, Seats
  <2>3. page' \in Page
    BY <1>1, <2>1, <2>2 DEF Page
  <2> QED BY <1>1, <1>8, <2>3, PageKeeps DEF Quantity
<1>9. CASE HandleContinue
  BY <1>1, <1>9, PageKeeps DEF HandleContinue, Page
<1>10. CASE Hold
  BY <1>1, <1>10, PageKeeps DEF Hold, Page
<1>11. CASE Refused
  BY <1>1, <1>11, PageKeeps DEF Refused, Page
<1>12. CASE ClaimSeats
  <2>1. taken' \in Seats
    <3>1. page.quantity \in Seats /\ page.quantity <= Total - taken /\ taken' = taken + page.quantity
      BY <1>1, <1>12 DEF ClaimSeats, Page, Available
    <3> QED BY <1>1, <3>1 DEF Seats
  <2>2. NoCopy \in [isFull : BOOLEAN, availableSeats : Seats]
    BY TotalIs DEF NoCopy
  <2>3. page' \in Page
    BY <1>1, <1>12, <2>2 DEF ClaimSeats, Page
  <2> QED BY <1>12, <2>1, <2>3, NoPushes DEF ClaimSeats, TypeOK
<1> QED BY <1>2, <1>3, <1>4, <1>5, <1>6, <1>7, <1>8, <1>9, <1>10, <1>11, <1>12 DEF TripPage

-------------------------------------------------------------------------------
(* What the types give.                                                    *)

\* Every variable keeps its type, for any number of requests, seats and walk-ins: no
\* walk-in count exceeds the seats, and no more seats are taken than the trip has.
THEOREM JourneyTypes == Spec => []TypeOK
<1>1. TypeOK /\ [Next]_vars => TypeOK'
  <2> SUFFICES ASSUME TypeOK, [Next]_vars PROVE TypeOK'
    OBVIOUS
  <2>1. CASE UNCHANGED vars
    BY <2>1 DEF vars, TypeOK
  <2> QED BY <2>1, StaffKeeps, GoOnKeeps, OthersKeep, TripPageKeeps DEF Next
<1> QED BY <1>1, InitTypes, PTL DEF Spec

\* No walk-in save reopens a full trip, however it races with Mark Full; only a
\* request to reopen it does.
THEOREM FullStays == Spec => FullUntilReopened
<1>1. ASSUME TypeOK, [Next]_vars, trip.isFull, ~trip'.isFull
      PROVE  \E q \in Request : MarkFull(q, FALSE)
  <2>1. trip \in Trip
    BY <1>1 DEF TypeOK
  <2>2. CASE trip' = trip
    BY <1>1, <2>2
  <2>3. CASE AddTripModal \/ DeleteTrip
    BY <1>1, <2>1, <2>3 DEF AddTripModal, CreateTrip, DeleteTrip, Trip
  <2>4. ASSUME NEW b \in BOOLEAN, ToggleActive(b) PROVE FALSE
    BY <1>1, <2>1, <2>4 DEF ToggleActive, Trip
  <2>5. ASSUME NEW q \in Request, WriteOffline(q) PROVE FALSE
    BY <1>1, <2>1, <2>5 DEF WriteOffline, Trip
  <2>6. ASSUME NEW q \in Request, NEW b \in BOOLEAN, MarkFull(q, b) PROVE b = FALSE
    BY <1>1, <2>1, <2>6 DEF MarkFull, Trip
  <2>7. ASSUME NEW q \in Request, Staff(q) PROVE \E p \in Request : MarkFull(p, FALSE)
    BY <2>2, <2>3, <2>4, <2>6, <2>7 DEF Staff, OperatorRow, DriverCard, HandleOfflineSave, SetOfflineCount
  <2>8. ASSUME NEW q \in Request, GoOn(q) \/ Fail(q) PROVE \E p \in Request : MarkFull(p, FALSE)
    BY <2>2, <2>5, <2>8 DEF GoOn, Fail, CountAvailableSeats, ReadTrip, EmitCapacity
  <2>9. ASSUME OthersMove \/ TripPage PROVE trip' = trip
    BY <2>9 DEF OthersMove, TripPage, SearchTrips, FetchTrip, FetchFails, Connect, Disconnect,
       OnCapacityChanged, Quantity, HandleContinue, Hold, ClaimSeats, Refused
  <2> QED BY <1>1, <2>2, <2>7, <2>8, <2>9 DEF Next, vars
<1> QED BY <1>1, JourneyTypes, PTL DEF Spec, FullUntilReopened
===============================================================================
