------------------------------ MODULE TripJourney ------------------------------
(***************************************************************************)
(* One trip as its people see it: the operator's and the driver's pages    *)
(* and the trips service behind them, the capacity events pushed to        *)
(* browsers, and one passenger's trip page up to the hold.  What follows   *)
(* the hold is Checkout; who gets which seat is SeatInventory; here seats  *)
(* are a number.                                                           *)
(***************************************************************************)
EXTENDS Naturals, Sequences

CONSTANTS Request,   \* staff requests the server may have under way at once
          Total,     \* totalSeats
          WalkIns,   \* walk-in counts staff may save (bound; may exceed Total)
          MaxPush    \* events on their way to the browser (bound)

ASSUME JourneyConstants ==
  /\ Total \in Nat \ {0} /\ WalkIns \subseteq Nat /\ MaxPush \in Nat \ {0}

VARIABLES
  trip,    \* the row of the trips table
  taken,   \* how many of its seats are held or booked
  req,     \* staff requests under way
  pushes,  \* isFull of the capacity events on their way to the trip page
  page     \* the passenger's browser

vars == <<trip, taken, req, pushes, page>>

Seats == 0..Total

Trip == [status : {"none", "scheduled", "deleted"}, isActive : BOOLEAN,
         isFull : BOOLEAN, offlineCount : Seats]
\* of is the action of a request; flag the isFull it read, will write or will emit.
Req  == [pc : {"idle", "count", "write", "read", "emit"},
         of : {"markFull", "offline"}, n : Seats, flag : BOOLEAN]
Idle == [pc |-> "idle", of |-> "markFull", n |-> 0, flag |-> FALSE]

\* override is the isFull of the newest push, which displayTrip prefers to copy.
Page == [at : {"search", "trip", "holding", "claiming"},
         copy : [isFull : BOOLEAN, availableSeats : Seats],
         override : {"none", "full", "open"}, loaded : BOOLEAN,
         connected : BOOLEAN, fetching : BOOLEAN, quantity : Seats]

NoCopy == [isFull |-> FALSE, availableSeats |-> 0]

Init ==
  /\ trip = [status |-> "none", isActive |-> TRUE, isFull |-> FALSE, offlineCount |-> 0]
  /\ taken = 0 /\ pushes = <<>>
  /\ req = [q \in Request |-> Idle]
  /\ page = [at |-> "search", copy |-> NoCopy, override |-> "none", loaded |-> FALSE,
             connected |-> FALSE, fetching |-> FALSE, quantity |-> 0]

Available == Total - taken

-------------------------------------------------------------------------------
(* The trips service.                                                       *)

Begin(q, what) == req[q] = Idle /\ req' = [req EXCEPT ![q] = what]

\* Every query but those of a create names an existing row.
Exists == trip.status = "scheduled"

CreateTrip ==
  /\ trip.status = "none"
  /\ trip' = [trip EXCEPT !.status = "scheduled"]
  /\ UNCHANGED <<taken, req, pushes, page>>

\* markFull writes the flag; the row is then read for the answer.
MarkFull(q, isFull) ==
  /\ Exists
  /\ trip' = [trip EXCEPT !.isFull = isFull]
  /\ Begin(q, [pc |-> "read", of |-> "markFull", n |-> 0, flag |-> isFull])
  /\ UNCHANGED <<taken, pushes, page>>

ToggleActive(isActive) ==
  /\ Exists
  /\ trip' = [trip EXCEPT !.isActive = isActive]
  /\ UNCHANGED <<taken, req, pushes, page>>

\* The seats go with their trip; where one is booked the foreign key forbids it,
\* which this count cannot tell (Checkout can).
DeleteTrip ==
  /\ Exists
  /\ trip' = [trip EXCEPT !.status = "deleted"] /\ taken' = 0
  /\ UNCHANGED <<req, pushes, page>>

\* Mutant of SetOfflineCount: any count is saved.
SetOfflineCountUnchecked(q, n) ==
  /\ Exists
  /\ Begin(q, [pc |-> "count", of |-> "offline", n |-> n, flag |-> trip.isFull])
  /\ UNCHANGED <<trip, taken, pushes, page>>

\* setOfflineCount: the row is read, the free seats are counted, both are written,
\* the row is read again.
SetOfflineCount(q, n) ==
  /\ Exists /\ n <= Total
  /\ Begin(q, [pc |-> "count", of |-> "offline", n |-> n, flag |-> trip.isFull])
  /\ UNCHANGED <<trip, taken, pushes, page>>

CountAvailableSeats(q) ==
  /\ req[q].pc = "count"
  /\ req' = [req EXCEPT ![q].pc = "write",
                        ![q].flag = Available <= req[q].n /\ ~req[q].flag]
  /\ UNCHANGED <<trip, taken, pushes, page>>

\* Mutant of WriteOffline: isFull is written whether or not the save fills the trip.
WriteOfflineAlways(q) ==
  /\ req[q].pc = "write" /\ Exists
  /\ trip' = [trip EXCEPT !.offlineCount = req[q].n, !.isFull = req[q].flag]
  /\ req' = [req EXCEPT ![q].pc = "read"]
  /\ UNCHANGED <<taken, pushes, page>>

\* Without the row the service answers 404, at the write or at the read after it.
WriteOffline(q) ==
  /\ req[q].pc = "write" /\ Exists
  /\ trip' = [trip EXCEPT !.offlineCount = req[q].n, !.isFull = @ \/ req[q].flag]
  /\ req' = [req EXCEPT ![q].pc = "read"]
  /\ UNCHANGED <<taken, pushes, page>>

\* markFull tells what it wrote, setOfflineCount what it reads by now.
ReadTrip(q) ==
  /\ req[q].pc = "read" /\ Exists
  /\ req' = [req EXCEPT ![q].pc = "emit",
                        ![q].flag = IF req[q].of = "offline" THEN trip.isFull ELSE @]
  /\ UNCHANGED <<trip, taken, pushes, page>>

\* The event goes to the sockets in the trip's room; other requests' events may
\* overtake it.
EmitCapacity(q) ==
  /\ req[q].pc = "emit" /\ Len(pushes) < MaxPush
  /\ pushes' = IF page.connected THEN Append(pushes, req[q].flag) ELSE pushes
  /\ req' = [req EXCEPT ![q] = Idle]
  /\ UNCHANGED <<trip, taken, page>>

\* The operator's page: the form, and per row a switch, a walk-in count, Mark Full
\* or Reopen, and Delete.  A click sends a value, so an old copy does no harm.
AddTripModal == CreateTrip

OperatorRow(q) ==
  \/ \E b \in BOOLEAN : MarkFull(q, b) \/ (ToggleActive(b) /\ req[q] = Idle)
  \/ DeleteTrip

\* A walk-in count from the operator's page or the driver's.
HandleOfflineSave(q) == \E n \in WalkIns : SetOfflineCount(q, n)

DriverCard(q) == \E b \in BOOLEAN : MarkFull(q, b)

\* The row is gone, or a fault: the rest of the request never happens.
Fail(q) ==
  /\ req[q] # Idle
  /\ req' = [req EXCEPT ![q] = Idle]
  /\ UNCHANGED <<trip, taken, pushes, page>>

-------------------------------------------------------------------------------
(* Everybody else's holds, lapses and payments.                             *)

\* A payment settled late takes seats of a trip marked full as well.
OthersMove ==
  /\ Exists
  /\ taken' \in {taken + 1, taken - 1} \cap Seats
  /\ UNCHANGED <<trip, req, pushes, page>>

-------------------------------------------------------------------------------
(* The trip page.                                                           *)

AtTrip == page.at \in {"trip", "holding", "claiming"}

\* A search lists open trips with enough seats, net of walk-ins; it may be old
\* by the time the passenger picks the trip.
SearchTrips ==
  /\ page.at = "search" /\ trip.status # "none"
  /\ page' = [page EXCEPT !.at = "trip", !.fetching = TRUE]
  /\ UNCHANGED <<trip, taken, req, pushes>>

\* The server's copy; the first one of a visit clears the override and sets the
\* quantity to 1, a later one is of the same trip and does neither.
FetchTrip ==
  /\ AtTrip /\ page.fetching /\ Exists
  /\ page' = [page EXCEPT
       !.fetching = FALSE, !.loaded = TRUE,
       !.override = IF page.loaded THEN @ ELSE "none",
       !.quantity = IF page.loaded THEN @ ELSE 1,
       !.copy = [isFull |-> trip.isFull,
                 availableSeats |-> IF Available > trip.offlineCount
                                    THEN Available - trip.offlineCount ELSE 0]]
  /\ UNCHANGED <<trip, taken, req, pushes>>

FetchFails ==
  /\ AtTrip /\ page.fetching
  /\ page' = [page EXCEPT !.fetching = FALSE]
  /\ UNCHANGED <<trip, taken, req, pushes>>

\* On every connect the page joins the trip's room and fetches again.
Connect ==
  /\ AtTrip /\ ~page.connected
  /\ page' = [page EXCEPT !.connected = TRUE, !.fetching = TRUE]
  /\ UNCHANGED <<trip, taken, req, pushes>>

Disconnect ==
  /\ page.connected
  /\ page' = [page EXCEPT !.connected = FALSE] /\ pushes' = <<>>
  /\ UNCHANGED <<trip, taken, req>>

OnCapacityChanged ==
  /\ pushes # <<>>
  /\ pushes' = Tail(pushes)
  /\ page' = IF AtTrip
               THEN [page EXCEPT !.override = IF Head(pushes) THEN "full" ELSE "open"]
               ELSE page
  /\ UNCHANGED <<trip, taken, req>>

DisplaysFull == IF page.override = "none" THEN page.copy.isFull ELSE page.override = "full"

Blocked == DisplaysFull \/ page.copy.availableSeats = 0

\* The stepper keeps the quantity within what the page shows, up to 6.
Quantity ==
  /\ page.at = "trip" /\ page.loaded /\ ~Blocked
  /\ \E n \in (1..page.copy.availableSeats) \ {page.quantity} :
       page' = [page EXCEPT !.quantity = n]
  /\ UNCHANGED <<trip, taken, req, pushes>>

HandleContinue ==
  /\ page.at = "trip" /\ page.loaded /\ ~Blocked
  /\ page' = [page EXCEPT !.at = "holding"]
  /\ UNCHANGED <<trip, taken, req, pushes>>

TripOpen == Exists /\ trip.isActive /\ ~trip.isFull

\* bookingsService.hold checks the trip, and then the inventory claims the seats.
Hold ==
  /\ page.at = "holding" /\ TripOpen
  /\ page' = [page EXCEPT !.at = "claiming"]
  /\ UNCHANGED <<trip, taken, req, pushes>>

\* The page gives way to the checkout: it forgets its copy and leaves the room.
ClaimSeats ==
  /\ page.at = "claiming" /\ Exists /\ page.quantity <= Available
  /\ taken' = taken + page.quantity
  /\ page' = [page EXCEPT !.at = "search", !.connected = FALSE, !.fetching = FALSE,
                          !.loaded = FALSE, !.copy = NoCopy, !.override = "none"]
  /\ pushes' = <<>>
  /\ UNCHANGED <<trip, req>>

\* Refused with a 409 the page fetches again; after any other error it only stays.
Refused ==
  /\ page.at \in {"holding", "claiming"}
  /\ \E refetch \in BOOLEAN :
       page' = [page EXCEPT !.at = "trip", !.fetching = @ \/ refetch]
  /\ UNCHANGED <<trip, taken, req, pushes>>

-------------------------------------------------------------------------------
Staff(q) ==
  \/ AddTripModal \/ OperatorRow(q) \/ DriverCard(q) \/ HandleOfflineSave(q)

GoOn(q) == CountAvailableSeats(q) \/ WriteOffline(q) \/ ReadTrip(q) \/ EmitCapacity(q)

TripPage ==
  \/ SearchTrips \/ FetchTrip \/ FetchFails \/ Connect \/ Disconnect \/ OnCapacityChanged
  \/ Quantity \/ HandleContinue \/ Hold \/ ClaimSeats \/ Refused

Next ==
  \/ \E q \in Request : Staff(q) \/ GoOn(q) \/ Fail(q)
  \/ OthersMove \/ TripPage

Spec == Init /\ [][Next]_vars

-------------------------------------------------------------------------------
(* Properties.                                                             *)

\* Every variable keeps its type.
TypeOK ==
  /\ trip \in Trip /\ taken \in Seats /\ req \in [Request -> Req]
  /\ pushes \in Seq(BOOLEAN) /\ Len(pushes) <= MaxPush
  /\ page \in Page

\* A walk-in count saved from an old copy, or racing with Mark Full, never opens
\* the trip again: only a request to reopen it does.
FullUntilReopened ==
  [][trip.isFull /\ ~trip'.isFull => \E q \in Request : MarkFull(q, FALSE)]_vars

-------------------------------------------------------------------------------
(* Claims of the repository's comments that the code does not meet.        *)

\* On reconnect the page will "re-fetch the trip over HTTP to resync the
\* authoritative seat count" (trips/[id]/page.js): with nothing under way, a
\* fetched copy makes the page show what the row says.
ResyncShowsTheTrip ==
  [][FetchTrip /\ page.connected /\ pushes = <<>> /\ (\A q \in Request : req[q] = Idle)
       => DisplaysFull' = trip.isFull]_vars
===============================================================================
