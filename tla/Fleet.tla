---------------------------------- MODULE Fleet ----------------------------------
(***************************************************************************)
(* An operator's vehicles and drivers, and the dashboards' lists.  Every   *)
(* dashboard shows a page of some table through useServerList: a debounced *)
(* search box, filters and page numbers each start a request, and answers  *)
(* come back in any order.  The fleet's and the drivers' pages also write  *)
(* to their table, as other browsers do.  The administrator's trips page   *)
(* does without the hook and is modelled beside it.                        *)
(***************************************************************************)
EXTENDS Naturals

CONSTANTS Plate, Phone, \* the vehicles' and the drivers' unique keys
          Tab,          \* values of a page's structural filters
          Word,         \* search words
          AllTab, NoWord, Off,
          Handler,      \* writing requests the server may have under way (bound)
          MaxPage,      \* page numbers (bound)
          MaxFetches,   \* list requests of the open page (bound)
          MaxWrites     \* writes to its table (bound)

Row == Plate \cup Phone

ASSUME FleetConstants ==
  /\ Plate \cap Phone = {}
  /\ Plate # {} /\ AllTab \in Tab /\ NoWord \in Word /\ Off \notin Word
  /\ MaxPage \in Nat \ {0} /\ MaxFetches \in Nat \ {0} /\ MaxWrites \in Nat \ {0}

VARIABLES
  rows,    \* the vehicles and drivers; a removed one stays, inactive
  writes,  \* writes to the open page's table, which number its versions
  req,     \* requests that write to it
  open,    \* the page that the browser has open
  list,    \* the state of its list
  fetches, \* its list requests, on their way there or back
  saved    \* the newest version that the page was told of

vars == <<rows, writes, req, open, list, fetches, saved>>

ReadOnly == {"customers", "bookings", "transactions", "operatorTransactions",
             "payments", "tickets"}
Pages    == ReadOnly \cup {"fleet", "drivers", "operatorBookings", "allTrips"}
Hooked   == open # "allTrips"

Version == 0..MaxWrites

Op   == {"addVehicle", "updateVehicle", "removeVehicle", "createDriver", "updateDriver", "other"}
Req  == [pc : {"idle", "write", "ok", "failed"}, op : Op, own : BOOLEAN,
         row : Row, at : Version]
Idle == [pc |-> "idle", op |-> "other", own |-> FALSE, row |-> CHOOSE r \in Row : TRUE, at |-> 0]

Query == [filter : Tab, search : Word, page : 1..MaxPage]

\* at is the version a request was answered from; 0 while the server has not read.
Fetch == [id : 1..MaxFetches, query : Query, at : Version]

\* search is the committed word; timer the one the debounce will commit.
List == [filter : Tab, page : 1..MaxPage, input : Word, search : Word,
         timer : Word \cup {Off}, reqId : 1..MaxFetches,
         loading : BOOLEAN, error : BOOLEAN, shown : [query : Query, at : Version]]

QueryOf(l) == [filter |-> l.filter, search |-> l.search, page |-> l.page]

\* The page has mounted: its first request is out.
Init ==
  /\ rows = [r \in Row |-> "none"]
  /\ writes = 1 /\ saved = 0
  /\ req = [h \in Handler |-> Idle]
  /\ open \in Pages
  /\ list = [filter |-> AllTab, page |-> 1, input |-> NoWord, search |-> NoWord,
             timer |-> IF Hooked THEN NoWord ELSE Off, reqId |-> 1,
             loading |-> TRUE, error |-> FALSE,
             shown |-> [query |-> [filter |-> AllTab, search |-> NoWord, page |-> 1], at |-> 0]]
  /\ fetches = {[id |-> 1, query |-> QueryOf(list), at |-> 0]}

-------------------------------------------------------------------------------
(* The hook, or the trips page's load.                                     *)

Tables == <<rows, writes, req, open>>

\* The effect runs: a new request goes out for what the controls say.
Fetches(l) ==
  /\ list.reqId < MaxFetches
  /\ list' = [l EXCEPT !.reqId = list.reqId + 1, !.loading = TRUE, !.error = FALSE]
  /\ fetches' = fetches \cup {[id |-> list.reqId + 1, query |-> QueryOf(l), at |-> 0]}

\* The effect runs where what it depends on has changed.
Commit(l) ==
  IF QueryOf(l) = QueryOf(list) THEN list' = l /\ UNCHANGED fetches ELSE Fetches(l)

SetSearchInput(w) ==
  /\ w # list.input
  /\ list' = [list EXCEPT !.input = w, !.timer = w]
  /\ UNCHANGED <<Tables, fetches, saved>>

Debounce ==
  /\ list.timer # Off
  /\ Commit([list EXCEPT !.search = list.timer, !.page = 1, !.timer = Off])
  /\ UNCHANGED <<Tables, saved>>

\* A new filters object each time, so that the effect runs even for the same tab.
SetFilter(t) ==
  /\ Fetches([list EXCEPT !.filter = t, !.page = 1])
  /\ UNCHANGED <<Tables, saved>>

\* Mutant of Pagination: Next goes on past the last page.
PaginationEndless ==
  /\ ~list.loading /\ ~list.error
  /\ LET p == list.shown.query.page IN
     \E n \in {p - 1, p + 1} \ {0} : Commit([list EXCEPT !.page = n])
  /\ UNCHANGED <<Tables, saved>>

\* Prev and Next of the page that is shown, while nothing is loading.
Pagination ==
  /\ ~list.loading /\ ~list.error
  /\ LET p == list.shown.query.page IN
     \E n \in {p - 1, p + 1} \cap 1..MaxPage : Commit([list EXCEPT !.page = n])
  /\ UNCHANGED <<Tables, saved>>

Refetch == Fetches(list) /\ UNCHANGED <<Tables, saved>>

\* The server reads a page of the table, again if the client retries.
FindPaginated(f) ==
  /\ f.at # writes
  /\ fetches' = (fetches \ {f}) \cup {[f EXCEPT !.at = writes]}
  /\ UNCHANGED <<Tables, list, saved>>

Show(f, ok) ==
  list' = [list EXCEPT !.loading = FALSE, !.error = ~ok,
                       !.shown = IF ok THEN [query |-> f.query, at |-> f.at] ELSE @]

\* Mutant of UseServerList: an answer is taken, whichever request it is to.
UseServerListAny(f, ok) ==
  /\ ok => f.at > 0
  /\ Show(f, ok)
  /\ fetches' = fetches \ {f}
  /\ UNCHANGED <<Tables, saved>>

\* An answer, or none: the hook takes it if no newer request went out.
UseServerList(f, ok) ==
  /\ ok => f.at > 0
  /\ IF f.id = list.reqId THEN Show(f, ok) ELSE UNCHANGED list
  /\ fetches' = fetches \ {f}
  /\ UNCHANGED <<Tables, saved>>

\* ... and the trips page takes each as it comes.
Load(f, ok) ==
  /\ ok => f.at > 0
  /\ Show(f, ok)
  /\ fetches' = fetches \ {f}
  /\ UNCHANGED <<Tables, saved>>

-------------------------------------------------------------------------------
(* Requests that write.                                                     *)

Begin(h, own, op, r) ==
  /\ req[h] = Idle
  /\ req' = [req EXCEPT ![h] = [pc |-> "write", op |-> op, own |-> own, row |-> r, at |-> 0]]
  /\ UNCHANGED <<rows, writes, open, list, fetches, saved>>

\* The form adds a vehicle or edits a listed one; a listed one is removed on a
\* second click.  The list may be old.
FleetForm(h, own) ==
  \E p \in Plate :
    \/ Begin(h, own, "addVehicle", p)
    \/ rows[p] # "none" /\ \E op \in {"updateVehicle", "removeVehicle"} : Begin(h, own, op, p)

\* No page changes a driver; the interface does.
DriverForm(h, own) ==
  \E p \in Phone :
    \/ Begin(h, own, "createDriver", p)
    \/ ~own /\ rows[p] # "none" /\ Begin(h, own, "updateDriver", p)

Written(h, r, s) ==
  /\ writes < MaxWrites
  /\ rows' = [rows EXCEPT ![r] = s] /\ writes' = writes + 1
  /\ req' = [req EXCEPT ![h].pc = "ok", ![h].at = writes + 1]

Answers(h, op) ==
  /\ req[h].pc = "write" /\ req[h].op = op
  /\ UNCHANGED <<open, list, fetches, saved>>

\* assertCapacity has let it pass; the plate may be taken, if only by a removed vehicle.
AddVehicle(h) ==
  /\ Answers(h, "addVehicle")
  /\ rows[req[h].row] = "none" /\ Written(h, req[h].row, "active")

\* An update leaves active alone.
UpdateVehicle(h) ==
  /\ Answers(h, "updateVehicle")
  /\ Written(h, req[h].row, rows[req[h].row])

RemoveVehicle(h) ==
  /\ Answers(h, "removeVehicle")
  /\ Written(h, req[h].row, "inactive")

CreateDriver(h) ==
  /\ Answers(h, "createDriver")
  /\ rows[req[h].row] = "none" /\ Written(h, req[h].row, "active")

UpdateDriver(h) ==
  /\ Answers(h, "updateDriver")
  /\ \E s \in {"active", "inactive"} : Written(h, req[h].row, s)

\* Bookings, payments and users change too.
OthersWrite(h) ==
  /\ req[h] = Idle /\ open \notin {"fleet", "drivers"} /\ writes < MaxWrites
  /\ req' = [req EXCEPT ![h] = [Idle EXCEPT !.pc = "ok", !.at = writes + 1]]
  /\ writes' = writes + 1
  /\ UNCHANGED <<rows, open, list, fetches, saved>>

\* A conflict, an invalid body or a failing query.
Refuse(h) ==
  /\ req[h].pc = "write"
  /\ req' = [req EXCEPT ![h].pc = "failed"]
  /\ UNCHANGED <<rows, writes, open, list, fetches, saved>>

\* Mutant of Told: no new request while one is loading.
ToldUnlessLoading(v) ==
  /\ saved' = IF v > saved THEN v ELSE saved
  /\ IF list.loading THEN UNCHANGED <<list, fetches>> ELSE Fetches(list)

\* The page hears of a write: it fetches its list again.
Told(v) ==
  /\ saved' = IF v > saved THEN v ELSE saved
  /\ Fetches(list)

\* The answer to the page that asked closes its form.  Other clients' are nothing
\* to it, but for booking:created, which a broken socket loses.
Hear(h) ==
  /\ req[h].pc = "ok"
  /\ req[h].own \/ open = "operatorBookings"
  /\ req' = [req EXCEPT ![h] = Idle]
  /\ Told(req[h].at)
  /\ UNCHANGED <<rows, writes, open>>

\* An error's message, an answer lost, or one that is nothing to the page.
HearNothing(h) ==
  /\ req[h].pc \in {"ok", "failed"}
  /\ req' = [req EXCEPT ![h] = Idle]
  /\ UNCHANGED <<rows, writes, open, list, fetches, saved>>

-------------------------------------------------------------------------------
(* The pages, and the controls that each has.                              *)

Find     == \E w \in Word : SetSearchInput(w)
Filter   == \E t \in Tab : SetFilter(t)
Controls == Find \/ Filter \/ Pagination

FleetPage(h) == open = "fleet" /\ (Controls \/ Refetch \/ FleetForm(h, TRUE))

DriversPage(h) == open = "drivers" /\ (Controls \/ Refetch \/ DriverForm(h, TRUE))

OperatorBookingsPage     == open = "operatorBookings" /\ (Controls \/ Refetch)
CustomersPage            == open = "customers" /\ Controls
BookingsPage             == open = "bookings" /\ Controls
TransactionsPage         == open = "transactions" /\ Controls
OperatorTransactionsPage == open = "operatorTransactions" /\ Controls
PaymentsPage             == open = "payments" /\ Controls
TicketsPage              == open = "tickets" /\ (Find \/ Pagination)

\* The trips page goes to any page, also after an error; its page size starts a
\* request only if it changes; clearing its search box leaves the timer running.
GoTo == ~list.loading /\ \E n \in 1..MaxPage : Commit([list EXCEPT !.page = n])

HandleLimitChange == \E t \in Tab : Commit([list EXCEPT !.filter = t, !.page = 1])

ClearSearch ==
  /\ list.input # NoWord
  /\ Commit([list EXCEPT !.input = NoWord, !.search = NoWord, !.page = 1])

AllTripsPage ==
  /\ open = "allTrips"
  /\ \/ Find
     \/ (GoTo \/ HandleLimitChange \/ ClearSearch) /\ UNCHANGED <<Tables, saved>>

OtherClients(h) ==
  \/ open = "fleet" /\ FleetForm(h, FALSE)
  \/ open = "drivers" /\ DriverForm(h, FALSE)
  \/ OthersWrite(h)

ServerAnswers(f) ==
  \/ FindPaginated(f)
  \/ \E ok \in BOOLEAN : \/ Hooked /\ UseServerList(f, ok)
                         \/ ~Hooked /\ Load(f, ok)

Next ==
  \/ Debounce \/ \E f \in fetches : ServerAnswers(f)
  \/ \E h \in Handler :
       \/ FleetPage(h) \/ DriversPage(h) \/ OtherClients(h)
       \/ AddVehicle(h) \/ UpdateVehicle(h) \/ RemoveVehicle(h)
       \/ CreateDriver(h) \/ UpdateDriver(h) \/ Refuse(h)
       \/ Hear(h) \/ HearNothing(h)
  \/ OperatorBookingsPage \/ CustomersPage \/ BookingsPage \/ TransactionsPage
  \/ OperatorTransactionsPage \/ PaymentsPage \/ TicketsPage \/ AllTripsPage

Spec == Init /\ [][Next]_vars

-------------------------------------------------------------------------------
(* Properties.                                                             *)

\* Every variable keeps its type.
TypeOK ==
  /\ rows \in [Row -> {"none", "active", "inactive"}]
  /\ writes \in 1..MaxWrites /\ saved \in Version
  /\ req \in [Handler -> Req]
  /\ open \in Pages
  /\ list \in List
  /\ fetches \subseteq Fetch

\* "Out-of-order responses are dropped (last request wins)" (useServerList.ts): a
\* list that is not loading shows what the server had for what its controls say,
\* or an error; and it does not go on loading when nothing is on its way.
LastRequestWins ==
  /\ Hooked => \/ list.loading \/ list.error
               \/ list.shown.query = QueryOf(list)
  /\ Hooked /\ list.timer = Off => list.search = list.input
  /\ list.loading => fetches # {}

\* A page that was told of a write, its own or a pushed one, and is not loading,
\* does not show the table from before it, however old the answers still to come.
ReadsItsOwnWrites ==
  Hooked => list.loading \/ list.error \/ list.shown.at >= saved

\* A list never goes back in time: of two answers it shows, retried, reordered or to
\* different queries, the later one was not read from an older table.
NeverBackInTime == [][Hooked => list'.shown.at >= list.shown.at]_vars
===============================================================================
