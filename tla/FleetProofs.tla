------------------------------ MODULE FleetProofs ------------------------------
(***************************************************************************)
(* Proofs about Fleet, for any number of writers, filters, words and       *)
(* pages.  The hook's promise rests on its request numbers: the newest     *)
(* request on its way asks for what the controls say and was read no       *)
(* earlier than the last write the page was told of.                       *)
(***************************************************************************)
EXTENDS Fleet, TLAPS

\* No request is newer than the list's, and one as new asks what the list wants.
Newest ==
  \A f \in fetches :
    /\ f.id <= list.reqId
    /\ f.id = list.reqId => /\ f.query = QueryOf(list)
                            /\ f.at # 0 => f.at >= saved

\* A page that is loading has a request out, the newest where the hook waits for it.
Coming ==
  list.loading => \E f \in fetches : Hooked => f.id = list.reqId

Fresh ==
  Hooked => \/ list.loading \/ list.error
            \/ list.shown.query = QueryOf(list) /\ list.shown.at >= saved

Typing ==
  Hooked => /\ list.timer # Off => list.timer = list.input
            /\ list.timer = Off => list.search = list.input

\* Nobody was told of a write that was not made.
Known == saved <= writes /\ \A h \in Handler : req[h].at <= writes

IInv == TypeOK /\ Newest /\ Coming /\ Fresh /\ Typing /\ Known

-------------------------------------------------------------------------------
(* Types.                                                                  *)

LEMMA IdleType == Idle \in Req
<1>1. (CHOOSE r \in Row : TRUE) \in Row
  BY FleetConstants DEF Row
<1> QED BY <1>1, FleetConstants DEF Idle, Req, Op, Version

LEMMA QueryType == \A l \in List : QueryOf(l) \in Query
BY DEF List, QueryOf, Query

\* A request keeps the types if the list it is made from does.
LEMMA FetchesType ==
  ASSUME TypeOK, NEW l \in List, Fetches(l)
  PROVE  list' \in List /\ fetches' \subseteq Fetch
<1>1. list.reqId + 1 \in 1..MaxFetches
  BY FleetConstants DEF Fetches, TypeOK, List
<1>2. list' \in List
  BY <1>1 DEF Fetches, List
<1>3. [id |-> list.reqId + 1, query |-> QueryOf(l), at |-> 0] \in Fetch
  BY <1>1, QueryType, FleetConstants DEF Fetch, Version
<1> QED BY <1>2, <1>3 DEF Fetches, TypeOK

LEMMA CommitType ==
  ASSUME TypeOK, NEW l \in List, Commit(l)
  PROVE  list' \in List /\ fetches' \subseteq Fetch
BY FetchesType DEF Commit, TypeOK

LEMMA ShowType ==
  ASSUME TypeOK, NEW f \in fetches, NEW ok \in BOOLEAN, Show(f, ok)
  PROVE  list' \in List
BY DEF Show, TypeOK, List, Fetch

\* A request of a handler that changes keeps its type.
LEMMA BeginType ==
  ASSUME TypeOK, NEW h \in Handler, NEW own \in BOOLEAN, NEW op \in Op, NEW r \in Row,
         Begin(h, own, op, r)
  PROVE  TypeOK'
<1>1. [pc |-> "write", op |-> op, own |-> own, row |-> r, at |-> 0] \in Req
  BY FleetConstants DEF Req, Version
<1> QED BY <1>1 DEF Begin, TypeOK

LEMMA WrittenType ==
  ASSUME TypeOK, NEW h \in Handler, NEW r \in Row, NEW s \in {"active", "inactive", "none"},
         Written(h, r, s)
  PROVE  rows' \in [Row -> {"none", "active", "inactive"}] /\ writes' \in 1..MaxWrites
         /\ req' \in [Handler -> Req]
<1>1. writes + 1 \in 1..MaxWrites /\ writes + 1 \in Version
  BY FleetConstants DEF Written, TypeOK, Version
<1>2. req' \in [Handler -> Req]
  BY <1>1 DEF Written, TypeOK, Req
<1> QED BY <1>1, <1>2 DEF Written, TypeOK

-------------------------------------------------------------------------------
(* The list's own steps.                                                   *)

\* A new request is the newest, and nothing is known of its answer.
LEMMA FetchesInv ==
  ASSUME IInv, NEW l \in List, Fetches(l), UNCHANGED open
  PROVE  Newest' /\ Coming' /\ Fresh'
<1> DEFINE g == [id |-> list.reqId + 1, query |-> QueryOf(l), at |-> 0]
<1>1. /\ list.reqId \in Nat /\ list'.reqId = list.reqId + 1 /\ list'.loading = TRUE
      /\ QueryOf(list') = QueryOf(l) /\ fetches' = fetches \cup {g}
  BY DEF Fetches, IInv, TypeOK, List, QueryOf
<1>2. \A f \in fetches : f.id \in Nat /\ f.id <= list.reqId
  BY DEF IInv, TypeOK, Newest, Fetch
<1>3. Newest'
  <2> SUFFICES ASSUME NEW f \in fetches'
               PROVE  /\ f.id <= list'.reqId
                      /\ f.id = list'.reqId => /\ f.query = QueryOf(list')
                                               /\ f.at # 0 => f.at >= saved'
    BY DEF Newest
  <2>1. CASE f = g
    BY <1>1, <2>1
  <2>2. CASE f \in fetches
    BY <1>1, <1>2, <2>2
  <2> QED BY <1>1, <2>1, <2>2
<1>4. Coming'
  <2>1. g \in fetches' /\ g.id = list'.reqId
    BY <1>1
  <2> QED BY <2>1 DEF Coming
<1>5. Fresh'
  BY <1>1 DEF Fresh
<1> QED BY <1>3, <1>4, <1>5

\* Controls that change start a request; others leave its promise alone.
LEMMA CommitInv ==
  ASSUME IInv, NEW l \in List, Commit(l), UNCHANGED <<open, saved>>,
         l.reqId = list.reqId, l.loading = list.loading, l.error = list.error,
         l.shown = list.shown
  PROVE  Newest' /\ Coming' /\ Fresh'
<1>1. CASE QueryOf(l) = QueryOf(list)
  BY <1>1 DEF Commit, IInv, Newest, Coming, Fresh, Hooked
<1>2. CASE QueryOf(l) # QueryOf(list)
  BY <1>2, FetchesInv DEF Commit
<1> QED BY <1>1, <1>2

\* What was typed, committed or waits stays in step where the list takes it over.
LEMMA CommitTyping ==
  ASSUME IInv, NEW l \in List, Commit(l) \/ Fetches(l), UNCHANGED open,
         Hooked => /\ l.timer # Off => l.timer = l.input
                   /\ l.timer = Off => l.search = l.input
  PROVE  Typing'
BY DEF Commit, Fetches, Typing, Hooked, List

LEMMA KnownStays ==
  ASSUME IInv, UNCHANGED <<writes, req, saved>>
  PROVE  Known'
BY DEF IInv, Known

LEMMA SetSearchInputStep ==
  ASSUME IInv, NEW w \in Word, SetSearchInput(w)
  PROVE  IInv'
<1>1. list' = [list EXCEPT !.input = w, !.timer = w] /\ list' \in List
  BY DEF SetSearchInput, IInv, TypeOK, List
<1>2. TypeOK'
  BY <1>1 DEF SetSearchInput, Tables, IInv, TypeOK
<1>3. QueryOf(list') = QueryOf(list)
  BY <1>1 DEF QueryOf, IInv, TypeOK, List
<1>4. Newest' /\ Coming' /\ Fresh'
  BY <1>1, <1>3 DEF SetSearchInput, Tables, IInv, TypeOK, List, Newest, Coming, Fresh, Hooked
<1>5. Typing'
  BY <1>1, FleetConstants DEF Typing, IInv, TypeOK, List
<1> QED BY <1>2, <1>4, <1>5, KnownStays DEF SetSearchInput, Tables, IInv

\* A step that only commits other controls.
LEMMA CommitStep ==
  ASSUME IInv, NEW l \in List, Commit(l), UNCHANGED <<Tables, saved>>,
         l.reqId = list.reqId, l.loading = list.loading, l.error = list.error,
         l.shown = list.shown,
         Hooked => /\ l.timer # Off => l.timer = l.input
                   /\ l.timer = Off => l.search = l.input
  PROVE  IInv'
<1>1. TypeOK'
  BY CommitType DEF Tables, IInv, TypeOK
<1>2. Newest' /\ Coming' /\ Fresh'
  BY CommitInv DEF Tables
<1>3. Typing' /\ Known'
  BY CommitTyping, KnownStays DEF Tables
<1> QED BY <1>1, <1>2, <1>3 DEF IInv

\* ... or starts a request in any case.
LEMMA FetchesStep ==
  ASSUME IInv, NEW l \in List, Fetches(l), UNCHANGED <<Tables, saved>>,
         Hooked => /\ l.timer # Off => l.timer = l.input
                   /\ l.timer = Off => l.search = l.input
  PROVE  IInv'
<1>1. TypeOK'
  BY FetchesType DEF Tables, IInv, TypeOK
<1>2. Newest' /\ Coming' /\ Fresh'
  BY FetchesInv DEF Tables
<1>3. Typing' /\ Known'
  BY CommitTyping, KnownStays DEF Tables
<1> QED BY <1>1, <1>2, <1>3 DEF IInv

LEMMA ControlsStep ==
  ASSUME IInv, Controls \/ Refetch \/ Debounce
  PROVE  IInv'
<1>1. ASSUME NEW w \in Word, SetSearchInput(w) PROVE IInv'
  BY <1>1, SetSearchInputStep
<1>2. ASSUME NEW t \in Tab, SetFilter(t) PROVE IInv'
  <2> DEFINE l == [list EXCEPT !.filter = t, !.page = 1]
  <2>0. list \in List /\ 1 \in 1..MaxPage
    BY FleetConstants DEF IInv, TypeOK
  <2>1. l \in List /\ l.timer = list.timer /\ l.input = list.input /\ l.search = list.search
    BY <2>0 DEF List
  <2>2. Fetches(l) /\ UNCHANGED <<Tables, saved>>
    BY <1>2 DEF SetFilter
  <2> HIDE DEF l
  <2> QED BY <2>1, <2>2, FetchesStep DEF IInv, Typing
<1>3. CASE Pagination
  <2>1. PICK n \in 1..MaxPage : Commit([list EXCEPT !.page = n])
    BY <1>3 DEF Pagination
  <2> DEFINE l == [list EXCEPT !.page = n]
  <2>2. /\ l \in List /\ l.timer = list.timer /\ l.input = list.input
        /\ l.search = list.search /\ l.reqId = list.reqId /\ l.loading = list.loading
        /\ l.error = list.error /\ l.shown = list.shown
    BY DEF IInv, TypeOK, List
  <2>3. Commit(l) /\ UNCHANGED <<Tables, saved>>
    BY <1>3, <2>1 DEF Pagination
  <2> HIDE DEF l
  <2> QED BY <2>2, <2>3, CommitStep DEF IInv, Typing
<1>4. CASE Refetch
  <2>1. list \in List /\ Fetches(list) /\ UNCHANGED <<Tables, saved>>
    BY <1>4 DEF Refetch, IInv, TypeOK
  <2> QED BY <2>1, FetchesStep DEF IInv, Typing
<1>5. CASE Debounce
  <2> DEFINE l == [list EXCEPT !.search = list.timer, !.page = 1, !.timer = Off]
  <2>0. list \in List /\ 1 \in 1..MaxPage /\ list.timer \in Word
    BY <1>5, FleetConstants DEF Debounce, IInv, TypeOK, List
  <2>1. /\ l \in List /\ l.timer = Off /\ l.input = list.input
        /\ l.search = list.timer /\ l.reqId = list.reqId /\ l.loading = list.loading
        /\ l.error = list.error /\ l.shown = list.shown
    BY <2>0 DEF List
  <2>2. Commit(l) /\ UNCHANGED <<Tables, saved>>
    BY <1>5 DEF Debounce
  <2>3. Hooked => l.search = l.input
    BY <1>5, <2>1 DEF Debounce, IInv, Typing
  <2> HIDE DEF l
  <2> QED BY <2>1, <2>2, <2>3, CommitStep
<1> QED BY <1>1, <1>2, <1>3, <1>4, <1>5 DEF Controls, Find, Filter
-------------------------------------------------------------------------------
(* Answers.                                                                *)

\* The list keeps its controls when it shows an answer.
LEMMA ShowKeeps ==
  ASSUME TypeOK, NEW f \in fetches, NEW ok \in BOOLEAN, Show(f, ok)
  PROVE  /\ QueryOf(list') = QueryOf(list) /\ list'.reqId = list.reqId
         /\ list'.timer = list.timer /\ list'.input = list.input
         /\ list'.search = list.search /\ list'.loading = FALSE
         /\ list'.error = ~ok
         /\ ok => list'.shown.query = f.query /\ list'.shown.at = f.at
BY DEF Show, TypeOK, List, QueryOf

LEMMA FindPaginatedStep ==
  ASSUME IInv, NEW f \in fetches, FindPaginated(f)
  PROVE  IInv'
<1> DEFINE g == [f EXCEPT !.at = writes]
<1>1. /\ fetches' = (fetches \ {f}) \cup {g}
      /\ UNCHANGED <<rows, writes, req, open, list, saved>>
  BY DEF FindPaginated, Tables
<1>2. g \in Fetch /\ g.id = f.id /\ g.query = f.query /\ g.at = writes /\ writes >= saved
  BY FleetConstants DEF IInv, TypeOK, Fetch, Known, Version
<1>3. TypeOK'
  BY <1>1, <1>2 DEF IInv, TypeOK
<1>4. Newest'
  BY <1>1, <1>2 DEF IInv, Newest, QueryOf
<1>5. Coming'
  <2> SUFFICES ASSUME list.loading
               PROVE  \E e \in fetches' : Hooked => e.id = list.reqId
    BY <1>1 DEF Coming, Hooked
  <2>1. PICK e \in fetches : Hooked => e.id = list.reqId
    BY DEF IInv, Coming
  <2>2. CASE e = f
    BY <1>1, <1>2, <2>1, <2>2
  <2>3. CASE e # f
    BY <1>1, <2>1, <2>3
  <2> QED BY <2>2, <2>3
<1>6. Fresh' /\ Typing' /\ Known'
  BY <1>1 DEF IInv, Fresh, Typing, Known, Hooked, QueryOf
<1> QED BY <1>3, <1>4, <1>5, <1>6 DEF IInv

\* The hook: only the newest request's answer is shown.
LEMMA UseServerListStep ==
  ASSUME IInv, Hooked, NEW f \in fetches, NEW ok \in BOOLEAN, UseServerList(f, ok)
  PROVE  IInv'
<1>1. fetches' = fetches \ {f} /\ UNCHANGED <<rows, writes, req, open, saved>>
  BY DEF UseServerList, Tables
<1>2. CASE f.id # list.reqId
  <2>1. list' = list
    BY <1>2 DEF UseServerList
  <2>2. TypeOK' /\ Newest' /\ Fresh' /\ Typing' /\ Known'
    BY <1>1, <2>1 DEF IInv, TypeOK, Newest, Fresh, Typing, Known, Hooked, QueryOf
  <2>3. Coming'
    BY <1>1, <1>2, <2>1 DEF IInv, Coming, Hooked
  <2> QED BY <2>2, <2>3 DEF IInv
<1>3. CASE f.id = list.reqId
  <2>1. Show(f, ok)
    BY <1>3 DEF UseServerList
  <2>2. TypeOK'
    BY <1>1, <2>1, ShowType DEF IInv, TypeOK
  <2>3. Newest' /\ Coming' /\ Typing' /\ Known'
    BY <1>1, <2>1, ShowKeeps DEF IInv, Newest, Coming, Typing, Known, Hooked
  <2>4. Fresh'
    <3>1. ok => f.query = QueryOf(list) /\ f.at >= saved
      BY <1>3 DEF UseServerList, IInv, Newest, TypeOK, Fetch, Version
    <3> QED BY <1>1, <2>1, <3>1, ShowKeeps DEF IInv, Fresh, Hooked
  <2> QED BY <2>2, <2>3, <2>4 DEF IInv
<1> QED BY <1>2, <1>3

\* The trips page shows what comes.
LEMMA LoadStep ==
  ASSUME IInv, ~Hooked, NEW f \in fetches, NEW ok \in BOOLEAN, Load(f, ok)
  PROVE  IInv'
<1>1. fetches' = fetches \ {f} /\ UNCHANGED <<rows, writes, req, open, saved>> /\ Show(f, ok)
  BY DEF Load, Tables
<1>2. TypeOK'
  BY <1>1, ShowType DEF IInv, TypeOK
<1>3. Newest' /\ Coming' /\ Typing' /\ Known' /\ Fresh'
  BY <1>1, ShowKeeps DEF IInv, Newest, Coming, Typing, Known, Hooked, Fresh
<1> QED BY <1>2, <1>3 DEF IInv

-------------------------------------------------------------------------------
(* Requests that write.                                                    *)

\* Steps that leave the list, its requests and what it was told alone.
LEMMA ListStays ==
  ASSUME IInv, UNCHANGED <<open, list, fetches, saved>>
  PROVE  Newest' /\ Coming' /\ Fresh' /\ Typing'
BY DEF IInv, Newest, Coming, Fresh, Typing, Hooked, QueryOf

LEMMA BeginStep ==
  ASSUME IInv, NEW h \in Handler, NEW own \in BOOLEAN, NEW op \in Op, NEW r \in Row,
         Begin(h, own, op, r)
  PROVE  IInv'
<1>1. UNCHANGED <<rows, writes, open, list, fetches, saved>>
  BY DEF Begin
<1>2. TypeOK'
  BY BeginType DEF IInv
<1>3. Known'
  BY <1>1 DEF Begin, IInv, Known, TypeOK
<1> QED BY <1>1, <1>2, <1>3, ListStays DEF IInv

LEMMA FormStep ==
  ASSUME IInv, NEW h \in Handler, NEW own \in BOOLEAN, FleetForm(h, own) \/ DriverForm(h, own)
  PROVE  IInv'
<1>1. CASE FleetForm(h, own)
  BY <1>1, BeginStep DEF FleetForm, Op, Row
<1>2. CASE DriverForm(h, own)
  BY <1>2, BeginStep DEF DriverForm, Op, Row
<1> QED BY <1>1, <1>2

LEMMA WrittenStep ==
  ASSUME IInv, NEW h \in Handler, NEW r \in Row, NEW s \in {"active", "inactive", "none"},
         Written(h, r, s), UNCHANGED <<open, list, fetches, saved>>
  PROVE  IInv'
<1>1. rows' \in [Row -> {"none", "active", "inactive"}] /\ writes' \in 1..MaxWrites
      /\ req' \in [Handler -> Req]
  BY WrittenType DEF IInv
<1>2. TypeOK'
  BY <1>1 DEF IInv, TypeOK
<1>3. writes' = writes + 1 /\ req' = [req EXCEPT ![h].pc = "ok", ![h].at = writes + 1]
  BY DEF Written
<1>4. \A i \in Handler : req[i].at \in Nat /\ req'[i].at <= writes + 1
  BY <1>3, FleetConstants DEF IInv, TypeOK, Req, Version, Known
<1>5. Known'
  BY <1>3, <1>4, FleetConstants DEF IInv, TypeOK, Version, Known
<1> QED BY <1>2, <1>5, ListStays DEF IInv

LEMMA WritesStep ==
  ASSUME IInv, NEW h \in Handler,
         \/ AddVehicle(h) \/ UpdateVehicle(h) \/ RemoveVehicle(h)
         \/ CreateDriver(h) \/ UpdateDriver(h)
  PROVE  IInv'
<1>1. UNCHANGED <<open, list, fetches, saved>>
  BY DEF AddVehicle, UpdateVehicle, RemoveVehicle, CreateDriver, UpdateDriver, Answers
<1>2. req[h].row \in Row /\ rows[req[h].row] \in {"active", "inactive", "none"}
  BY DEF IInv, TypeOK, Req
<1>3. \E s \in {"active", "inactive", "none"} : Written(h, req[h].row, s)
  BY <1>2 DEF AddVehicle, UpdateVehicle, RemoveVehicle, CreateDriver, UpdateDriver
<1> QED BY <1>1, <1>2, <1>3, WrittenStep

LEMMA OthersWriteStep ==
  ASSUME IInv, NEW h \in Handler, OthersWrite(h)
  PROVE  IInv'
<1> DEFINE q == [Idle EXCEPT !.pc = "ok", !.at = writes + 1]
<1>1. /\ req' = [req EXCEPT ![h] = q] /\ writes' = writes + 1 /\ writes < MaxWrites
      /\ UNCHANGED <<rows, open, list, fetches, saved>>
  BY DEF OthersWrite
<1>2. writes \in Nat /\ writes + 1 \in 1..MaxWrites /\ writes + 1 \in Version
  BY <1>1, FleetConstants DEF IInv, TypeOK, Version
<1>3. q \in Req /\ q.at = writes + 1
  BY <1>2, IdleType DEF Req
<1> HIDE DEF q
<1>4. TypeOK'
  BY <1>1, <1>2, <1>3 DEF IInv, TypeOK
<1>5. Known'
  BY <1>1, <1>2, <1>3, FleetConstants DEF IInv, TypeOK, Req, Version, Known
<1> QED BY <1>1, <1>4, <1>5, ListStays DEF IInv

LEMMA RefuseStep ==
  ASSUME IInv, NEW h \in Handler, Refuse(h)
  PROVE  IInv'
<1>1. req' = [req EXCEPT ![h].pc = "failed"] /\ UNCHANGED <<rows, writes, open, list, fetches, saved>>
  BY DEF Refuse
<1>2. TypeOK'
  BY <1>1 DEF IInv, TypeOK, Req
<1>3. Known'
  BY <1>1 DEF IInv, TypeOK, Req, Known
<1> QED BY <1>1, <1>2, <1>3, ListStays DEF IInv

LEMMA HearNothingStep ==
  ASSUME IInv, NEW h \in Handler, HearNothing(h)
  PROVE  IInv'
<1>1. req' = [req EXCEPT ![h] = Idle] /\ UNCHANGED <<rows, writes, open, list, fetches, saved>>
  BY DEF HearNothing
<1>2. TypeOK'
  BY <1>1, IdleType DEF IInv, TypeOK
<1>3. Known'
  BY <1>1, FleetConstants DEF IInv, TypeOK, Known, Idle
<1> QED BY <1>1, <1>2, <1>3, ListStays DEF IInv

\* The page hears of a write: the request it starts will be read after that write.
LEMMA HearStep ==
  ASSUME IInv, NEW h \in Handler, Hear(h)
  PROVE  IInv'
<1>1. /\ req' = [req EXCEPT ![h] = Idle] /\ UNCHANGED <<rows, writes, open>>
      /\ Fetches(list) /\ list \in List
  BY DEF Hear, Told, IInv, TypeOK
<1>2. req[h].at \in Version /\ req[h].at <= writes /\ saved <= writes
  BY DEF IInv, TypeOK, Req, Known
<1>3. saved' \in Version /\ saved' <= writes
  BY <1>2 DEF Hear, Told, IInv, TypeOK
<1>4. TypeOK'
  BY <1>1, <1>3, FetchesType, IdleType DEF IInv, TypeOK
<1>5. Newest' /\ Coming' /\ Fresh'
  BY <1>1, FetchesInv
<1>6. Typing'
  BY <1>1, CommitTyping DEF IInv, Typing
<1>7. Known'
  BY <1>1, <1>3, FleetConstants DEF IInv, TypeOK, Known, Idle
<1> QED BY <1>4, <1>5, <1>6, <1>7 DEF IInv
-------------------------------------------------------------------------------
(* The pages and the theorems.                                             *)

LEMMA AllTripsPageStep ==
  ASSUME IInv, AllTripsPage
  PROVE  IInv'
<1>0. open = "allTrips" /\ ~Hooked
  BY DEF AllTripsPage, Hooked
<1>1. CASE Find
  BY <1>1, SetSearchInputStep DEF Find
<1>2. ASSUME (GoTo \/ HandleLimitChange \/ ClearSearch) /\ UNCHANGED <<Tables, saved>>
      PROVE  IInv'
  <2>1. 1 \in 1..MaxPage /\ NoWord \in Word /\ list \in List
    BY FleetConstants DEF IInv, TypeOK
  <2>2. PICK l \in List : /\ Commit(l) /\ l.reqId = list.reqId /\ l.loading = list.loading
                          /\ l.error = list.error /\ l.shown = list.shown
    <3>1. ASSUME NEW n \in 1..MaxPage PROVE
            LET l == [list EXCEPT !.page = n]
            IN  /\ l \in List /\ l.reqId = list.reqId /\ l.loading = list.loading
                /\ l.error = list.error /\ l.shown = list.shown
      BY <2>1 DEF List
    <3>2. ASSUME NEW t \in Tab PROVE
            LET l == [list EXCEPT !.filter = t, !.page = 1]
            IN  /\ l \in List /\ l.reqId = list.reqId /\ l.loading = list.loading
                /\ l.error = list.error /\ l.shown = list.shown
      BY <2>1 DEF List
    <3>3. LET l == [list EXCEPT !.input = NoWord, !.search = NoWord, !.page = 1]
          IN  /\ l \in List /\ l.reqId = list.reqId /\ l.loading = list.loading
              /\ l.error = list.error /\ l.shown = list.shown
      BY <2>1 DEF List
    <3>4. CASE GoTo
      <4>1. PICK n \in 1..MaxPage : Commit([list EXCEPT !.page = n])
        BY <3>4 DEF GoTo
      <4> QED BY <3>1, <4>1
    <3>5. CASE HandleLimitChange
      <4>1. PICK t \in Tab : Commit([list EXCEPT !.filter = t, !.page = 1])
        BY <3>5 DEF HandleLimitChange
      <4> QED BY <3>2, <4>1
    <3>6. CASE ClearSearch
      BY <3>3, <3>6 DEF ClearSearch
    <3> QED BY <1>2, <3>4, <3>5, <3>6
  <2> QED BY <1>0, <1>2, <2>2, CommitStep
<1> QED BY <1>1, <1>2 DEF AllTripsPage

LEMMA InitInv == Init => IInv
<1> SUFFICES ASSUME Init PROVE IInv
  OBVIOUS
<1>1. AllTab \in Tab /\ NoWord \in Word /\ 1 \in 1..MaxPage /\ 1 \in 1..MaxFetches
      /\ 1 \in 1..MaxWrites /\ 0 \in Version /\ Off # NoWord
  BY FleetConstants DEF Version
<1>2. list \in List
  BY <1>1 DEF Init, List, Query
<1>3. fetches = {[id |-> 1, query |-> QueryOf(list), at |-> 0]} /\ fetches \subseteq Fetch
  BY <1>1, <1>2, QueryType DEF Init, Fetch
<1>4. TypeOK
  BY <1>1, <1>2, <1>3, IdleType DEF Init, TypeOK
<1>5. Newest /\ Coming /\ Fresh
  BY <1>3 DEF Init, Newest, Coming, Fresh
<1>6. Typing
  BY <1>1 DEF Init, Typing
<1>7. Known
  BY DEF Init, Known, Idle
<1> QED BY <1>4, <1>5, <1>6, <1>7 DEF IInv

LEMMA NextInv == IInv /\ [Next]_vars => IInv'
<1> SUFFICES ASSUME IInv, [Next]_vars PROVE IInv'
  OBVIOUS
<1>1. CASE UNCHANGED vars
  BY <1>1, KnownStays, ListStays DEF vars, IInv, TypeOK
<1>2. CASE Debounce
  BY <1>2, ControlsStep
<1>3. ASSUME NEW f \in fetches, ServerAnswers(f) PROVE IInv'
  BY <1>3, FindPaginatedStep, UseServerListStep, LoadStep DEF ServerAnswers
<1>4. ASSUME NEW h \in Handler,
             \/ FleetPage(h) \/ DriversPage(h) \/ OtherClients(h)
             \/ AddVehicle(h) \/ UpdateVehicle(h) \/ RemoveVehicle(h)
             \/ CreateDriver(h) \/ UpdateDriver(h) \/ Refuse(h)
             \/ Hear(h) \/ HearNothing(h)
      PROVE  IInv'
  <2>1. CASE FleetPage(h)
    BY <2>1, ControlsStep, FormStep DEF FleetPage
  <2>2. CASE DriversPage(h)
    BY <2>2, ControlsStep, FormStep DEF DriversPage
  <2>3. CASE OtherClients(h)
    BY <2>3, FormStep, OthersWriteStep DEF OtherClients
  <2>4. CASE \/ AddVehicle(h) \/ UpdateVehicle(h) \/ RemoveVehicle(h)
             \/ CreateDriver(h) \/ UpdateDriver(h)
    BY <2>4, WritesStep
  <2>5. CASE Refuse(h) \/ Hear(h) \/ HearNothing(h)
    BY <2>5, RefuseStep, HearStep, HearNothingStep
  <2> QED BY <1>4, <2>1, <2>2, <2>3, <2>4, <2>5
<1>5. CASE \/ OperatorBookingsPage \/ CustomersPage \/ BookingsPage \/ TransactionsPage
           \/ OperatorTransactionsPage \/ PaymentsPage \/ TicketsPage
  BY <1>5, ControlsStep
     DEF OperatorBookingsPage, CustomersPage, BookingsPage, TransactionsPage,
         OperatorTransactionsPage, PaymentsPage, TicketsPage, Controls
<1>6. CASE AllTripsPage
  BY <1>6, AllTripsPageStep
<1> QED BY <1>1, <1>2, <1>3, <1>4, <1>5, <1>6 DEF Next

LEMMA IInvHolds == Spec => []IInv
BY InitInv, NextInv, PTL DEF Spec

\* The tables, the list and its requests keep their types.
THEOREM FleetTypes == Spec => []TypeOK
<1>1. IInv => TypeOK
  BY DEF IInv
<1> QED BY <1>1, IInvHolds, PTL

\* However answers are reordered, delayed or lost, a list at rest shows what its
\* controls say (useServerList's request numbers).
THEOREM LastWins == Spec => []LastRequestWins
<1>1. IInv => LastRequestWins
  BY DEF IInv, Fresh, Typing, Coming, LastRequestWins
<1> QED BY <1>1, IInvHolds, PTL

\* A refetch after a write is never answered, or overtaken, by the table from before.
THEOREM OwnWritesShow == Spec => []ReadsItsOwnWrites
<1>1. IInv => ReadsItsOwnWrites
  BY DEF IInv, Fresh, ReadsItsOwnWrites
<1> QED BY <1>1, IInvHolds, PTL

-------------------------------------------------------------------------------
(* Monotone reads.                                                         *)

\* No two requests have one number; nothing was read from the future; and the
\* newest request is not read from before what the hook's list shows.
Ordered ==
  /\ \A f, g \in fetches : f.id = g.id => f = g
  /\ \A f \in fetches : f.at <= writes
  /\ list.shown.at <= writes
  /\ Hooked => \A f \in fetches : f.id = list.reqId /\ f.at # 0 => f.at >= list.shown.at

Forward == Hooked => list'.shown.at >= list.shown.at

LEMMA VersionsAre ==
  ASSUME TypeOK
  PROVE  /\ writes \in Nat /\ list.shown.at \in Nat /\ list.reqId \in Nat
         /\ \A f \in fetches : f \in Fetch /\ f.id \in Nat /\ f.at \in Nat
BY FleetConstants DEF TypeOK, List, Fetch, Version

\* Steps after which the list shows what it showed, and waits for what it did.
LEMMA QuietOrdered ==
  ASSUME IInv, Ordered, UNCHANGED <<open, fetches>>, list'.shown = list.shown,
         list'.reqId = list.reqId, writes' \in Nat, writes' >= writes
  PROVE  Ordered' /\ Forward
<1>1. /\ \A f \in fetches : f.at <= writes'
      /\ list.shown.at <= writes'
      /\ list.shown.at >= list.shown.at
  BY VersionsAre DEF IInv, Ordered
<1> QED BY <1>1 DEF Ordered, Forward, Hooked

\* A new request has a new number, and has not been read.
LEMMA FetchesOrdered ==
  ASSUME IInv, Ordered, NEW l \in List, l.shown = list.shown, Fetches(l),
         UNCHANGED <<open, writes>>
  PROVE  Ordered' /\ Forward
<1> DEFINE g == [id |-> list.reqId + 1, query |-> QueryOf(l), at |-> 0]
<1>1. fetches' = fetches \cup {g} /\ list'.reqId = list.reqId + 1 /\ list'.shown = list.shown
  BY DEF Fetches, List
<1>2. \A f \in fetches : f.id # list.reqId + 1 /\ f.id \in Nat
  BY VersionsAre DEF IInv, Newest
<1>3. \A e, f \in fetches' : e.id = f.id => e = f
  BY <1>1, <1>2 DEF Ordered
<1>4. \A f \in fetches' : f.at <= writes
  BY <1>1, VersionsAre DEF IInv, Ordered
<1>5. \A f \in fetches' : f.id = list'.reqId => f.at = 0
  BY <1>1, <1>2
<1>6. list.shown.at >= list.shown.at
  BY VersionsAre DEF IInv
<1> HIDE DEF g
<1> QED BY <1>1, <1>3, <1>4, <1>5, <1>6 DEF Ordered, Forward

LEMMA CommitOrdered ==
  ASSUME IInv, Ordered, NEW l \in List, l.shown = list.shown, l.reqId = list.reqId, Commit(l),
         UNCHANGED <<open, writes>>
  PROVE  Ordered' /\ Forward
<1>1. CASE QueryOf(l) = QueryOf(list)
  <2>1. writes' \in Nat /\ writes' >= writes
    BY VersionsAre DEF IInv
  <2> QED BY <1>1, <2>1, QuietOrdered DEF Commit
<1>2. CASE QueryOf(l) # QueryOf(list)
  BY <1>2, FetchesOrdered DEF Commit
<1> QED BY <1>1, <1>2

\* The controls of a page, whether its list comes through the hook or not.
LEMMA ControlsOrdered ==
  ASSUME IInv, Ordered, Controls \/ Refetch \/ Debounce \/ AllTripsPage
  PROVE  Ordered' /\ Forward
<1>1. /\ list \in List /\ 1 \in 1..MaxPage /\ NoWord \in Word
      /\ writes \in Nat /\ writes >= writes
  BY VersionsAre, FleetConstants DEF IInv, TypeOK
<1>2. ASSUME NEW w \in Word, SetSearchInput(w) PROVE Ordered' /\ Forward
  <2>1. list'.shown = list.shown /\ list'.reqId = list.reqId /\ UNCHANGED <<open, fetches, writes>>
    BY <1>1, <1>2 DEF SetSearchInput, Tables, List
  <2> QED BY <1>1, <2>1, QuietOrdered
<1>3. ASSUME NEW t \in Tab, SetFilter(t) PROVE Ordered' /\ Forward
  <2> DEFINE l == [list EXCEPT !.filter = t, !.page = 1]
  <2>1. l \in List /\ l.shown = list.shown
    BY <1>1 DEF List
  <2>2. Fetches(l) /\ UNCHANGED <<open, writes>>
    BY <1>3 DEF SetFilter, Tables
  <2> HIDE DEF l
  <2> QED BY <2>1, <2>2, FetchesOrdered
<1>4. ASSUME NEW n \in 1..MaxPage, Commit([list EXCEPT !.page = n]), UNCHANGED <<open, writes>>
      PROVE  Ordered' /\ Forward
  <2> DEFINE l == [list EXCEPT !.page = n]
  <2>1. l \in List /\ l.shown = list.shown /\ l.reqId = list.reqId
    BY <1>1 DEF List
  <2> HIDE DEF l
  <2> QED BY <1>4, <2>1, CommitOrdered DEF l
<1>5. CASE Refetch
  BY <1>1, <1>5, FetchesOrdered DEF Refetch, Tables
<1>6. CASE Debounce
  <2> DEFINE l == [list EXCEPT !.search = list.timer, !.page = 1, !.timer = Off]
  <2>0. list.timer \in Word
    BY <1>1, <1>6 DEF Debounce, List
  <2>1. l \in List /\ l.shown = list.shown /\ l.reqId = list.reqId
    BY <1>1, <2>0 DEF List
  <2>2. Commit(l) /\ UNCHANGED <<open, writes>>
    BY <1>6 DEF Debounce, Tables
  <2> HIDE DEF l
  <2> QED BY <2>1, <2>2, CommitOrdered
<1>7. ASSUME NEW t \in Tab, Commit([list EXCEPT !.filter = t, !.page = 1]),
             UNCHANGED <<open, writes>>
      PROVE  Ordered' /\ Forward
  <2> DEFINE l == [list EXCEPT !.filter = t, !.page = 1]
  <2>1. l \in List /\ l.shown = list.shown /\ l.reqId = list.reqId
    BY <1>1 DEF List
  <2> HIDE DEF l
  <2> QED BY <1>7, <2>1, CommitOrdered DEF l
<1>8. ASSUME Commit([list EXCEPT !.input = NoWord, !.search = NoWord, !.page = 1]),
             UNCHANGED <<open, writes>>
      PROVE  Ordered' /\ Forward
  <2> DEFINE l == [list EXCEPT !.input = NoWord, !.search = NoWord, !.page = 1]
  <2>1. l \in List /\ l.shown = list.shown /\ l.reqId = list.reqId
    BY <1>1 DEF List
  <2> HIDE DEF l
  <2> QED BY <1>8, <2>1, CommitOrdered DEF l
<1>9. CASE Pagination
  BY <1>4, <1>9 DEF Pagination, Tables
<1>10. CASE AllTripsPage
  <2>1. CASE Find
    BY <1>2, <2>1 DEF Find
  <2>2. CASE (GoTo \/ HandleLimitChange \/ ClearSearch) /\ UNCHANGED <<Tables, saved>>
    BY <1>4, <1>7, <1>8, <2>2 DEF GoTo, HandleLimitChange, ClearSearch, Tables
  <2> QED BY <1>10, <2>1, <2>2 DEF AllTripsPage
<1> QED BY <1>2, <1>3, <1>5, <1>6, <1>9, <1>10 DEF Controls, Find, Filter

\* The server reads the table as it is now.
LEMMA FindPaginatedOrdered ==
  ASSUME IInv, Ordered, NEW f \in fetches, FindPaginated(f)
  PROVE  Ordered' /\ Forward
<1> DEFINE g == [f EXCEPT !.at = writes]
<1>1. fetches' = (fetches \ {f}) \cup {g} /\ UNCHANGED <<writes, open, list>>
  BY DEF FindPaginated, Tables
<1>2. f \in Fetch /\ writes \in Nat /\ list.shown.at \in Nat
  BY VersionsAre DEF IInv
<1>3. g.id = f.id /\ g.at = writes
  BY <1>2 DEF Fetch
<1> HIDE DEF g
<1>4. \A d, e \in fetches' : d.id = e.id => d = e
  BY <1>1, <1>3 DEF Ordered
<1>5. \A e \in fetches' : e.at <= writes
  BY <1>1, <1>2, <1>3 DEF Ordered
<1>6. Hooked => \A e \in fetches' : e.id = list.reqId /\ e.at # 0 => e.at >= list.shown.at
  BY <1>1, <1>2, <1>3 DEF Ordered
<1>7. list.shown.at >= list.shown.at
  BY <1>2
<1> QED BY <1>1, <1>4, <1>5, <1>6, <1>7 DEF Ordered, Forward, Hooked

\* The answer that the hook takes is the newest request's, and the only one to it.
LEMMA AnswerOrdered ==
  ASSUME IInv, Ordered, NEW f \in fetches, NEW ok \in BOOLEAN,
         (Hooked /\ UseServerList(f, ok)) \/ (~Hooked /\ Load(f, ok))
  PROVE  Ordered' /\ Forward
<1>1. fetches' = fetches \ {f} /\ UNCHANGED <<writes, open>> /\ (ok => f.at > 0)
  BY DEF UseServerList, Load, Tables
<1>2. /\ f.at \in Nat /\ writes \in Nat /\ list.shown.at \in Nat /\ list \in List
      /\ f.at <= writes /\ list.shown.at <= writes
  BY VersionsAre DEF IInv, TypeOK, Ordered
<1>3. CASE list' = list
  BY <1>1, <1>2, <1>3 DEF Ordered, Forward, Hooked
<1>4. CASE Show(f, ok) /\ (Hooked => f.id = list.reqId)
  <2>1. list'.reqId = list.reqId
    BY <1>4, ShowKeeps DEF IInv
  <2>2. CASE ~ok
    <3>1. list'.shown = list.shown
      BY <1>2, <1>4, <2>2 DEF Show, List
    <3> QED BY <1>1, <1>2, <2>1, <3>1 DEF Ordered, Forward, Hooked
  <2>3. CASE ok
    <3>1. list'.shown.at = f.at
      BY <1>4, <2>3, ShowKeeps DEF IInv
    <3>2. Hooked => f.at >= list.shown.at
      BY <1>1, <1>2, <1>4, <2>3 DEF Ordered
    <3>3. Hooked => \A e \in fetches' : e.id # list.reqId
      BY <1>1, <1>4 DEF Ordered
    <3> QED BY <1>1, <1>2, <2>1, <3>1, <3>2, <3>3 DEF Ordered, Forward, Hooked
  <2> QED BY <2>2, <2>3
<1> QED BY <1>3, <1>4 DEF UseServerList, Load

\* A write makes a new version; who is told of one asks again.
LEMMA WritesOrdered ==
  ASSUME IInv, Ordered, NEW h \in Handler,
         \/ FleetForm(h, TRUE) \/ DriverForm(h, TRUE) \/ OtherClients(h)
         \/ AddVehicle(h) \/ UpdateVehicle(h) \/ RemoveVehicle(h)
         \/ CreateDriver(h) \/ UpdateDriver(h) \/ Refuse(h) \/ Hear(h) \/ HearNothing(h)
  PROVE  Ordered' /\ Forward
<1>1. writes \in Nat /\ list \in List
  BY VersionsAre DEF IInv, TypeOK
<1>2. CASE Hear(h)
  BY <1>1, <1>2, FetchesOrdered DEF Hear, Told
<1>3. CASE ~Hear(h)
  <2>1. UNCHANGED <<open, fetches, list>> /\ writes' \in {writes, writes + 1}
    BY <1>3 DEF FleetForm, DriverForm, OtherClients, OthersWrite, Begin, AddVehicle,
       UpdateVehicle, RemoveVehicle, CreateDriver, UpdateDriver, Written, Answers, Refuse, HearNothing
  <2>2. writes' \in Nat /\ writes' >= writes
    BY <1>1, <2>1
  <2> QED BY <2>1, <2>2, QuietOrdered
<1> QED BY <1>2, <1>3

LEMMA NextOrdered ==
  ASSUME IInv, Ordered, [Next]_vars
  PROVE  Ordered' /\ Forward
<1>1. CASE UNCHANGED vars
  <2>1. writes' \in Nat /\ writes' >= writes /\ UNCHANGED <<open, fetches, list>>
    BY <1>1, VersionsAre DEF vars, IInv
  <2> QED BY <2>1, QuietOrdered
<1>2. ASSUME NEW f \in fetches, ServerAnswers(f) PROVE Ordered' /\ Forward
  BY <1>2, FindPaginatedOrdered, AnswerOrdered DEF ServerAnswers
<1>3. ASSUME NEW h \in Handler, FleetPage(h) \/ DriversPage(h) PROVE Ordered' /\ Forward
  BY <1>3, ControlsOrdered, WritesOrdered DEF FleetPage, DriversPage
<1>4. CASE \/ OperatorBookingsPage \/ CustomersPage \/ BookingsPage \/ TransactionsPage
           \/ OperatorTransactionsPage \/ PaymentsPage \/ TicketsPage
  BY <1>4, ControlsOrdered
     DEF OperatorBookingsPage, CustomersPage, BookingsPage, TransactionsPage,
         OperatorTransactionsPage, PaymentsPage, TicketsPage, Controls
<1> QED BY <1>1, <1>2, <1>3, <1>4, ControlsOrdered, WritesOrdered DEF Next

\* However requests are retried, reordered and overtaken by writes, the hook's
\* list never goes back to an older table than it has shown.
THEOREM NeverBack == Spec => NeverBackInTime
<1>1. Init => Ordered
  BY FleetConstants DEF Init, Ordered
<1>2. IInv /\ Ordered /\ [Next]_vars => Ordered' /\ Forward
  BY NextOrdered
<1>3. IInv /\ Ordered /\ [Next]_vars => [Forward]_vars
  BY <1>2
<1> QED BY <1>1, <1>2, <1>3, IInvHolds, PTL DEF Spec, NeverBackInTime, Forward
================================================================================
