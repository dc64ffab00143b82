------------------------------ MODULE CharterPages ------------------------------
(***************************************************************************)
(* The pages in front of CharterLifecycle: the request form, the admin's   *)
(* list with its modals, and My Charters, which offers the buttons of a    *)
(* charter's status and, when Paystack sends the passenger back with a     *)
(* reference, polls the server until it can say how the payment went.      *)
(*                                                                         *)
(* A page acts on its copy of the row, which may be of any age; only the   *)
(* pages' own way of starting a request is new here, so every behaviour of *)
(* the pages is one of CharterLifecycle (CharterPagesProofs).              *)
(***************************************************************************)
EXTENDS CharterLifecycle

CONSTANTS MaxAttempts,  \* MAX_ATTEMPTS of the poll
          Day,          \* clock units in a day (bound: the hours told apart)
          MaxDay,       \* how far ahead the date pickers go (bound)
          NoRequest

ASSUME PagesAssumption ==
  /\ MaxAttempts \in Nat \ {0} /\ Day \in Nat \ {0} /\ MaxDay \in Nat \ {0}
  /\ NoRequest \notin Request

VARIABLES form,   \* the charter form
          poll    \* My Charters, opened with ?reference=

pagesVars == <<charter, charge, req, issues, announced, form, poll>>

\* asks is the server request whose answer the page waits for.
Poll == [ref : Ref \cup {NoRef}, attempts : 0..MaxAttempts, asks : Request \cup {NoRequest},
         shows : {"list", "verifying", "found", "success", "failed", "received"}]

PagesInit ==
  /\ Init
  /\ form = "open"
  /\ poll = [ref |-> NoRef, attempts |-> 0, asks |-> NoRequest, shows |-> "list"]

-------------------------------------------------------------------------------
(* The form.  Its dates are days; the service is sent their first moment.   *)

\* The pickers: departure from tomorrow on, return from the departure day on.
CharterDates == {d \in (1..MaxDay) \X (0..MaxDay) : d[2] = 0 \/ d[2] >= d[1]}

toISO(day) == day * Day

\* requestCharter's conditions, at clock now; a return of 0 is none.
Accepts(now, departureAt, returnAt) ==
  departureAt - now >= Day /\ (returnAt > 0 => returnAt > departureAt)

CharterForm ==
  /\ form # "submitted"
  /\ \E now \in 0..Day - 1, d \in CharterDates :
       form' = IF Accepts(now, toISO(d[1]), toISO(d[2])) THEN "submitted" ELSE "refused"
  /\ UNCHANGED <<vars, poll>>

-------------------------------------------------------------------------------
(* What the buttons of a charter's status start.                            *)

DetailModal(s) ==
  CASE s = "pending" -> {"sendQuote", "cancelCharter"}
    [] s \in {"quote_sent", "awaiting_payment"} -> {"cancelCharter"}
    [] s = "confirmed" -> {"adminConfirmBooking", "completeCharter"}
    [] OTHER -> {}

QuoteModal(q, s) ==
  "sendQuote" \in DetailModal(s) /\ \E p \in Price : Check(q, "sendQuote", p)

ConfirmBookingModal(q, s) ==
  "adminConfirmBooking" \in DetailModal(s) /\ Check(q, "adminConfirmBooking", 0)

AdminChartersPage(q) ==
  \E s \in Status :
    \/ QuoteModal(q, s) \/ ConfirmBookingModal(q, s)
    \/ \E op \in DetailModal(s) \cap {"cancelCharter", "completeCharter"} : Check(q, op, 0)

MyCharterCard(q) ==
  \/ Check(q, "acceptQuote", 0) \/ Check(q, "rejectQuote", 0)
  \/ InitiatePayment(q)

-------------------------------------------------------------------------------
(* My Charters after Paystack.                                              *)

Waiting == poll.asks # NoRequest
Polling == poll.shows \in {"verifying", "found"}

\* Paystack sends the passenger back with the reference, paid or not; history
\* brings the address up again, though the page clears it once it has an answer.
Return(r) ==
  /\ charge[r].state \in {"offered", "captured"} /\ ~Polling
  /\ poll' = [ref |-> r, attempts |-> 0, asks |-> NoRequest, shows |-> "verifying"]
  /\ UNCHANGED <<vars, form>>

\* Once it has shown how the payment went the page clears the reference.
Showing(shows, attempts) ==
  [poll EXCEPT !.asks = NoRequest, !.attempts = attempts, !.shows = shows,
               !.ref = IF shows = "verifying" THEN @ ELSE NoRef]

\* Mutant of Seen: an attempt that fails is not counted.
SeenUncounted(answer) ==
  Showing(IF answer # "again" THEN answer ELSE "verifying", poll.attempts)

\* ... and one attempt too many.
SeenLate(answer) ==
  IF answer # "again" THEN Showing(answer, poll.attempts)
  ELSE Showing(IF poll.attempts = MaxAttempts THEN "received" ELSE "verifying", poll.attempts + 1)

\* What the page makes of an answer; "again" is a pending one or a failed call.
Seen(answer) ==
  IF answer # "again" THEN Showing(answer, poll.attempts)
  ELSE Showing(IF poll.attempts + 1 = MaxAttempts THEN "received" ELSE "verifying",
               poll.attempts + 1)

\* The list is fetched for the charter with this reference, or fails to be.
Find ==
  /\ poll.shows = "verifying"
  /\ \/ charter.paymentRef = poll.ref /\ poll' = [poll EXCEPT !.shows = "found"]
     \/ poll' = Seen("again")
  /\ UNCHANGED <<vars, form>>

\* verifyPayment where it answers without settling.  It asks for the reference
\* the charter has by now; Paystack calls an unpaid one failed or pending.
VerifyAnswers ==
  IF charter.status \in {"confirmed", "completed"} THEN {"success"}
  ELSE IF charter.status = "awaiting_payment" /\ charge[charter.paymentRef].state # "captured"
    THEN {"failed", "again"}
  ELSE {"again"}

AskAndHear ==
  /\ poll.shows = "found" /\ ~Waiting
  /\ \E a \in VerifyAnswers \cup {"again"} : poll' = Seen(a)
  /\ UNCHANGED <<vars, form>>

\* ... and where it settles first.
Ask(q) ==
  /\ poll.shows = "found" /\ ~Waiting
  /\ VerifyPayment(q)
  /\ poll' = [poll EXCEPT !.asks = q]
  /\ UNCHANGED form

\* Mutant of Hear: a settlement that ran is taken for a confirmed charter.
HearTrusting ==
  /\ Waiting /\ req[poll.asks] = Idle
  /\ poll' = Seen("success")
  /\ UNCHANGED <<vars, form>>

Hear ==
  /\ Waiting /\ req[poll.asks] = Idle
  /\ poll' = Seen(IF charter.status \in {"confirmed", "completed"} THEN "success"
                  ELSE "failed")
  /\ UNCHANGED <<vars, form>>

\* The client waits 15 s for an answer; the server goes on without the page.
TimesOut ==
  /\ Waiting /\ poll' = Seen("again")
  /\ UNCHANGED <<vars, form>>

-------------------------------------------------------------------------------
\* A request from a page, a webhook, or the rest of a request.
PagesStart(q) ==
  /\ form = "submitted"
  /\ AdminChartersPage(q) \/ MyCharterCard(q) \/ \E r \in Ref : Webhook(q, r)
  /\ UNCHANGED <<form, poll>>

PagesGoOn(q) == GoOn(q) /\ UNCHANGED <<form, poll>>

\* A fault of the request the page waits for is an error to the page.
PagesFail(q) ==
  /\ Fail(q)
  /\ poll' = IF poll.asks = q THEN Seen("again") ELSE poll
  /\ UNCHANGED form

PagesNext ==
  \/ CharterForm \/ Find \/ AskAndHear \/ Hear \/ TimesOut
  \/ \E q \in Request \ {poll.asks} : PagesStart(q) \/ Ask(q)
  \/ \E q \in Request : PagesGoOn(q) \/ PagesFail(q)
  \/ \E r \in Ref : Return(r) \/ (Capture(r) /\ UNCHANGED <<form, poll>>)

PagesSpec == PagesInit /\ [][PagesNext]_pagesVars

\* The timer of an open page fires, and what it asks is answered, fails or times out.
PagesFairness ==
  WF_pagesVars(Find \/ AskAndHear \/ Hear \/ TimesOut \/ \E q \in Request : Ask(q))

PagesFairSpec == PagesSpec /\ PagesFairness

-------------------------------------------------------------------------------
(* Properties.                                                             *)

\* Every variable keeps its type.
PagesTypeOK ==
  /\ TypeOK
  /\ form \in {"open", "refused", "submitted"}
  /\ poll \in Poll

\* My Charters says the payment is confirmed only if one was recorded: whatever
\* raced with its poll, and whichever reference the server verified.
NeverFalseSuccess == poll.shows = "success" => charter.paid > 0

\* The poll as PaymentPoll: every answer that decides nothing is counted, the page
\* gives up at MAX_ATTEMPTS and not before, success is shown for a recorded payment
\* only, and no stale write of the admin's or of another tab unrecords it.
PollShows == CASE poll.shows = "list" -> "closed"
               [] poll.shows \in {"verifying", "found"} -> "polling"
               [] poll.shows = "received" -> "gaveUp"
               [] OTHER -> poll.shows

Verdict == INSTANCE PaymentPoll WITH
             Max <- MaxAttempts, MayReload <- FALSE,
             recorded <- charter.paid > 0, tries <- poll.attempts, shows <- PollShows

ImplementsPoll == Verdict!PollSpec

\* The page does not verify for ever: MAX_ATTEMPTS bounds it, whatever fails.
PollEnds == Polling ~> ~Polling
===============================================================================
