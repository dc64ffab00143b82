-------------------------------- MODULE Accounts --------------------------------
(***************************************************************************)
(* Accounts and the mail about them: sign-up, an operator's application    *)
(* and its review, reset links and changes of e-mail and password, asked   *)
(* for from browsers over a network that loses answers, handled by a       *)
(* server that may die, and mailed by the notification queue's worker.     *)
(* Every check of a handler is a step apart from the write it guards.      *)
(***************************************************************************)
EXTENDS Naturals

CONSTANTS Browser,      \* each may sign up one account, named after it
          Operator,     \* the account an approval creates
          Email,
          Applicant,    \* the e-mail of the one application
          MaxAsks,      \* requests the browsers make (bound)
          MaxDrawn,     \* reset links and temporary passwords drawn (bound)
          MaxAttempts,  \* attempts of the notifications queue's jobs
          MaxStalls,    \* times BullMQ takes up a job its worker died at
          MaxRetries    \* retries of the API client

Account == Browser \cup {Operator}

ASSUME AccountConstants ==
  /\ Operator \notin Browser /\ Applicant \in Email /\ "none" \notin Email
  /\ MaxAsks \in Nat /\ MaxDrawn \in Nat /\ MaxAttempts \in Nat \ {0}
  /\ MaxStalls \in Nat /\ MaxRetries \in Nat

VARIABLES
  app,    \* status of the application
  users,  \* the users table
  links,  \* the password_reset_tokens table, the usable rows
  drawn,  \* links and temporary passwords drawn so far
  req,    \* the handler of a browser's request, which may outlive its page's wait
  jobs,   \* the notifications queue; both kinds are removed when done
  inbox,  \* mail delivered
  spent,  \* links whose page was told that the password is reset
  page,   \* the browsers
  asks    \* requests made so far

vars == <<app, users, links, drawn, req, jobs, inbox, spent, page, asks>>

None == [email |-> "none", pw |-> 0]
Own  == 0    \* a password its owner chose; a positive one is temporary

Draw == 1..MaxDrawn
Link == [owner : Account, n : Draw]
Mail == [kind : {"welcome", "reset"}, n : Draw]
Job  == [mail : Mail, state : {"waiting", "active"}, tries : 0..MaxAttempts - 1,
         stalls : 0..MaxStalls]

Kind == {"signUp", "apply", "approve", "decline", "list", "forgot", "reset",
         "profile", "password"}
Ask  == [kind : Kind, by : Account, email : Email, n : 0..MaxDrawn]
Req  == [pc : {"idle", "check", "user", "write", "purge", "create", "emit"},
         ask : Ask, n : 0..MaxDrawn]
Page == [at : {"idle", "sending", "waiting"}, ask : Ask, retries : 0..MaxRetries]

NoAsk == [kind |-> "list", by |-> Operator, email |-> Applicant, n |-> 0]
Idle  == [pc |-> "idle", ask |-> NoAsk, n |-> 0]

Exists(a) == users[a] # None
Taken(e)  == \E a \in Account : users[a].email = e
OwnerOf(e) == CHOOSE a \in Account : users[a].email = e

Init ==
  /\ app = "none" /\ links = {} /\ jobs = {} /\ inbox = {} /\ spent = {}
  /\ drawn = 0 /\ asks = 0
  /\ users = [a \in Account |-> None]
  /\ req = [b \in Browser |-> Idle]
  /\ page = [b \in Browser |->
       [at |-> "idle", ask |-> NoAsk, retries |-> 0]]

-------------------------------------------------------------------------------
(* The browsers and the network.                                           *)

Enter(b, ask) == req' = [req EXCEPT ![b] = [pc |-> "check", ask |-> ask, n |-> 0]]

\* A button is disabled while its request is out.  Bound: the next request comes in
\* when the last one's handler is through.  One that never comes in changes nothing.
Submit(b, ask) ==
  /\ asks < MaxAsks /\ asks' = asks + 1
  /\ page[b].at = "idle" /\ req[b].pc = "idle"
  /\ page' = [page EXCEPT ![b] = [at |-> "waiting", ask |-> ask, retries |-> 0]]
  /\ Enter(b, ask)
  /\ UNCHANGED <<app, users, links, drawn, jobs, inbox, spent>>

AskFor(kind, a, e, n) == [kind |-> kind, by |-> a, email |-> e, n |-> n]

SignUpPage(b) ==
  /\ ~Exists(b)
  /\ \E e \in Email : Submit(b, AskFor("signUp", b, e, 0))

RegisterOperatorPage(b) == Submit(b, AskFor("apply", b, Applicant, 0))

\* The page offers a review where its copy of the list says pending, however old
\* the copy is.
OperatorsPage(b) ==
  \/ Submit(b, AskFor("list", b, Applicant, 0))
  \/ app # "none" /\ \E kind \in {"approve", "decline"} : Submit(b, AskFor(kind, b, Applicant, 0))

ForgotPage(b) == \E e \in Email : Submit(b, AskFor("forgot", b, e, 0))

\* Whoever has the mail may follow its link.
ResetPage(b) ==
  \E m \in inbox : m.kind = "reset" /\ Submit(b, AskFor("reset", b, Applicant, m.n))

\* Signed in as an account of its own, or as the operator, whose password came by
\* mail or was set since.
SignedIn(b) ==
  {a \in {b, Operator} :
    Exists(a) /\ (users[a].pw = Own \/ [kind |-> "welcome", n |-> users[a].pw] \in inbox)}

AccountSettings(b) ==
  \E a \in SignedIn(b) :
    \/ Submit(b, AskFor("password", a, Applicant, 0))
    \/ \E e \in Email : Submit(b, AskFor("profile", a, e, 0))

IsRetryable(ask) == ask.kind = "list"

GivenUp == [at |-> "idle", ask |-> NoAsk, retries |-> 0]

\* A network error, a timeout or a 5xx: the client will send again, or it gives up;
\* what the server has begun goes on.
NoAnswer(b) ==
  /\ page[b].at = "waiting"
  /\ page' = [page EXCEPT ![b] =
       IF IsRetryable(page[b].ask) /\ page[b].retries < MaxRetries
         THEN [at |-> "sending", ask |-> page[b].ask, retries |-> page[b].retries + 1]
         ELSE GivenUp]
  /\ UNCHANGED <<app, users, links, drawn, req, jobs, inbox, spent, asks>>

Retry(b) ==
  /\ page[b].at = "sending" /\ req[b].pc = "idle"
  /\ page' = [page EXCEPT ![b].at = "waiting"]
  /\ Enter(b, page[b].ask)
  /\ UNCHANGED <<app, users, links, drawn, jobs, inbox, spent, asks>>

\* The handler of b is through: its page, if it still waits, takes up the answer.
Answer(b, ok) ==
  LET ask == req[b].ask
      heard == page[b].at = "waiting" IN
  /\ req' = [req EXCEPT ![b] = Idle]
  /\ spent' = IF heard /\ ok /\ ask.kind = "reset"
                THEN spent \cup {[owner |-> ask.by, n |-> ask.n]} ELSE spent
  /\ page' = IF heard THEN [page EXCEPT ![b] = GivenUp] ELSE page

-------------------------------------------------------------------------------
(* The handlers.  At(b, kind, pc): b's handler is of that kind, at that step.    *)

At(b, kind, pc) == req[b].ask.kind = kind /\ req[b].pc = pc

Go(b, pc) == req' = [req EXCEPT ![b].pc = pc] /\ UNCHANGED <<page, spent>>

\* register: the look-up, and the insert that the unique e-mail may refuse.
Register(b) ==
  LET ask == req[b].ask IN
  /\ \/ /\ At(b, "signUp", "check")
        /\ IF Taken(ask.email) THEN Answer(b, FALSE) ELSE Go(b, "write")
        /\ UNCHANGED users
     \/ /\ At(b, "signUp", "write")
        /\ IF Taken(ask.email) \/ Exists(ask.by)
             THEN Answer(b, FALSE) /\ UNCHANGED users
             ELSE /\ users' = [users EXCEPT ![ask.by] = [email |-> ask.email, pw |-> Own]]
                  /\ Answer(b, TRUE)
  /\ UNCHANGED <<app, links, drawn, jobs, inbox, asks>>

\* Mutant of Apply: the insert is an upsert, and a reviewed application is new again.
ApplyUpserts(b) ==
  /\ \/ /\ At(b, "apply", "check")
        /\ IF app # "none" THEN Answer(b, FALSE) ELSE Go(b, "write")
        /\ UNCHANGED app
     \/ /\ At(b, "apply", "write")
        /\ app' = IF app = "approved" THEN app ELSE "pending"
        /\ Answer(b, TRUE)
  /\ UNCHANGED <<users, links, drawn, jobs, inbox, asks>>

\* operatorsService.register, the same way on the operators table.
Apply(b) ==
  /\ \/ /\ At(b, "apply", "check")
        /\ IF app # "none" THEN Answer(b, FALSE) ELSE Go(b, "write")
        /\ UNCHANGED app
     \/ /\ At(b, "apply", "write")
        /\ app' = IF app = "none" THEN "pending" ELSE app
        /\ Answer(b, app = "none")
  /\ UNCHANGED <<users, links, drawn, jobs, inbox, asks>>

\* approve, up to its transaction: the application, the e-mail, a temporary password.
ApproveChecks(b) ==
  /\ \/ /\ At(b, "approve", "check")
        /\ IF app # "pending" THEN Answer(b, FALSE) ELSE Go(b, "user")
        /\ UNCHANGED drawn
     \/ /\ At(b, "approve", "user") /\ drawn < MaxDrawn
        /\ IF Taken(Applicant)
             THEN Answer(b, FALSE) /\ UNCHANGED drawn
             ELSE /\ drawn' = drawn + 1
                  /\ req' = [req EXCEPT ![b].pc = "write", ![b].n = drawn + 1]
                  /\ UNCHANGED <<page, spent>>
  /\ UNCHANGED <<app, users, links, jobs, inbox, asks>>

\* Mutant of MarkReviewedIfPending: the update selects by id alone.
MarkReviewedAlways(status) == app' = status

\* updateMany where status is pending: it reviews, or it counts 0.
MarkReviewedIfPending(status) == app = "pending" /\ app' = status

\* Mutant of ApproveTransaction: the mail goes out whether or not it committed.
ApproveTransactionMails(b) ==
  /\ At(b, "approve", "write")
  /\ IF app = "pending" /\ ~Taken(Applicant)
       THEN /\ MarkReviewedIfPending("approved")
            /\ users' = [users EXCEPT ![Operator] = [email |-> Applicant, pw |-> req[b].n]]
       ELSE UNCHANGED <<app, users>>
  /\ Go(b, "emit")
  /\ UNCHANGED <<links, drawn, jobs, inbox, asks>>

\* The review and the account commit together, or neither does.
ApproveTransaction(b) ==
  /\ At(b, "approve", "write")
  /\ \/ /\ ~Taken(Applicant)
        /\ MarkReviewedIfPending("approved")
        /\ users' = [users EXCEPT ![Operator] = [email |-> Applicant, pw |-> req[b].n]]
        /\ Go(b, "emit")
     \/ /\ app # "pending" \/ Taken(Applicant)
        /\ Answer(b, FALSE)
        /\ UNCHANGED <<app, users>>
  /\ UNCHANGED <<links, drawn, jobs, inbox, asks>>

Decline(b) ==
  /\ \/ /\ At(b, "decline", "check")
        /\ IF app # "pending" THEN Answer(b, FALSE) ELSE Go(b, "write")
        /\ UNCHANGED app
     \/ /\ At(b, "decline", "write") /\ MarkReviewedIfPending("declined")
        /\ Answer(b, TRUE)
     \/ /\ At(b, "decline", "write") /\ app # "pending"
        /\ Answer(b, FALSE) /\ UNCHANGED app
  /\ UNCHANGED <<users, links, drawn, jobs, inbox, asks>>

List(b) ==
  /\ At(b, "list", "check")
  /\ UNCHANGED <<app, users, links, drawn, jobs, inbox, asks>>
  /\ Answer(b, TRUE)

LinksOf(a) == {l \in links : l.owner = a}

\* requestPasswordReset: earlier links go, a new one is stored and mailed.
RequestPasswordReset(b) ==
  LET ask == req[b].ask IN
  /\ \/ /\ At(b, "forgot", "check")
        /\ IF Taken(ask.email)
             THEN /\ req' = [req EXCEPT ![b].pc = "purge", ![b].ask.by = OwnerOf(ask.email)]
                  /\ UNCHANGED <<page, spent>>
             ELSE Answer(b, TRUE)
        /\ UNCHANGED <<links, drawn>>
     \/ /\ At(b, "forgot", "purge")
        /\ links' = links \ LinksOf(ask.by)
        /\ Go(b, "create") /\ UNCHANGED drawn
     \/ /\ At(b, "forgot", "create") /\ drawn < MaxDrawn
        /\ drawn' = drawn + 1
        /\ links' = links \cup {[owner |-> ask.by, n |-> drawn + 1]}
        /\ req' = [req EXCEPT ![b].pc = "emit", ![b].n = drawn + 1]
        /\ UNCHANGED <<page, spent>>
  /\ UNCHANGED <<app, users, jobs, inbox, asks>>

\* An hour passes.
LinkExpires ==
  /\ \E l \in links : links' = links \ {l}
  /\ UNCHANGED <<app, users, drawn, req, jobs, inbox, spent, page, asks>>

\* Mutant of PurgeLinks: only the redeemed link is removed.
PurgeLinksOnlyOne(l) == links' = links \ {l}

PurgeLinks(l) == links' = links \ LinksOf(l.owner)

\* resetPassword: look the link up, write the password, remove the owner's links.
ResetPassword(b) ==
  LET n == req[b].ask.n IN
  /\ \/ /\ At(b, "reset", "check")
        /\ \/ \E l \in links :
                /\ l.n = n
                /\ req' = [req EXCEPT ![b].pc = "write", ![b].ask.by = l.owner]
                /\ UNCHANGED <<page, spent>>
           \/ (\A l \in links : l.n # n) /\ Answer(b, FALSE)
        /\ UNCHANGED <<users, links>>
     \/ /\ At(b, "reset", "write")
        /\ users' = [users EXCEPT ![req[b].ask.by].pw = Own]
        /\ Go(b, "purge") /\ UNCHANGED links
     \/ /\ At(b, "reset", "purge")
        /\ PurgeLinks([owner |-> req[b].ask.by, n |-> n])
        /\ Answer(b, TRUE) /\ UNCHANGED users
  /\ UNCHANGED <<app, drawn, jobs, inbox, asks>>

\* updateProfile, which leaves an unchanged e-mail alone, and changePassword.
UpdateUser(b) ==
  LET ask == req[b].ask IN
  /\ \/ /\ At(b, "profile", "check")
        /\ IF Taken(ask.email)
             THEN Answer(b, users[ask.by].email = ask.email) ELSE Go(b, "write")
        /\ UNCHANGED users
     \/ /\ At(b, "profile", "write")
        /\ IF Taken(ask.email) /\ users[ask.by].email # ask.email
             THEN Answer(b, FALSE) /\ UNCHANGED users
             ELSE users' = [users EXCEPT ![ask.by].email = ask.email] /\ Answer(b, TRUE)
     \/ /\ At(b, "password", "check")
        /\ Go(b, "write") /\ UNCHANGED users
     \/ /\ At(b, "password", "write")
        /\ users' = [users EXCEPT ![ask.by].pw = Own] /\ Answer(b, TRUE)
  /\ UNCHANGED <<app, links, drawn, jobs, inbox, asks>>

-------------------------------------------------------------------------------
(* Events, the notifications queue and its worker.                          *)

MailOf(b) == [kind |-> IF req[b].ask.kind = "approve" THEN "welcome" ELSE "reset", n |-> req[b].n]

\* The listener enqueues a job, or logs that it could not.
EmitEvent(b) ==
  /\ req[b].pc = "emit"
  /\ \/ jobs' = jobs \cup {[mail |-> MailOf(b), state |-> "waiting", tries |-> 0, stalls |-> 0]}
     \/ UNCHANGED jobs
  /\ UNCHANGED <<app, users, links, drawn, inbox, asks>>
  /\ Answer(b, TRUE)

Becomes(j, k) == jobs' = (jobs \ {j}) \cup k

TakeJob(j) ==
  /\ j.state = "waiting"
  /\ Becomes(j, {[j EXCEPT !.state = "active"]})
  /\ UNCHANGED inbox

SendMail(j) ==
  /\ j.state = "active"
  /\ inbox' = inbox \cup {j.mail}
  /\ Becomes(j, {})

\* Mutant of SendFails: one attempt too many.
SendFailsOnce(j) ==
  /\ j.state = "active"
  /\ Becomes(j, IF j.tries < MaxAttempts
                  THEN {[j EXCEPT !.tries = @ + 1, !.state = "waiting"]} ELSE {})
  /\ UNCHANGED inbox

\* An attempt fails: the job waits for the next one, or it failed for good.
SendFails(j) ==
  /\ j.state = "active"
  /\ Becomes(j, IF j.tries + 1 < MaxAttempts
                  THEN {[j EXCEPT !.tries = @ + 1, !.state = "waiting"]} ELSE {})
  /\ UNCHANGED inbox

Active == {j \in jobs : j.state = "active"}

\* Mutant of Resume: the stall is not counted.
ResumeUncounted(j) == [j EXCEPT !.state = "waiting"]

\* The stalled-jobs check takes up a job its worker died at.
Resume(j) == [j EXCEPT !.state = "waiting", !.stalls = @ + 1]

\* The server dies, at any time and again: its handlers are gone, and a job it was at
\* is done again, or has stalled too often and failed for good.  The mail may be out
\* by then.
Crash ==
  /\ req' = [b \in Browser |-> Idle]
  /\ jobs' = (jobs \ Active) \cup {Resume(j) : j \in {i \in Active : i.stalls < MaxStalls}}
  /\ \E sent \in SUBSET Active : inbox' = inbox \cup {j.mail : j \in sent}
  /\ UNCHANGED <<app, users, links, drawn, spent, page, asks>>

-------------------------------------------------------------------------------
Pages(b) ==
  \/ SignUpPage(b) \/ RegisterOperatorPage(b) \/ OperatorsPage(b)
  \/ ForgotPage(b) \/ ResetPage(b) \/ AccountSettings(b)

Handler(b) ==
  \/ Register(b) \/ Apply(b) \/ ApproveChecks(b) \/ ApproveTransaction(b) \/ Decline(b)
  \/ List(b) \/ RequestPasswordReset(b) \/ ResetPassword(b) \/ UpdateUser(b) \/ EmitEvent(b)

Worker(j) ==
  /\ TakeJob(j) \/ SendMail(j) \/ SendFails(j)
  /\ UNCHANGED <<app, users, links, drawn, req, spent, page, asks>>

Next ==
  \/ \E b \in Browser : Pages(b) \/ NoAnswer(b) \/ Retry(b) \/ Handler(b)
  \/ LinkExpires \/ Crash
  \/ \E j \in jobs : Worker(j)

Spec == Init /\ [][Next]_vars

Queued(m) == \E j \in jobs : j.mail = m

\* The worker goes on, before and after restarts.
FairSpec == Spec /\ \A m \in Mail : WF_vars(\E j \in jobs : j.mail = m /\ Worker(j))

-------------------------------------------------------------------------------
(* Properties.                                                             *)

\* Every variable keeps its type.
TypeOK ==
  /\ app \in {"none", "pending", "approved", "declined"}
  /\ users \in [Account -> [email : Email, pw : 0..MaxDrawn] \cup {None}]
  /\ links \subseteq Link /\ spent \subseteq Link /\ inbox \subseteq Mail
  /\ drawn \in 0..MaxDrawn /\ asks \in 0..MaxAsks /\ jobs \subseteq Job
  /\ req \in [Browser -> Req] /\ page \in [Browser -> Page]

\* However sign-ups, reviews and changes of e-mail interleave, an application is
\* approved exactly when its operator has an account, and no e-mail has two.
ApprovedHasAccount ==
  /\ app = "approved" <=> Exists(Operator)
  /\ \A a, b \in Account : Exists(a) /\ users[a].email = users[b].email => a = b

\* A mail with a temporary password, queued or delivered, is about an account that
\* had that password first: a review that lost to another, or was rolled back,
\* mails nothing.
WelcomeTellsThePassword ==
  \A m \in inbox \cup {j.mail : j \in jobs} :
    m.kind = "welcome" => Exists(Operator) /\ users[Operator].pw \in {m.n, Own}

\* Once a page said that the password was reset, neither its link nor an older one
\* of the same owner is accepted again.
SpentLinkIsDead ==
  \A s \in spent, l \in links : l.owner = s.owner => l.n > s.n

\* The tables change as if every request were checked and carried out at once: one
\* review, which opens the account it approves, and no account lost or opened twice.
Book == INSTANCE AccountBook WITH Temporary <- Draw
ImplementsBook == Book!BookSpec

\* A queued mail is sent or given up, whatever fails and however often the server
\* dies: attempts and stalls are both counted.
MailEnds == \A m \in Mail : Queued(m) ~> ~Queued(m)
===============================================================================
