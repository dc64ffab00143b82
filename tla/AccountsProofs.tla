----------------------------- MODULE AccountsProofs -----------------------------
(***************************************************************************)
(* Proofs about Accounts, for any number of browsers, e-mails, requests    *)
(* and mails.  The argument is that accounts are never removed and numbers *)
(* are drawn once, so what a handler learnt in its checks stays true until *)
(* the write they guard, whoever writes in between.                        *)
(***************************************************************************)
EXTENDS Accounts, TLAPS

\* What a handler, at the step it is at, knows of its request.
Knows(r) ==
  /\ r.ask.kind = "signUp" => r.ask.by \in Browser
  /\ r.ask.kind \in {"profile", "password"} => Exists(r.ask.by)
  /\ r.ask.kind = "forgot" /\ r.pc \in {"purge", "create", "emit"} => Exists(r.ask.by)
  /\ r.ask.kind = "reset" /\ r.pc \in {"write", "purge"} =>
       Exists(r.ask.by) /\ r.ask.n \in 1..drawn
  /\ r.pc = "emit" => r.n \in Draw /\ r.ask.kind # "reset"
  /\ r.ask.kind = "approve" /\ r.pc = "write" => r.n \in Draw
  /\ r.ask.kind = "approve" /\ r.pc = "emit" =>
       Exists(Operator) /\ users[Operator].pw \in {r.n, Own}

InFlight ==
  /\ \A b \in Browser : Knows(req[b])
  /\ \A b \in Browser : page[b].at = "sending" => page[b].ask.kind = "list"

\* Links have an owner, and no link, nor a spent one, is newer than the last drawn.
Drawn ==
  /\ \A l \in links : Exists(l.owner) /\ l.n <= drawn
  /\ \A s \in spent : s.n <= drawn

IInv == TypeOK /\ ApprovedHasAccount /\ WelcomeTellsThePassword /\ SpentLinkIsDead
          /\ InFlight /\ Drawn

\* What every step does to the accounts: none is removed, an operator's temporary
\* password may be replaced by one of its own, and drawing goes on.
Grow ==
  /\ drawn' \in Nat /\ drawn <= drawn'
  /\ \A a \in Account : users[a] # None => users'[a] # None
  /\ Exists(Operator) => users'[Operator].pw \in {users[Operator].pw, Own}

-------------------------------------------------------------------------------
(* What stays where little changes.                                        *)

LEMMA Bounds ==
  /\ MaxAsks \in Nat /\ MaxDrawn \in Nat /\ MaxRetries \in Nat
  /\ MaxAttempts \in Nat /\ MaxAttempts > 0 /\ 0 \in 0..MaxAttempts - 1 /\ 0 \in 0..MaxStalls
  /\ Operator \in Account /\ Operator \notin Browser /\ \A b \in Browser : b \in Account
  /\ Applicant \in Email /\ "none" \notin Email
BY AccountConstants DEF Account

LEMMA IdleType ==
  /\ NoAsk \in Ask /\ NoAsk.kind = "list" /\ GivenUp \in Page /\ GivenUp.at = "idle"
  /\ Idle \in Req /\ Idle.pc = "idle" /\ Idle.ask.kind = "list"
BY Bounds DEF NoAsk, Ask, Kind, GivenUp, Page, Idle, Req

LEMMA SameGrow ==
  ASSUME IInv, UNCHANGED users, drawn' = drawn \/ drawn' = drawn + 1
  PROVE  Grow
BY Bounds DEF Grow, IInv, TypeOK

\* What a handler knows stays known.
LEMMA KnowsStays ==
  ASSUME IInv, Grow
  PROVE  \A r \in Req : Knows(r) => Knows(r)'
<1> SUFFICES ASSUME NEW r \in Req, Knows(r) PROVE Knows(r)'
  OBVIOUS
<1>1. r.ask.by \in Account /\ r.ask.n \in Nat /\ drawn \in Nat
  BY Bounds DEF Req, Ask, IInv, TypeOK
<1>2. \A a \in Account : Exists(a) => Exists(a)'
  BY DEF Grow, Exists
<1>3. r.ask.n \in 1..drawn => r.ask.n \in 1..drawn'
  BY <1>1 DEF Grow
<1> QED BY <1>1, <1>2, <1>3, Bounds DEF Knows, Grow

\* One handler takes a step that it may take knowing what it does.
LEMMA StepKeeps ==
  ASSUME IInv, Grow, NEW b \in Browser, NEW r \in Req, Knows(r)',
         req' = [req EXCEPT ![b] = r]
  PROVE  /\ req' \in [Browser -> Req]
         /\ \A c \in Browser : Knows(req[c])'
<1>1. req \in [Browser -> Req] /\ \A c \in Browser : Knows(req[c])
  BY DEF IInv, TypeOK, InFlight
<1>2. ASSUME NEW c \in Browser, c # b PROVE Knows(req[c])'
  <2>1. req'[c] = req[c] /\ req[c] \in Req
    BY <1>1, <1>2
  <2>2. Knows(req[c]) BY <1>1
  <2> QED BY <2>1, <2>2, KnowsStays DEF Knows, Exists
<1>3. Knows(req[b])'
  <2>1. req'[b] = r BY <1>1
  <2> QED BY <2>1 DEF Knows, Exists
<1> QED BY <1>1, <1>2, <1>3

LEMMA ReqsStay ==
  ASSUME IInv, Grow, UNCHANGED req
  PROVE  req' \in [Browser -> Req] /\ \A c \in Browser : Knows(req[c])'
<1>1. req \in [Browser -> Req] /\ \A c \in Browser : Knows(req[c])
  BY DEF IInv, TypeOK, InFlight
<1>2. ASSUME NEW c \in Browser PROVE Knows(req[c])'
  <2>1. req'[c] = req[c] /\ req[c] \in Req /\ Knows(req[c])
    BY <1>1
  <2> QED BY <2>1, KnowsStays DEF Knows, Exists
<1> QED BY <1>1, <1>2

LEMMA MailsStay ==
  ASSUME IInv, Grow, UNCHANGED <<inbox, jobs>>
  PROVE  WelcomeTellsThePassword' /\ inbox' \subseteq Mail /\ jobs' \subseteq Job
<1>1. Exists(Operator) => Exists(Operator)'
  BY Bounds DEF Grow, Exists
<1> QED BY <1>1 DEF IInv, TypeOK, WelcomeTellsThePassword, Grow

LEMMA LinksStay ==
  ASSUME IInv, Grow, links' \subseteq links, UNCHANGED spent
  PROVE  SpentLinkIsDead' /\ Drawn' /\ links' \subseteq Link /\ spent' \subseteq Link
<1>1. \A a \in Account : Exists(a) => Exists(a)'
  BY DEF Grow, Exists
<1>2. \A l \in Link : l.owner \in Account /\ l.n \in Nat
  BY Bounds DEF Link, Draw
<1>3. links \subseteq Link /\ spent \subseteq Link /\ drawn \in Nat
  BY Bounds DEF IInv, TypeOK
<1>4. SpentLinkIsDead'
  BY DEF IInv, SpentLinkIsDead
<1>5. Drawn'
  BY <1>1, <1>2, <1>3 DEF IInv, Drawn, Grow
<1> QED BY <1>3, <1>4, <1>5

LEMMA UsersStay ==
  ASSUME IInv, UNCHANGED <<app, users>>
  PROVE  /\ ApprovedHasAccount' /\ app' \in {"none", "pending", "approved", "declined"}
         /\ users' \in [Account -> [email : Email, pw : 0..MaxDrawn] \cup {None}]
BY DEF IInv, TypeOK, ApprovedHasAccount, Exists

\* A handler that is through: what its page is told of a redeemed link is true if
\* the owner has no link left.
LEMMA AnswerKeeps ==
  ASSUME IInv, Grow, NEW b \in Browser, NEW ok \in BOOLEAN, Answer(b, ok), links' \subseteq links,
         ok /\ req[b].ask.kind = "reset" =>
           /\ req[b].pc = "purge"
           /\ \A l \in links' : l.owner # req[b].ask.by
  PROVE  /\ req' \in [Browser -> Req] /\ page' \in [Browser -> Page]
         /\ links' \subseteq Link /\ spent' \subseteq Link
         /\ InFlight' /\ Drawn' /\ SpentLinkIsDead'
<1>1. Knows(Idle)'
  BY IdleType DEF Knows
<1>2. req' \in [Browser -> Req] /\ \A c \in Browser : Knows(req[c])'
  BY <1>1, IdleType, StepKeeps DEF Answer
<1>3. page' \in [Browser -> Page] /\ \A c \in Browser : page'[c].at = "sending" => page'[c].ask.kind = "list"
  BY IdleType DEF Answer, IInv, TypeOK, InFlight
<1>4. InFlight'
  BY <1>2, <1>3 DEF InFlight
<1>5. CASE UNCHANGED spent
  BY <1>2, <1>3, <1>4, <1>5, LinksStay
<1>6. CASE spent' # spent
  <2> DEFINE s == [owner |-> req[b].ask.by, n |-> req[b].ask.n]
  <2>1. spent' = spent \cup {s} /\ ok /\ req[b].ask.kind = "reset"
    BY <1>6 DEF Answer
  <2>2. req[b].pc = "purge" /\ \A l \in links' : l.owner # s.owner
    BY <2>1
  <2>3. req[b] \in Req /\ Knows(req[b])
    BY DEF IInv, TypeOK, InFlight
  <2>4. req[b].ask.n \in 1..drawn /\ req[b].ask.by \in Account
    BY <2>1, <2>2, <2>3 DEF Knows, Req, Ask
  <2>5. drawn \in 0..MaxDrawn
    BY DEF IInv, TypeOK
  <2>6. s \in Link /\ s.n <= drawn'
    BY <2>4, <2>5, Bounds DEF Link, Draw, Grow
  <2>7. links' \subseteq Link /\ spent' \subseteq Link
    BY <2>1, <2>6 DEF IInv, TypeOK
  <2>8. SpentLinkIsDead'
    BY <2>1, <2>2 DEF IInv, SpentLinkIsDead
  <2>9. Drawn'
    <3>1. \A l \in links : l.owner \in Account /\ l.n \in Nat
      BY Bounds DEF IInv, TypeOK, Link, Draw
    <3>2. \A l \in links' : Exists(l.owner)' /\ l.n <= drawn'
      BY <2>5, <3>1, Bounds DEF IInv, Drawn, Grow, Exists
    <3>3. \A t \in spent : t.n \in Nat /\ t.n <= drawn
      BY Bounds DEF IInv, TypeOK, Link, Draw, Drawn
    <3>4. \A t \in spent' : t.n <= drawn'
      BY <2>1, <2>5, <2>6, <3>3, Bounds DEF Grow
    <3> QED BY <3>2, <3>4 DEF Drawn
  <2> QED BY <1>2, <1>3, <1>4, <2>7, <2>8, <2>9
<1> QED BY <1>5, <1>6

-------------------------------------------------------------------------------
(* The browsers.                                                           *)

\* The browsers change their pages and requests, and nothing else.
LEMMA BrowserKeeps ==
  ASSUME IInv, NEW b \in Browser, NEW k \in Ask,
         Enter(b, k), Knows([pc |-> "check", ask |-> k, n |-> 0]),
         page' \in [Browser -> Page], asks' \in 0..MaxAsks,
         \A c \in Browser : page'[c].at = "sending" => page[c].at = "sending" /\ page'[c] = page[c],
         UNCHANGED <<app, users, links, drawn, jobs, inbox, spent>>
  PROVE  IInv'
<1> DEFINE r == [pc |-> "check", ask |-> k, n |-> 0]
<1>1. Grow
  BY SameGrow
<1>2. r \in Req
  BY Bounds DEF Req
<1>3. Knows(r)'
  BY <1>1, <1>2, KnowsStays
<1>4. req' \in [Browser -> Req] /\ \A c \in Browser : Knows(req[c])'
  BY <1>1, <1>2, <1>3, StepKeeps DEF Enter
<1>5. InFlight'
  BY <1>4 DEF InFlight, IInv
<1>6. TypeOK'
  BY <1>1, <1>4, MailsStay, LinksStay, UsersStay DEF IInv, TypeOK
<1> QED BY <1>1, <1>5, <1>6, MailsStay, LinksStay, UsersStay DEF IInv

LEMMA SubmitKeeps ==
  ASSUME IInv, NEW b \in Browser, NEW k \in Ask, Submit(b, k),
         k.kind = "signUp" => k.by \in Browser,
         k.kind \in {"profile", "password"} => Exists(k.by)
  PROVE  IInv'
<1>1. Knows([pc |-> "check", ask |-> k, n |-> 0])
  BY DEF Knows
<1>2. page' \in [Browser -> Page]
  BY Bounds DEF Submit, IInv, TypeOK, Page
<1>3. asks' \in 0..MaxAsks
  BY Bounds DEF Submit, IInv, TypeOK
<1>4. \A c \in Browser : page'[c].at = "sending" => page[c].at = "sending" /\ page'[c] = page[c]
  BY DEF Submit, IInv, TypeOK
<1> QED BY <1>1, <1>2, <1>3, <1>4, BrowserKeeps DEF Submit

LEMMA PagesKeep ==
  ASSUME IInv, NEW b \in Browser, Pages(b)
  PROVE  IInv'
<1>1. \A k \in Kind, a \in Account, e \in Email, n \in 0..MaxDrawn :
        /\ AskFor(k, a, e, n) \in Ask
        /\ AskFor(k, a, e, n).kind = k /\ AskFor(k, a, e, n).by = a
  BY DEF AskFor, Ask
<1>2. b \in Account /\ Applicant \in Email /\ 0 \in 0..MaxDrawn
  BY Bounds
<1>3. CASE SignUpPage(b)
  BY <1>1, <1>2, <1>3, SubmitKeeps DEF SignUpPage, Kind
<1>4. CASE RegisterOperatorPage(b)
  BY <1>1, <1>2, <1>4, SubmitKeeps DEF RegisterOperatorPage, Kind
<1>5. CASE OperatorsPage(b)
  BY <1>1, <1>2, <1>5, SubmitKeeps DEF OperatorsPage, Kind
<1>6. CASE ForgotPage(b)
  BY <1>1, <1>2, <1>6, SubmitKeeps DEF ForgotPage, Kind
<1>7. CASE ResetPage(b)
  <2>1. PICK m \in inbox : Submit(b, AskFor("reset", b, Applicant, m.n))
    BY <1>7 DEF ResetPage
  <2>2. m.n \in 0..MaxDrawn
    BY Bounds DEF IInv, TypeOK, Mail, Draw
  <2> QED BY <1>1, <1>2, <2>1, <2>2, SubmitKeeps DEF Kind
<1>8. CASE AccountSettings(b)
  <2>1. PICK a \in SignedIn(b) :
          \/ Submit(b, AskFor("password", a, Applicant, 0))
          \/ \E e \in Email : Submit(b, AskFor("profile", a, e, 0))
    BY <1>8 DEF AccountSettings
  <2>2. a \in Account /\ Exists(a)
    BY Bounds DEF SignedIn
  <2> QED BY <1>1, <1>2, <2>1, <2>2, SubmitKeeps DEF Kind
<1> QED BY <1>3, <1>4, <1>5, <1>6, <1>7, <1>8 DEF Pages

LEMMA NoAnswerKeeps ==
  ASSUME IInv, NEW b \in Browser, NoAnswer(b)
  PROVE  IInv'
<1>1. Grow
  BY SameGrow DEF NoAnswer
<1>2. page' \in [Browser -> Page] /\ \A c \in Browser : page'[c].at = "sending" => page'[c].ask.kind = "list"
  <2> DEFINE again == [at |-> "sending", ask |-> page[b].ask, retries |-> page[b].retries + 1]
  <2>1. page[b].retries \in 0..MaxRetries /\ page[b].ask \in Ask
    BY DEF IInv, TypeOK, Page
  <2>2. CASE IsRetryable(page[b].ask) /\ page[b].retries < MaxRetries
    <3>1. page[b].retries + 1 \in 0..MaxRetries
      BY <2>1, <2>2, Bounds
    <3>2. again \in Page /\ again.ask.kind = "list"
      BY <2>1, <2>2, <3>1 DEF Page, IsRetryable
    <3>3. page' = [page EXCEPT ![b] = again]
      BY <2>2 DEF NoAnswer
    <3> QED BY <3>2, <3>3 DEF IInv, TypeOK, InFlight
  <2>3. CASE ~(IsRetryable(page[b].ask) /\ page[b].retries < MaxRetries)
    <3>1. page' = [page EXCEPT ![b] = GivenUp]
      BY <2>3 DEF NoAnswer, IInv, TypeOK
    <3> QED BY <3>1, IdleType DEF IInv, TypeOK, InFlight
  <2> QED BY <2>2, <2>3
<1>3. InFlight'
  BY <1>1, <1>2, ReqsStay DEF NoAnswer, InFlight
<1>4. TypeOK'
  BY <1>1, <1>2, ReqsStay, MailsStay, LinksStay, UsersStay DEF NoAnswer, IInv, TypeOK
<1> QED BY <1>1, <1>3, <1>4, MailsStay, LinksStay, UsersStay DEF NoAnswer, IInv

LEMMA RetryKeeps ==
  ASSUME IInv, NEW b \in Browser, Retry(b)
  PROVE  IInv'
<1>1. page[b].ask \in Ask /\ page[b].ask.kind = "list"
  BY DEF Retry, IInv, TypeOK, Page, InFlight
<1>2. Knows([pc |-> "check", ask |-> page[b].ask, n |-> 0])
  BY <1>1 DEF Knows
<1>3. page' \in [Browser -> Page]
  BY DEF Retry, IInv, TypeOK, Page
<1>4. \A c \in Browser : page'[c].at = "sending" => page[c].at = "sending" /\ page'[c] = page[c]
  BY DEF Retry, IInv, TypeOK
<1>5. asks' \in 0..MaxAsks
  BY DEF Retry, IInv, TypeOK
<1> QED BY <1>1, <1>2, <1>3, <1>4, <1>5, BrowserKeeps DEF Retry

-------------------------------------------------------------------------------
(* The handlers.  Each step leaves the rest to a lemma about what stays.     *)

\* A handler goes on, or is through, while nothing else but users, app, drawn and
\* links may change.
LEMMA GoKeeps ==
  ASSUME IInv, Grow, NEW b \in Browser, NEW r \in Req, Knows(r)',
         req' = [req EXCEPT ![b] = r], UNCHANGED <<page, spent, inbox, jobs, asks>>,
         links' \subseteq links, drawn' \in 0..MaxDrawn,
         ApprovedHasAccount', app' \in {"none", "pending", "approved", "declined"},
         users' \in [Account -> [email : Email, pw : 0..MaxDrawn] \cup {None}]
  PROVE  IInv'
<1>1. InFlight' /\ req' \in [Browser -> Req]
  BY StepKeeps DEF InFlight, IInv
<1>2. TypeOK'
  BY <1>1, MailsStay, LinksStay DEF IInv, TypeOK
<1> QED BY <1>1, <1>2, MailsStay, LinksStay DEF IInv

LEMMA ThroughKeeps ==
  ASSUME IInv, Grow, NEW b \in Browser, NEW ok \in BOOLEAN, Answer(b, ok),
         req[b].ask.kind # "reset" \/ ~ok,
         UNCHANGED <<inbox, jobs, asks>>,
         links' \subseteq links, drawn' \in 0..MaxDrawn,
         ApprovedHasAccount', app' \in {"none", "pending", "approved", "declined"},
         users' \in [Account -> [email : Email, pw : 0..MaxDrawn] \cup {None}]
  PROVE  IInv'
<1>1. /\ req' \in [Browser -> Req] /\ page' \in [Browser -> Page]
      /\ links' \subseteq Link /\ spent' \subseteq Link
      /\ InFlight' /\ Drawn' /\ SpentLinkIsDead'
  BY AnswerKeeps
<1>2. TypeOK'
  BY <1>1, MailsStay DEF IInv, TypeOK
<1> QED BY <1>1, <1>2, MailsStay DEF IInv

\* Where users and app stay as well.
LEMMA CheckKeeps ==
  ASSUME IInv, NEW b \in Browser, UNCHANGED <<app, users, links, drawn, inbox, jobs, asks>>,
         \/ \E ok \in BOOLEAN : Answer(b, ok) /\ (req[b].ask.kind # "reset" \/ ~ok)
         \/ \E r \in Req : /\ Knows(r) /\ req' = [req EXCEPT ![b] = r]
                           /\ UNCHANGED <<page, spent>>
  PROVE  IInv'
<1>1. Grow /\ drawn' \in 0..MaxDrawn
  BY SameGrow DEF IInv, TypeOK
<1>2. CASE \E ok \in BOOLEAN : Answer(b, ok) /\ (req[b].ask.kind # "reset" \/ ~ok)
  BY <1>1, <1>2, ThroughKeeps, UsersStay
<1>3. CASE \E r \in Req : /\ Knows(r) /\ req' = [req EXCEPT ![b] = r]
                          /\ UNCHANGED <<page, spent>>
  <2>1. PICK r \in Req : Knows(r) /\ req' = [req EXCEPT ![b] = r] /\ UNCHANGED <<page, spent>>
    BY <1>3
  <2>2. Knows(r)'
    BY <1>1, <2>1, KnowsStays
  <2> QED BY <1>1, <2>1, <2>2, GoKeeps, UsersStay
<1> QED BY <1>2, <1>3

\* The step a handler goes on to, as a request.
LEMMA GoIs ==
  ASSUME IInv, NEW b \in Browser,
         NEW pc \in {"idle", "check", "user", "write", "purge", "create", "emit"}, Go(b, pc)
  PROVE  \E r \in Req : /\ r = [req[b] EXCEPT !.pc = pc]
                        /\ r.pc = pc /\ r.ask = req[b].ask /\ r.n = req[b].n
                        /\ req' = [req EXCEPT ![b] = r]
<1>1. req[b] \in Req
  BY DEF IInv, TypeOK
<1>2. [req[b] EXCEPT !.pc = pc] \in Req
  BY <1>1 DEF Req
<1> QED BY <1>1, <1>2 DEF Go, IInv, TypeOK, Req

LEMMA RegisterKeeps ==
  ASSUME IInv, NEW b \in Browser, Register(b)
  PROVE  IInv'
<1> DEFINE ask == req[b].ask
<1>1. req[b] \in Req /\ ask \in Ask /\ ask.kind = "signUp" /\ ask.by \in Browser /\ ask.email \in Email
  BY DEF Register, At, IInv, TypeOK, InFlight, Knows, Req, Ask
<1>2. CASE At(b, "signUp", "check")
  <2>1. CASE Answer(b, FALSE)
    BY <1>1, <1>2, <2>1, CheckKeeps DEF Register, At
  <2>2. CASE Go(b, "write")
    <3>1. PICK r \in Req : r.pc = "write" /\ r.ask = ask /\ req' = [req EXCEPT ![b] = r]
      BY <2>2, GoIs
    <3>2. Knows(r)
      BY <1>1, <3>1 DEF Knows
    <3> QED BY <1>2, <2>2, <3>1, <3>2, CheckKeeps DEF Register, At, Go
  <2> QED BY <1>2, <2>1, <2>2 DEF Register, At
<1>3. CASE At(b, "signUp", "write")
  <2>1. CASE Taken(ask.email) \/ Exists(ask.by)
    BY <1>1, <1>3, <2>1, CheckKeeps DEF Register, At
  <2>2. CASE ~(Taken(ask.email) \/ Exists(ask.by))
    <3>1. users' = [users EXCEPT ![ask.by] = [email |-> ask.email, pw |-> Own]] /\ Answer(b, TRUE)
      BY <1>3, <2>2 DEF Register, At
    <3>2. /\ users' \in [Account -> [email : Email, pw : 0..MaxDrawn] \cup {None}]
          /\ ask.by # Operator /\ ask.by \in Account
      BY <1>1, <3>1, Bounds DEF IInv, TypeOK, Own
    <3>3. Grow /\ drawn' \in 0..MaxDrawn
      BY <1>1, <2>2, <3>1, <3>2, Bounds DEF Register, Grow, IInv, TypeOK, Exists, None
    <3>4. ApprovedHasAccount'
      BY <1>1, <2>2, <3>1, <3>2, Bounds DEF Register, IInv, TypeOK, ApprovedHasAccount, Exists, Taken, None
    <3> QED BY <1>1, <3>1, <3>2, <3>3, <3>4, ThroughKeeps DEF Register, IInv, TypeOK
  <2> QED BY <2>1, <2>2
<1> QED BY <1>2, <1>3 DEF Register

LEMMA ApplyKeeps ==
  ASSUME IInv, NEW b \in Browser, Apply(b)
  PROVE  IInv'
<1>1. Grow /\ req[b].ask.kind = "apply" /\ drawn' \in 0..MaxDrawn
  BY SameGrow DEF Apply, At, IInv, TypeOK
<1>2. CASE At(b, "apply", "check")
  <2>1. CASE Answer(b, FALSE)
    BY <1>1, <1>2, <2>1, CheckKeeps DEF Apply, At
  <2>2. CASE Go(b, "write")
    <3>1. PICK r \in Req : r.pc = "write" /\ r.ask = req[b].ask /\ req' = [req EXCEPT ![b] = r]
      BY <2>2, GoIs
    <3>2. Knows(r)
      BY <1>1, <3>1 DEF Knows
    <3> QED BY <1>2, <2>2, <3>1, <3>2, CheckKeeps DEF Apply, At, Go
  <2> QED BY <1>2, <2>1, <2>2 DEF Apply, At
<1>3. CASE At(b, "apply", "write")
  <2>1. ApprovedHasAccount' /\ app' \in {"none", "pending", "approved", "declined"}
    BY <1>3 DEF Apply, At, IInv, TypeOK, ApprovedHasAccount, Exists
  <2>2. Answer(b, app = "none") /\ (app = "none") \in BOOLEAN
    BY <1>3 DEF Apply, At
  <2> QED BY <1>1, <2>1, <2>2, ThroughKeeps DEF Apply, IInv, TypeOK
<1> QED BY <1>2, <1>3 DEF Apply

LEMMA ApproveChecksKeep ==
  ASSUME IInv, NEW b \in Browser, ApproveChecks(b)
  PROVE  IInv'
<1>1. req[b].ask.kind = "approve" /\ req[b] \in Req
  BY DEF ApproveChecks, At, IInv, TypeOK
<1>2. CASE Answer(b, FALSE) /\ UNCHANGED drawn
  BY <1>1, <1>2, CheckKeeps DEF ApproveChecks
<1>3. CASE At(b, "approve", "check") /\ Go(b, "user")
  <2>1. PICK r \in Req : r.pc = "user" /\ r.ask = req[b].ask /\ req' = [req EXCEPT ![b] = r]
    BY <1>3, GoIs
  <2>2. Knows(r)
    BY <1>1, <2>1 DEF Knows
  <2> QED BY <1>3, <2>1, <2>2, CheckKeeps DEF ApproveChecks, At, Go
<1>4. CASE At(b, "approve", "user") /\ drawn < MaxDrawn /\ drawn' = drawn + 1
           /\ req' = [req EXCEPT ![b].pc = "write", ![b].n = drawn + 1]
           /\ UNCHANGED <<page, spent>>
  <2>1. drawn + 1 \in Draw /\ drawn + 1 \in 0..MaxDrawn /\ Grow
    BY <1>4, Bounds, SameGrow DEF IInv, TypeOK, Draw, ApproveChecks
  <2>2. PICK r \in Req : /\ r = [req[b] EXCEPT !.pc = "write", !.n = drawn + 1]
                         /\ r.pc = "write" /\ r.n = drawn + 1 /\ r.ask = req[b].ask
    <3>1. ASSUME NEW n \in 0..MaxDrawn
          PROVE  \E r \in Req : /\ r = [req[b] EXCEPT !.pc = "write", !.n = n]
                                /\ r.pc = "write" /\ r.n = n /\ r.ask = req[b].ask
      <4>1. [req[b] EXCEPT !.pc = "write", !.n = n] \in Req
        BY <1>1 DEF Req
      <4> QED BY <1>1, <4>1 DEF Req
    <3> QED BY <2>1, <3>1
  <2>3. Knows(r)'
    BY <1>1, <2>1, <2>2 DEF Knows
  <2>4. req' = [req EXCEPT ![b] = r]
    BY <1>4, <2>2 DEF IInv, TypeOK
  <2> QED BY <1>4, <2>1, <2>2, <2>3, <2>4, GoKeeps, UsersStay DEF ApproveChecks
<1> QED BY <1>1, <1>2, <1>3, <1>4 DEF ApproveChecks, At

LEMMA ApproveTransactionKeeps ==
  ASSUME IInv, NEW b \in Browser, ApproveTransaction(b)
  PROVE  IInv'
<1>1. req[b].ask.kind = "approve" /\ req[b].pc = "write" /\ req[b].n \in Draw
  BY DEF ApproveTransaction, At, IInv, InFlight, Knows
<1>2. CASE Answer(b, FALSE) /\ UNCHANGED <<app, users>>
  BY <1>1, <1>2, CheckKeeps DEF ApproveTransaction
<1>3. CASE /\ ~Taken(Applicant) /\ MarkReviewedIfPending("approved")
           /\ users' = [users EXCEPT ![Operator] = [email |-> Applicant, pw |-> req[b].n]]
           /\ Go(b, "emit")
  <2>1. app = "pending" /\ app' = "approved" /\ ~Exists(Operator)
    BY <1>3 DEF MarkReviewedIfPending, IInv, ApprovedHasAccount
  <2>2. req[b].n \in 0..MaxDrawn
    BY <1>1, Bounds DEF Draw
  <2>3. users' \in [Account -> [email : Email, pw : 0..MaxDrawn] \cup {None}]
    BY <1>3, <2>2, Bounds DEF IInv, TypeOK
  <2>4. /\ users'[Operator] = [email |-> Applicant, pw |-> req[b].n]
        /\ \A a \in Account \ {Operator} : users'[a] = users[a]
    BY <1>3, Bounds DEF IInv, TypeOK
  <2>5. users'[Operator] # None
    BY <2>4, Bounds DEF None
  <2>6. Grow /\ drawn' \in 0..MaxDrawn
    BY <2>1, <2>4, <2>5, Bounds DEF ApproveTransaction, Grow, IInv, TypeOK
  <2>7. ApprovedHasAccount'
    <3>1. \A a \in Account : Exists(a)' => a = Operator \/ (Exists(a) /\ users[a].email # Applicant)
      BY <1>3, <2>4 DEF Taken, Exists
    <3>2. users'[Operator].email = Applicant
      BY <2>4
    <3>3. \A a \in Account : users[a].email # Applicant
      BY <1>3 DEF Taken
    <3> QED BY <2>1, <2>4, <2>5, <3>1, <3>2, <3>3 DEF IInv, ApprovedHasAccount, Exists
  <2>8. PICK r \in Req : r.pc = "emit" /\ r.ask = req[b].ask /\ r.n = req[b].n
                         /\ req' = [req EXCEPT ![b] = r]
    BY <1>3, GoIs
  <2>9. Knows(r)'
    BY <1>1, <2>4, <2>5, <2>8 DEF Knows, Exists
  <2> QED BY <1>3, <2>1, <2>3, <2>6, <2>7, <2>8, <2>9, GoKeeps DEF ApproveTransaction, Go
<1> QED BY <1>2, <1>3 DEF ApproveTransaction

LEMMA DeclineKeeps ==
  ASSUME IInv, NEW b \in Browser, Decline(b)
  PROVE  IInv'
<1>1. Grow /\ req[b].ask.kind = "decline" /\ drawn' \in 0..MaxDrawn
  BY SameGrow DEF Decline, At, IInv, TypeOK
<1>2. CASE Answer(b, FALSE) /\ UNCHANGED app
  BY <1>1, <1>2, CheckKeeps DEF Decline
<1>3. CASE At(b, "decline", "check") /\ Go(b, "write")
  <2>1. PICK r \in Req : r.pc = "write" /\ r.ask = req[b].ask /\ req' = [req EXCEPT ![b] = r]
    BY <1>3, GoIs
  <2>2. Knows(r)
    BY <1>1, <2>1 DEF Knows
  <2> QED BY <1>3, <2>1, <2>2, CheckKeeps DEF Decline, At, Go
<1>4. CASE MarkReviewedIfPending("declined") /\ Answer(b, TRUE)
  <2>1. ApprovedHasAccount' /\ app' \in {"none", "pending", "approved", "declined"}
    BY <1>4 DEF Decline, MarkReviewedIfPending, IInv, ApprovedHasAccount, Exists
  <2> QED BY <1>1, <1>4, <2>1, ThroughKeeps DEF Decline, IInv, TypeOK
<1> QED BY <1>2, <1>3, <1>4 DEF Decline, At

LEMMA ListKeeps ==
  ASSUME IInv, NEW b \in Browser, List(b)
  PROVE  IInv'
BY CheckKeeps DEF List, At

\* A new link is newer than any spent one.
LEMMA NewLinkKeeps ==
  ASSUME IInv, NEW b \in Browser, drawn < MaxDrawn, drawn' = drawn + 1,
         NEW r \in Req, Knows(r)', req' = [req EXCEPT ![b] = r],
         NEW a \in Account, Exists(a),
         links' = links \cup {[owner |-> a, n |-> drawn + 1]},
         UNCHANGED <<app, users, jobs, inbox, asks, page, spent>>
  PROVE  IInv'
<1>1. Grow /\ drawn \in Nat /\ drawn' \in 0..MaxDrawn /\ drawn + 1 \in Draw
  BY Bounds, SameGrow DEF IInv, TypeOK, Draw
<1>2. links' \subseteq Link
  BY <1>1 DEF IInv, TypeOK, Link
<1>3. InFlight' /\ req' \in [Browser -> Req]
  BY <1>1, StepKeeps DEF InFlight, IInv
<1>4. \A t \in Link : t.n \in Nat
  BY Bounds DEF Link, Draw
<1>5. Drawn'
  BY <1>1, <1>4 DEF IInv, TypeOK, Drawn, Exists
<1>6. SpentLinkIsDead'
  <2>1. \A t \in spent : t.n \in Nat /\ t.n <= drawn
    BY <1>4 DEF IInv, TypeOK, Drawn
  <2> QED BY <1>1, <2>1 DEF IInv, SpentLinkIsDead
<1>7. TypeOK'
  BY <1>1, <1>2, <1>3, MailsStay, UsersStay DEF IInv, TypeOK
<1> QED BY <1>1, <1>3, <1>5, <1>6, <1>7, MailsStay, UsersStay DEF IInv

LEMMA RequestPasswordResetKeeps ==
  ASSUME IInv, NEW b \in Browser, RequestPasswordReset(b)
  PROVE  IInv'
<1>1. req[b] \in Req /\ req[b].ask \in Ask /\ req[b].ask.kind = "forgot" /\ Knows(req[b])
  BY DEF RequestPasswordReset, At, IInv, TypeOK, InFlight, Req
<1>2. CASE Answer(b, TRUE) /\ UNCHANGED <<links, drawn>>
  BY <1>1, <1>2, CheckKeeps DEF RequestPasswordReset
<1>3. CASE At(b, "forgot", "check") /\ Taken(req[b].ask.email)
           /\ req' = [req EXCEPT ![b].pc = "purge", ![b].ask.by = OwnerOf(req[b].ask.email)]
           /\ UNCHANGED <<page, spent, links, drawn>>
  <2>1. OwnerOf(req[b].ask.email) \in Account /\ users[OwnerOf(req[b].ask.email)].email = req[b].ask.email
    BY <1>3 DEF Taken, OwnerOf
  <2>2. req[b].ask.email \in Email
    BY <1>1 DEF Ask
  <2>3. Exists(OwnerOf(req[b].ask.email))
    BY <2>1, <2>2, Bounds DEF Exists, None
  <2>4. ASSUME NEW o \in Account
        PROVE  \E r \in Req : /\ r = [req[b] EXCEPT !.pc = "purge", !.ask.by = o]
                              /\ r.pc = "purge" /\ r.ask.kind = "forgot" /\ r.ask.by = o
    <3>1. [req[b].ask EXCEPT !.by = o] \in Ask
      BY <1>1 DEF Ask
    <3>2. [req[b] EXCEPT !.pc = "purge", !.ask.by = o] \in Req
      BY <1>1, <3>1 DEF Req
    <3> QED BY <1>1, <3>2 DEF Req, Ask
  <2>5. PICK r \in Req : /\ r = [req[b] EXCEPT !.pc = "purge", !.ask.by = OwnerOf(req[b].ask.email)]
                         /\ r.pc = "purge" /\ r.ask.kind = "forgot"
                         /\ r.ask.by = OwnerOf(req[b].ask.email)
    BY <2>1, <2>4
  <2>6. Knows(r)
    BY <2>3, <2>5 DEF Knows
  <2>7. req' = [req EXCEPT ![b] = r]
    BY <1>3, <2>5 DEF IInv, TypeOK
  <2> QED BY <1>3, <2>6, <2>7, CheckKeeps DEF RequestPasswordReset
<1>4. CASE /\ At(b, "forgot", "purge") /\ links' = links \ LinksOf(req[b].ask.by)
           /\ Go(b, "create") /\ UNCHANGED drawn
  <2>1. PICK r \in Req : r.pc = "create" /\ r.ask = req[b].ask /\ req' = [req EXCEPT ![b] = r]
    BY <1>4, GoIs
  <2>2. Knows(r) /\ Grow /\ drawn' \in 0..MaxDrawn
    BY <1>1, <1>4, <2>1, SameGrow DEF Knows, At, RequestPasswordReset, IInv, TypeOK
  <2>3. Knows(r)' /\ links' \subseteq links
    BY <1>4, <2>1, <2>2, KnowsStays
  <2> QED BY <1>4, <2>1, <2>2, <2>3, GoKeeps, UsersStay DEF RequestPasswordReset, Go
<1>5. CASE /\ At(b, "forgot", "create") /\ drawn < MaxDrawn /\ drawn' = drawn + 1
           /\ links' = links \cup {[owner |-> req[b].ask.by, n |-> drawn + 1]}
           /\ req' = [req EXCEPT ![b].pc = "emit", ![b].n = drawn + 1]
           /\ UNCHANGED <<page, spent>>
  <2>1. drawn + 1 \in Draw /\ drawn + 1 \in 0..MaxDrawn
    BY <1>5, Bounds DEF IInv, TypeOK, Draw
  <2>2. PICK r \in Req : /\ r = [req[b] EXCEPT !.pc = "emit", !.n = drawn + 1]
                         /\ r.pc = "emit" /\ r.n = drawn + 1 /\ r.ask = req[b].ask
    <3>1. ASSUME NEW n \in 0..MaxDrawn
          PROVE  \E r \in Req : /\ r = [req[b] EXCEPT !.pc = "emit", !.n = n]
                                /\ r.pc = "emit" /\ r.n = n /\ r.ask = req[b].ask
      <4>1. [req[b] EXCEPT !.pc = "emit", !.n = n] \in Req
        BY <1>1 DEF Req
      <4> QED BY <1>1, <4>1 DEF Req
    <3> QED BY <2>1, <3>1
  <2>3. req[b].ask.by \in Account /\ Exists(req[b].ask.by)
    BY <1>1, <1>5 DEF Knows, At, Ask
  <2>4. Knows(r)'
    BY <1>1, <2>1, <2>2, <2>3 DEF Knows, RequestPasswordReset, Exists
  <2>5. req' = [req EXCEPT ![b] = r]
    BY <1>5, <2>2 DEF IInv, TypeOK
  <2> QED BY <1>5, <2>3, <2>4, <2>5, NewLinkKeeps DEF RequestPasswordReset
<1> QED BY <1>2, <1>3, <1>4, <1>5 DEF RequestPasswordReset, At

\* An owner sets a password of its own.
LEMMA OwnKeeps ==
  ASSUME IInv, NEW a \in Account, Exists(a), users' = [users EXCEPT ![a].pw = Own],
         UNCHANGED <<app, drawn>>
  PROVE  /\ users' \in [Account -> [email : Email, pw : 0..MaxDrawn] \cup {None}]
         /\ Grow /\ ApprovedHasAccount' /\ drawn' \in 0..MaxDrawn
<1>1. users[a] \in [email : Email, pw : 0..MaxDrawn]
  BY DEF Exists, IInv, TypeOK
<1>2. users' = [users EXCEPT ![a] = [email |-> users[a].email, pw |-> Own]]
  <2>1. [users[a] EXCEPT !.pw = Own] = [email |-> users[a].email, pw |-> Own]
    BY <1>1
  <2>2. users' = [users EXCEPT ![a] = [users[a] EXCEPT !.pw = Own]]
    BY DEF IInv, TypeOK
  <2> QED BY <2>1, <2>2
<1>3. [email |-> users[a].email, pw |-> Own] \in [email : Email, pw : 0..MaxDrawn]
  BY <1>1, Bounds DEF Own
<1>4. users' \in [Account -> [email : Email, pw : 0..MaxDrawn] \cup {None}]
  BY <1>2, <1>3 DEF IInv, TypeOK
<1>5. \A c \in Account : /\ users'[c].email = users[c].email
                         /\ c # a => users'[c] = users[c]
  <2>1. DOMAIN users = Account
    BY DEF IInv, TypeOK
  <2>2. users'[a] = [email |-> users[a].email, pw |-> Own]
    BY <1>2, <2>1
  <2>3. \A c \in Account \ {a} : users'[c] = users[c]
    BY <1>2, <2>1
  <2> QED BY <2>2, <2>3
<1>6. users'[a] # None /\ users'[a].pw = Own
  <2>1. users[a].email \in Email /\ users'[a] = [email |-> users[a].email, pw |-> Own]
    BY <1>1, <1>2 DEF IInv, TypeOK
  <2> QED BY <2>1, Bounds DEF None
<1>7. Grow /\ drawn' \in 0..MaxDrawn
  BY <1>5, <1>6, Bounds DEF Grow, IInv, TypeOK
<1>8. ApprovedHasAccount'
  BY <1>5, <1>6, Bounds DEF IInv, ApprovedHasAccount, Exists
<1> QED BY <1>4, <1>7, <1>8

LEMMA ResetPasswordKeeps ==
  ASSUME IInv, NEW b \in Browser, ResetPassword(b)
  PROVE  IInv'
<1>1. req[b] \in Req /\ req[b].ask \in Ask /\ req[b].ask.kind = "reset" /\ Knows(req[b])
  BY DEF ResetPassword, At, IInv, TypeOK, InFlight, Req
<1>2. CASE Answer(b, FALSE) /\ UNCHANGED <<users, links>>
  BY <1>1, <1>2, CheckKeeps DEF ResetPassword
<1>3. CASE /\ At(b, "reset", "check") /\ UNCHANGED <<users, links, page, spent>>
           /\ \E l \in links : /\ l.n = req[b].ask.n
                               /\ req' = [req EXCEPT ![b].pc = "write", ![b].ask.by = l.owner]
  <2>1. PICK l \in links : /\ l.n = req[b].ask.n
                           /\ req' = [req EXCEPT ![b].pc = "write", ![b].ask.by = l.owner]
    BY <1>3
  <2>2. l.owner \in Account /\ Exists(l.owner) /\ l.n \in 1..drawn
    BY Bounds DEF IInv, TypeOK, Link, Draw, Drawn
  <2>3. ASSUME NEW o \in Account
        PROVE  \E r \in Req : /\ r = [req[b] EXCEPT !.pc = "write", !.ask.by = o]
                              /\ r.pc = "write" /\ r.ask.kind = "reset" /\ r.ask.by = o
                              /\ r.ask.n = req[b].ask.n
    <3>1. [req[b].ask EXCEPT !.by = o] \in Ask
      BY <1>1 DEF Ask
    <3>2. [req[b] EXCEPT !.pc = "write", !.ask.by = o] \in Req
      BY <1>1, <3>1 DEF Req
    <3> QED BY <1>1, <3>2 DEF Req, Ask
  <2>4. PICK r \in Req : /\ r = [req[b] EXCEPT !.pc = "write", !.ask.by = l.owner]
                         /\ r.pc = "write" /\ r.ask.kind = "reset" /\ r.ask.by = l.owner
                         /\ r.ask.n = req[b].ask.n
    BY <2>2, <2>3
  <2>5. Knows(r)
    BY <2>1, <2>2, <2>4 DEF Knows
  <2>6. req' = [req EXCEPT ![b] = r]
    BY <2>1, <2>4 DEF IInv, TypeOK
  <2> QED BY <1>3, <2>5, <2>6, CheckKeeps DEF ResetPassword
<1>4. CASE /\ At(b, "reset", "write") /\ users' = [users EXCEPT ![req[b].ask.by].pw = Own]
           /\ Go(b, "purge") /\ UNCHANGED links
  <2>1. req[b].ask.by \in Account /\ Exists(req[b].ask.by) /\ req[b].ask.n \in 1..drawn
    BY <1>1, <1>4 DEF Knows, At, Ask
  <2>2. /\ users' \in [Account -> [email : Email, pw : 0..MaxDrawn] \cup {None}]
        /\ Grow /\ ApprovedHasAccount' /\ drawn' \in 0..MaxDrawn
    BY <1>4, <2>1, OwnKeeps DEF ResetPassword
  <2>3. PICK r \in Req : r.pc = "purge" /\ r.ask = req[b].ask /\ req' = [req EXCEPT ![b] = r]
    BY <1>4, GoIs
  <2>4. Knows(r)
    BY <1>1, <2>1, <2>3 DEF Knows
  <2>5. Knows(r)'
    BY <2>2, <2>4, KnowsStays
  <2> QED BY <1>4, <2>2, <2>3, <2>5, GoKeeps DEF ResetPassword, Go, IInv, TypeOK
<1>5. CASE /\ At(b, "reset", "purge") /\ PurgeLinks([owner |-> req[b].ask.by, n |-> req[b].ask.n])
           /\ Answer(b, TRUE) /\ UNCHANGED users
  <2>1. Grow
    BY <1>5, SameGrow DEF ResetPassword
  <2>2. links' \subseteq links /\ \A l \in links' : l.owner # req[b].ask.by
    BY <1>5 DEF PurgeLinks, LinksOf
  <2>3. /\ req' \in [Browser -> Req] /\ page' \in [Browser -> Page]
        /\ links' \subseteq Link /\ spent' \subseteq Link
        /\ InFlight' /\ Drawn' /\ SpentLinkIsDead'
    BY <1>5, <2>1, <2>2, AnswerKeeps DEF At
  <2>4. TypeOK'
    BY <2>1, <2>3, MailsStay, UsersStay, <1>5 DEF ResetPassword, IInv, TypeOK
  <2> QED BY <1>5, <2>1, <2>3, <2>4, MailsStay, UsersStay DEF ResetPassword, IInv
<1> QED BY <1>2, <1>3, <1>4, <1>5 DEF ResetPassword, At

LEMMA UpdateUserKeeps ==
  ASSUME IInv, NEW b \in Browser, UpdateUser(b)
  PROVE  IInv'
<1> DEFINE ask == req[b].ask
<1>1. /\ req[b] \in Req /\ ask \in Ask /\ ask.kind \in {"profile", "password"}
      /\ ask.by \in Account /\ ask.email \in Email /\ Exists(ask.by)
  BY DEF UpdateUser, At, IInv, TypeOK, InFlight, Knows, Req, Ask
<1>2. \A ok \in BOOLEAN : Answer(b, ok) /\ UNCHANGED users => IInv'
  BY <1>1, CheckKeeps DEF UpdateUser
<1>3. CASE Go(b, "write") /\ UNCHANGED users
  <2>1. PICK r \in Req : r.pc = "write" /\ r.ask = ask /\ req' = [req EXCEPT ![b] = r]
    BY <1>3, GoIs
  <2>2. Knows(r)
    BY <1>1, <2>1 DEF Knows
  <2> QED BY <1>3, <2>1, <2>2, CheckKeeps DEF UpdateUser, Go
<1>4. CASE At(b, "profile", "check")
  <2>1. (users[ask.by].email = ask.email) \in BOOLEAN
    OBVIOUS
  <2> QED BY <1>2, <1>3, <1>4, <2>1 DEF UpdateUser, At
<1>5. CASE At(b, "profile", "write")
  <2>1. CASE Taken(ask.email) /\ users[ask.by].email # ask.email
    BY <1>2, <1>5, <2>1 DEF UpdateUser, At
  <2>2. CASE ~(Taken(ask.email) /\ users[ask.by].email # ask.email)
    <3>1. users' = [users EXCEPT ![ask.by].email = ask.email] /\ Answer(b, TRUE)
      BY <1>5, <2>2 DEF UpdateUser, At
    <3>2. users[ask.by] \in [email : Email, pw : 0..MaxDrawn] /\ DOMAIN users = Account
      BY <1>1 DEF Exists, IInv, TypeOK
    <3>3. users' = [users EXCEPT ![ask.by] = [email |-> ask.email, pw |-> users[ask.by].pw]]
      <4>1. [users[ask.by] EXCEPT !.email = ask.email] = [email |-> ask.email, pw |-> users[ask.by].pw]
        BY <3>2
      <4>2. users' = [users EXCEPT ![ask.by] = [users[ask.by] EXCEPT !.email = ask.email]]
        BY <3>1, <3>2
      <4> QED BY <4>1, <4>2
    <3>4. /\ users'[ask.by] = [email |-> ask.email, pw |-> users[ask.by].pw]
          /\ \A c \in Account \ {ask.by} : users'[c] = users[c]
      BY <1>1, <3>2, <3>3
    <3>5. users' \in [Account -> [email : Email, pw : 0..MaxDrawn] \cup {None}]
      BY <1>1, <3>2, <3>3 DEF IInv, TypeOK
    <3>6. users'[ask.by] # None /\ users'[ask.by].pw = users[ask.by].pw
      BY <1>1, <3>4, Bounds DEF None
    <3>7. Grow /\ drawn' \in 0..MaxDrawn
      BY <1>1, <3>4, <3>6, Bounds DEF UpdateUser, Grow, IInv, TypeOK
    <3>8. \A c \in Account \ {ask.by} : users[c].email # ask.email
      <4>1. CASE Taken(ask.email)
        BY <1>1, <2>2, <4>1 DEF IInv, ApprovedHasAccount
      <4>2. CASE ~Taken(ask.email)
        BY <4>2 DEF Taken
      <4> QED BY <4>1, <4>2
    <3>9. ApprovedHasAccount'
      <4>1. \A a \in Account : Exists(a)' <=> Exists(a)
        BY <1>1, <3>4, <3>6 DEF Exists
      <4>2. ASSUME NEW c \in Account, NEW d \in Account, Exists(c)', users'[c].email = users'[d].email
            PROVE  c = d
        <5>1. CASE c = ask.by
          BY <3>4, <3>8, <4>2, <5>1
        <5>2. CASE d = ask.by
          BY <3>4, <3>8, <4>2, <5>2
        <5>3. CASE c # ask.by /\ d # ask.by
          BY <3>4, <4>1, <4>2, <5>3 DEF IInv, ApprovedHasAccount
        <5> QED BY <5>1, <5>2, <5>3
      <4>3. app' = app
        BY DEF UpdateUser
      <4> QED BY <4>1, <4>2, <4>3, Bounds DEF IInv, ApprovedHasAccount
    <3> QED BY <1>1, <3>1, <3>5, <3>7, <3>9, ThroughKeeps DEF UpdateUser, IInv, TypeOK
  <2> QED BY <2>1, <2>2
<1>6. CASE At(b, "password", "check")
  BY <1>3, <1>6 DEF UpdateUser, At
<1>7. CASE At(b, "password", "write")
  <2>1. users' = [users EXCEPT ![ask.by].pw = Own] /\ Answer(b, TRUE)
    BY <1>7 DEF UpdateUser, At
  <2>2. /\ users' \in [Account -> [email : Email, pw : 0..MaxDrawn] \cup {None}]
        /\ Grow /\ ApprovedHasAccount' /\ drawn' \in 0..MaxDrawn
    BY <1>1, <2>1, OwnKeeps DEF UpdateUser
  <2> QED BY <1>1, <2>1, <2>2, ThroughKeeps DEF UpdateUser, IInv, TypeOK
<1> QED BY <1>4, <1>5, <1>6, <1>7 DEF UpdateUser

-------------------------------------------------------------------------------
(* The queue, its worker and the rest.                                      *)

LEMMA EmitEventKeeps ==
  ASSUME IInv, NEW b \in Browser, EmitEvent(b)
  PROVE  IInv'
<1> DEFINE j == [mail |-> MailOf(b), state |-> "waiting", tries |-> 0, stalls |-> 0]
<1>1. Grow
  BY SameGrow DEF EmitEvent
<1>2. Knows(req[b]) /\ req[b].pc = "emit"
  BY DEF EmitEvent, IInv, InFlight
<1>3. MailOf(b) \in Mail /\ (MailOf(b).kind = "welcome" => req[b].ask.kind = "approve") /\ MailOf(b).n = req[b].n
  BY <1>2 DEF MailOf, Mail, Knows
<1>4. j \in Job
  BY <1>3, Bounds DEF Job
<1>5. MailOf(b).kind = "welcome" => Exists(Operator) /\ users[Operator].pw \in {MailOf(b).n, Own}
  BY <1>2, <1>3 DEF Knows
<1>6. jobs' \subseteq jobs \cup {j} /\ inbox' = inbox /\ users' = users
  BY DEF EmitEvent
<1>7. WelcomeTellsThePassword'
  <2>1. \A m \in {i.mail : i \in jobs'} : m \in {i.mail : i \in jobs} \/ m = MailOf(b)
    BY <1>6
  <2> QED BY <1>5, <1>6, <2>1 DEF IInv, WelcomeTellsThePassword, Exists
<1>8. /\ req' \in [Browser -> Req] /\ page' \in [Browser -> Page]
      /\ links' \subseteq Link /\ spent' \subseteq Link
      /\ InFlight' /\ Drawn' /\ SpentLinkIsDead'
  <2>1. req[b].ask.kind # "reset"
    BY <1>2 DEF Knows
  <2> QED BY <1>1, <2>1, AnswerKeeps DEF EmitEvent
<1>9. TypeOK'
  BY <1>4, <1>6, <1>8, UsersStay DEF EmitEvent, IInv, TypeOK
<1> QED BY <1>7, <1>8, <1>9, UsersStay DEF EmitEvent, IInv

LEMMA WorkerKeeps ==
  ASSUME IInv, NEW j \in jobs, Worker(j)
  PROVE  IInv'
<1>1. Grow
  BY SameGrow DEF Worker
<1>2. j \in Job /\ j.mail \in Mail /\ j.tries \in 0..MaxAttempts - 1 /\ j.state \in {"waiting", "active"}
  BY DEF IInv, TypeOK, Job
<1>3. /\ inbox' \subseteq inbox \cup {j.mail}
      /\ jobs' \subseteq Job /\ \A i \in jobs' : i.mail \in {k.mail : k \in jobs}
  <2>1. CASE TakeJob(j)
    <3>1. [j EXCEPT !.state = "active"] \in Job /\ [j EXCEPT !.state = "active"].mail = j.mail
      BY <1>2 DEF Job
    <3>2. jobs' = (jobs \ {j}) \cup {[j EXCEPT !.state = "active"]} /\ inbox' = inbox
      BY <2>1 DEF TakeJob, Becomes
    <3> QED BY <3>1, <3>2 DEF IInv, TypeOK
  <2>2. CASE SendMail(j)
    BY <2>2 DEF SendMail, Becomes, IInv, TypeOK
  <2>3. CASE SendFails(j)
    <3>1. CASE j.tries + 1 < MaxAttempts
      <4>1. j.tries + 1 \in 0..MaxAttempts - 1
        BY <1>2, <3>1, Bounds
      <4>2. \A t \in 0..MaxAttempts - 1 :
              /\ [j EXCEPT !.tries = t, !.state = "waiting"] \in Job
              /\ [j EXCEPT !.tries = t, !.state = "waiting"].mail = j.mail
        BY <1>2 DEF Job
      <4>3. /\ jobs' = (jobs \ {j}) \cup {[j EXCEPT !.tries = j.tries + 1, !.state = "waiting"]}
            /\ inbox' = inbox
        BY <2>3, <3>1 DEF SendFails, Becomes
      <4> QED BY <4>1, <4>2, <4>3 DEF IInv, TypeOK
    <3>2. CASE ~(j.tries + 1 < MaxAttempts)
      <4>1. jobs' = (jobs \ {j}) \cup {} /\ inbox' = inbox
        BY <2>3, <3>2 DEF SendFails, Becomes
      <4> QED BY <4>1 DEF IInv, TypeOK
    <3> QED BY <3>1, <3>2
  <2> QED BY <2>1, <2>2, <2>3 DEF Worker
<1>4. WelcomeTellsThePassword' /\ inbox' \subseteq Mail
  <2>1. users' = users
    BY DEF Worker
  <2>2. \A m \in inbox' \cup {i.mail : i \in jobs'} : m \in inbox \cup {i.mail : i \in jobs}
    BY <1>3
  <2> QED BY <1>2, <1>3, <2>1, <2>2 DEF IInv, TypeOK, WelcomeTellsThePassword, Exists
<1>5. InFlight' /\ TypeOK'
  BY <1>1, <1>3, <1>4, ReqsStay, LinksStay, UsersStay DEF Worker, IInv, TypeOK, InFlight
<1> QED BY <1>1, <1>4, <1>5, LinksStay, UsersStay DEF Worker, IInv

LEMMA ResumeJob ==
  ASSUME NEW j \in Job, j.stalls < MaxStalls
  PROVE  Resume(j) \in Job /\ Resume(j).mail = j.mail
<1>1. j.stalls + 1 \in 0..MaxStalls
  BY AccountConstants DEF Job
<1>2. PICK n \in 0..MaxStalls : n = j.stalls + 1
  BY <1>1
<1>3. Resume(j) = [j EXCEPT !.state = "waiting", !.stalls = n]
  BY <1>2 DEF Resume
<1>4. [j EXCEPT !.state = "waiting", !.stalls = n] \in Job
  BY DEF Job
<1>5. [j EXCEPT !.state = "waiting", !.stalls = n].mail = j.mail
  BY DEF Job
<1> QED BY <1>3, <1>4, <1>5

LEMMA CrashKeeps ==
  ASSUME IInv, Crash
  PROVE  IInv'
<1>1. Grow
  BY SameGrow DEF Crash
<1>2. InFlight' /\ req' \in [Browser -> Req]
  BY IdleType DEF Crash, InFlight, Knows, IInv
<1>3. jobs \subseteq Job /\ inbox \subseteq Mail
  BY DEF IInv, TypeOK
<1>4. PICK sent \in SUBSET Active : inbox' = inbox \cup {j.mail : j \in sent}
  BY DEF Crash
<1>5. \A j \in jobs : j.stalls < MaxStalls => Resume(j) \in Job /\ Resume(j).mail = j.mail
  BY <1>3, ResumeJob
<1>6. jobs' = (jobs \ Active) \cup {Resume(j) : j \in {i \in Active : i.stalls < MaxStalls}}
  BY DEF Crash
<1>7. /\ jobs' \subseteq Job
      /\ \A i \in jobs' : i.mail \in {k.mail : k \in jobs}
  BY <1>3, <1>5, <1>6 DEF Active
<1>8. \A m \in inbox' \cup {i.mail : i \in jobs'} : m \in inbox \cup {i.mail : i \in jobs}
  BY <1>4, <1>7 DEF Active
<1>9. inbox' \subseteq Mail
  <2>1. \A i \in jobs : i.mail \in Mail
    BY <1>3 DEF Job
  <2> QED BY <1>3, <1>4, <2>1 DEF Active
<1>10. WelcomeTellsThePassword'
  BY <1>8 DEF Crash, IInv, WelcomeTellsThePassword, Exists
<1>11. TypeOK'
  BY <1>1, <1>2, <1>7, <1>9, LinksStay, UsersStay DEF Crash, IInv, TypeOK
<1> QED BY <1>1, <1>2, <1>10, <1>11, LinksStay, UsersStay DEF Crash, IInv

LEMMA LinkExpiresKeeps ==
  ASSUME IInv, LinkExpires
  PROVE  IInv'
<1>1. Grow /\ links' \subseteq links
  BY SameGrow DEF LinkExpires
<1>2. InFlight' /\ TypeOK'
  BY <1>1, ReqsStay, MailsStay, LinksStay, UsersStay DEF LinkExpires, IInv, TypeOK, InFlight
<1> QED BY <1>1, <1>2, MailsStay, LinksStay, UsersStay DEF LinkExpires, IInv

LEMMA InitInv ==
  ASSUME Init
  PROVE  IInv
<1>1. TypeOK
  <2>1. page \in [Browser -> Page] /\ req \in [Browser -> Req]
    BY IdleType DEF Init, GivenUp
  <2>2. users \in [Account -> [email : Email, pw : 0..MaxDrawn] \cup {None}]
    BY DEF Init
  <2>3. drawn \in 0..MaxDrawn /\ asks \in 0..MaxAsks
    BY Bounds DEF Init
  <2> QED BY <2>1, <2>2, <2>3 DEF Init, TypeOK
<1>2. \A a \in Account : ~Exists(a)
  BY DEF Init, Exists
<1>3. InFlight
  BY IdleType DEF Init, InFlight, Knows
<1>4. WelcomeTellsThePassword /\ SpentLinkIsDead /\ Drawn
  BY DEF Init, WelcomeTellsThePassword, SpentLinkIsDead, Drawn
<1>5. ApprovedHasAccount
  BY <1>2, Bounds DEF Init, ApprovedHasAccount
<1> QED BY <1>1, <1>3, <1>4, <1>5 DEF IInv

LEMMA NextInv ==
  ASSUME IInv, [Next]_vars
  PROVE  IInv'
<1>1. CASE UNCHANGED vars
  <2>1. Grow
    BY <1>1, SameGrow DEF vars
  <2>2. InFlight' /\ TypeOK'
    BY <1>1, <2>1, ReqsStay, MailsStay, LinksStay, UsersStay DEF vars, IInv, TypeOK, InFlight
  <2> QED BY <1>1, <2>1, <2>2, MailsStay, LinksStay, UsersStay DEF vars, IInv
<1>2. ASSUME NEW b \in Browser, Pages(b) \/ NoAnswer(b) \/ Retry(b) PROVE IInv'
  BY <1>2, PagesKeep, NoAnswerKeeps, RetryKeeps
<1>3. ASSUME NEW b \in Browser, Handler(b) PROVE IInv'
  BY <1>3, RegisterKeeps, ApplyKeeps, ApproveChecksKeep, ApproveTransactionKeeps, DeclineKeeps,
     ListKeeps, RequestPasswordResetKeeps, ResetPasswordKeeps, UpdateUserKeeps, EmitEventKeeps
     DEF Handler
<1>4. ASSUME NEW j \in jobs, Worker(j) PROVE IInv'
  BY <1>4, WorkerKeeps
<1> QED BY <1>1, <1>2, <1>3, <1>4, LinkExpiresKeeps, CrashKeeps DEF Next

-------------------------------------------------------------------------------
(* The tables, step by step, against the book.                             *)

BookStep == [Book!BookNext]_(Book!bookVars)

LEMMA BookStutters ==
  ASSUME UNCHANGED <<app, users>>
  PROVE  BookStep
BY DEF BookStep, Book!bookVars

LEMMA ChoosesInBook ==
  ASSUME NEW a \in Account, Exists(a), users' = [users EXCEPT ![a].pw = Own], UNCHANGED app
  PROVE  BookStep
BY DEF BookStep, Book!BookNext, Book!ChoosePassword, Book!IsOpen, Book!None, Exists, None

\* Every handler's write of the tables is a step of the book: what its checks
\* learnt is checked again in the write, or stays true until then.
LEMMA HandlerInBook ==
  ASSUME IInv, NEW b \in Browser, Handler(b)
  PROVE  BookStep
<1> DEFINE ask == req[b].ask
<1>1. ask \in Ask /\ Knows(req[b]) /\ ask.by \in Account /\ ask.email \in Email
  BY DEF IInv, TypeOK, InFlight, Req, Ask
<1>2. \A e \in Email : ~Taken(e) => Book!Free(e)
  BY DEF Taken, Book!Free
<1>3. CASE Register(b) /\ ~UNCHANGED users
  <2>1. /\ ~Taken(ask.email) /\ ~Exists(ask.by) /\ ask.kind = "signUp" /\ app' = app
        /\ users' = [users EXCEPT ![ask.by] = [email |-> ask.email, pw |-> Own]]
    BY <1>3 DEF Register, At
  <2>2. ask.by # Operator
    BY <1>1, <2>1, Bounds DEF Knows
  <2>3. Book!SignUp(ask.by, ask.email)
    BY <1>1, <1>2, <2>1, <2>2 DEF Book!SignUp, Book!IsOpen, Book!None, Exists, None
  <2> QED BY <1>1, <2>3 DEF BookStep, Book!BookNext
<1>4. CASE Apply(b)
  <2>1. (app = "none" /\ app' = "pending" /\ UNCHANGED users) \/ UNCHANGED <<app, users>>
    BY <1>4 DEF Apply
  <2> QED BY <2>1, BookStutters DEF BookStep, Book!BookNext, Book!Apply
<1>5. CASE ApproveTransaction(b)
  <2>1. CASE UNCHANGED <<app, users>>
    BY <2>1, BookStutters
  <2>2. CASE /\ ~Taken(Applicant) /\ MarkReviewedIfPending("approved")
             /\ users' = [users EXCEPT ![Operator] = [email |-> Applicant, pw |-> req[b].n]]
    <3>1. req[b].n \in Draw
      BY <1>1, <1>5 DEF ApproveTransaction, At, Knows
    <3>2. Book!Approve
      BY <1>2, <2>2, <3>1, Bounds DEF Book!Approve, MarkReviewedIfPending
    <3> QED BY <3>2 DEF BookStep, Book!BookNext
  <2> QED BY <1>5, <2>1, <2>2 DEF ApproveTransaction
<1>6. CASE Decline(b)
  <2>1. UNCHANGED users /\ ((app = "pending" /\ app' = "declined") \/ UNCHANGED app)
    BY <1>6 DEF Decline, MarkReviewedIfPending
  <2> QED BY <2>1, BookStutters DEF BookStep, Book!BookNext, Book!Decline
<1>7. CASE ResetPassword(b) /\ ~UNCHANGED users
  <2>1. ask.kind = "reset" /\ req[b].pc = "write" /\ app' = app
        /\ users' = [users EXCEPT ![ask.by].pw = Own]
    BY <1>7 DEF ResetPassword, At
  <2>2. Exists(ask.by)
    BY <1>1, <2>1 DEF Knows
  <2> QED BY <1>1, <2>1, <2>2, ChoosesInBook
<1>8. CASE UpdateUser(b) /\ ~UNCHANGED users
  <2>1. Exists(ask.by) /\ app' = app
    BY <1>1, <1>8 DEF UpdateUser, At, Knows
  <2>2. CASE users' = [users EXCEPT ![ask.by].pw = Own]
    BY <1>1, <2>1, <2>2, ChoosesInBook
  <2>3. CASE /\ ~(Taken(ask.email) /\ users[ask.by].email # ask.email)
             /\ users' = [users EXCEPT ![ask.by].email = ask.email]
    <3>1. CASE Taken(ask.email)
      <4>1. users[ask.by] \in [email : Email, pw : 0..MaxDrawn]
        BY <1>1, <2>1 DEF Exists, IInv, TypeOK
      <4>2. [users[ask.by] EXCEPT !.email = ask.email] = users[ask.by]
        BY <2>3, <3>1, <4>1
      <4>3. users' = [users EXCEPT ![ask.by] = [users[ask.by] EXCEPT !.email = ask.email]]
        BY <2>3
      <4>4. users' = users
        BY <4>2, <4>3 DEF IInv, TypeOK
      <4> QED BY <2>1, <4>4, BookStutters
    <3>2. CASE ~Taken(ask.email)
      <4>1. Book!MoveTo(ask.by, ask.email)
        BY <1>1, <1>2, <2>1, <2>3, <3>2 DEF Book!MoveTo, Book!IsOpen, Book!None, Exists, None
      <4> QED BY <1>1, <4>1 DEF BookStep, Book!BookNext
    <3> QED BY <3>1, <3>2
  <2> QED BY <1>8, <2>2, <2>3 DEF UpdateUser
<1>9. CASE UNCHANGED <<app, users>>
  BY <1>9, BookStutters
<1>10. Register(b) \/ ResetPassword(b) \/ UpdateUser(b) => UNCHANGED app
  BY DEF Register, ResetPassword, UpdateUser
<1>11. ApproveChecks(b) \/ List(b) \/ RequestPasswordReset(b) \/ EmitEvent(b) => UNCHANGED <<app, users>>
  BY DEF ApproveChecks, List, RequestPasswordReset, EmitEvent
<1> QED BY <1>3, <1>4, <1>5, <1>6, <1>7, <1>8, <1>9, <1>10, <1>11 DEF Handler

\* Pages, network, worker, an hour gone by and a crash leave the tables alone.
LEMMA OthersStutter ==
  ASSUME \/ \E b \in Browser : Pages(b) \/ NoAnswer(b) \/ Retry(b)
         \/ LinkExpires \/ Crash \/ \E j \in jobs : Worker(j)
  PROVE  UNCHANGED <<app, users>>
BY DEF Pages, SignUpPage, RegisterOperatorPage, OperatorsPage, ForgotPage, ResetPage,
       AccountSettings, Submit, NoAnswer, Retry, LinkExpires, Crash, Worker

LEMMA NextInBook ==
  ASSUME IInv, [Next]_vars
  PROVE  BookStep
<1>1. CASE UNCHANGED vars
  BY <1>1, BookStutters DEF vars
<1>2. CASE Next
  BY <1>2, HandlerInBook, OthersStutter, BookStutters DEF Next
<1> QED BY <1>1, <1>2

-------------------------------------------------------------------------------
(* The results.                                                            *)

\* What handlers know, what was drawn and the properties below hold in every
\* reachable state.
THEOREM AccountsInductive == Spec => []IInv
<1>1. Init => IInv
  BY InitInv
<1>2. IInv /\ [Next]_vars => IInv'
  BY NextInv
<1> QED BY <1>1, <1>2, PTL DEF Spec

\* Tables, handlers, queue and pages keep their types.
THEOREM AccountsTypes == Spec => []TypeOK
<1>1. IInv => TypeOK
  BY DEF IInv
<1> QED BY <1>1, AccountsInductive, PTL

\* An application is approved exactly when its operator has an account, and no
\* e-mail has two accounts, however checks and writes of the handlers interleave.
THEOREM ApprovedOnce == Spec => []ApprovedHasAccount
<1>1. IInv => ApprovedHasAccount
  BY DEF IInv
<1> QED BY <1>1, AccountsInductive, PTL

\* A welcome mail tells a password that the account was created with.
THEOREM WelcomeIsTrue == Spec => []WelcomeTellsThePassword
<1>1. IInv => WelcomeTellsThePassword
  BY DEF IInv
<1> QED BY <1>1, AccountsInductive, PTL

\* A redeemed link, and every older one of its owner, stays dead.
THEOREM SpentStaysDead == Spec => []SpentLinkIsDead
<1>1. IInv => SpentLinkIsDead
  BY DEF IInv
<1> QED BY <1>1, AccountsInductive, PTL

\* However sign-ups, reviews, changes of e-mail and resets interleave, the tables
\* change as in AccountBook, where each is checked and made at once: the application
\* is reviewed once, its approval opens the account, and no account is removed.
THEOREM AccountsBook == Spec => ImplementsBook
<1>1. Init => Book!BookInit
  BY DEF Init, Book!BookInit, Book!None, None
<1>2. IInv /\ [Next]_vars => [Book!BookNext]_(Book!bookVars)
  BY NextInBook DEF BookStep
<1> QED BY <1>1, <1>2, AccountsInductive, PTL DEF Spec, ImplementsBook, Book!BookSpec
===============================================================================
