------------------------------ MODULE AccountBook ------------------------------
(***************************************************************************)
(* What the accounts promise, however a request is spread over look-ups    *)
(* and writes: every change of the users and operators tables is one of    *)
(* these steps, as if it had been checked and made at once.  One           *)
(* application is reviewed once, and approving it opens its account in the *)
(* same step; an account opens on an e-mail that is free, moves to one     *)
(* that is free, and is never removed; a temporary password is given by    *)
(* the approval only and replaced for good by the owner's choice.          *)
(***************************************************************************)
CONSTANTS Account, Operator, Email, Applicant,
          Own,        \* a password its owner chose
          Temporary   \* the passwords an approval may draw

VARIABLES app,    \* status of the application
          users   \* the accounts

bookVars == <<app, users>>

None == [email |-> "none", pw |-> 0]

IsOpen(a) == users[a] # None
Free(e)   == \A a \in Account : users[a].email # e

BookInit == app = "none" /\ users = [a \in Account |-> None]

Apply   == app = "none" /\ app' = "pending" /\ UNCHANGED users
Decline == app = "pending" /\ app' = "declined" /\ UNCHANGED users

Approve ==
  /\ app = "pending" /\ app' = "approved" /\ Free(Applicant)
  /\ \E n \in Temporary : users' = [users EXCEPT ![Operator] = [email |-> Applicant, pw |-> n]]

SignUp(a, e) ==
  /\ a # Operator /\ ~IsOpen(a) /\ Free(e)
  /\ users' = [users EXCEPT ![a] = [email |-> e, pw |-> Own]]
  /\ UNCHANGED app

MoveTo(a, e) ==
  /\ IsOpen(a) /\ Free(e)
  /\ users' = [users EXCEPT ![a].email = e]
  /\ UNCHANGED app

ChoosePassword(a) ==
  /\ IsOpen(a)
  /\ users' = [users EXCEPT ![a].pw = Own]
  /\ UNCHANGED app

BookNext ==
  \/ Apply \/ Decline \/ Approve
  \/ \E a \in Account : ChoosePassword(a) \/ \E e \in Email : SignUp(a, e) \/ MoveTo(a, e)

BookSpec == BookInit /\ [][BookNext]_bookVars
===============================================================================
