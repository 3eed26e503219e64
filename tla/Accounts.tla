------------------------------ MODULE Accounts ------------------------------
(***************************************************************************)
(* Passwords and tokens of an account beyond Register and Login              *)
(* (application/auth_usecase.go, persistence/user_repo.go).  A reset link       *)
(* carries a token whose row is marked and returned by one statement; the        *)
(* password is written by the next.  A password is known by the request that     *)
(* has set it; bcrypt refuses one of more than 72 bytes, and only a lower limit   *)
(* is checked before.  The mail service is external and may fail.              *)
(***************************************************************************)
EXTENDS Classroom

CONSTANT Resets   \* ids of password_reset_tokens

\* Deleted rows are not live; old: expired.
ResetRows == [user : Users, used : BOOLEAN, old : BOOLEAN, live : BOOLEAN]

ASSUME AccountsAssumption == None \notin ResetRows

VARIABLES
  password,   \* users.password, by the request that has set it
  reset,      \* password_reset_tokens
  linked,     \* the reset tokens that have been mailed
  resetBy,    \* history: passwords written by reset token
  wasted      \* history: reset tokens used up for a password that bcrypt refuses

accounts == <<password, reset, linked, resetBy, wasted>>

AccountsInit ==
  /\ password = [u \in Users |-> 0]
  /\ reset = [x \in Resets |-> None]
  /\ linked = {}
  /\ resetBy = [x \in Resets |-> 0]
  /\ wasted = {}

ResetRow(u) == [user |-> u, used |-> FALSE, old |-> FALSE, live |-> TRUE]

\* What ConsumeResetToken's WHERE asks.
LinkWorks(x) == reset[x] # None /\ reset[x].live /\ ~reset[x].used /\ ~reset[x].old

-----------------------------------------------------------------------------
(* Forgotten passwords *)

ForgotPassword(r) ==
  \E u \in Users :
    /\ Registered(u)
    /\ Receive(r, "ForgotPassword", "forgot:save", [user |-> u])
    /\ UNCHANGED <<money, active, classroom, accounts>>

\* Of one user, at most the last one stays.
Superseded_None(u) == {}

Superseded(u) == {x \in Resets : reset[x] # None /\ reset[x].user = u}

SaveResetToken(r) ==
  LET t == task[r]
  IN  /\ At(r, "forgot:save")
      /\ \E x \in FreeId(reset) :
           /\ GotoWith(r, "forgot:mail", With(t, [reset |-> x]))
           /\ reset' = [y \in Resets |->
                IF y = x THEN ResetRow(t.user)
                ELSE IF y \in Superseded(t.user) THEN [reset[y] EXCEPT !.live = FALSE]
                ELSE reset[y]]
      /\ UNCHANGED <<money, active, classroom, password, linked, resetBy, wasted>>

ForgotMail(r) ==
  /\ At(r, "forgot:mail")
  /\ Return(r)
  /\ linked' \in {linked, linked \cup {task[r].reset}}
  /\ UNCHANGED <<money, active, classroom, password, reset, resetBy, wasted>>

\* ConsumeResetToken: one UPDATE ... RETURNING judges the token and uses it up.
Consume(x) ==
  /\ x \in linked /\ LinkWorks(x)
  /\ reset' = [reset EXCEPT ![x].used = TRUE]

ResetPassword(r) ==
  \E x \in Resets :
    /\ Consume(x)
    /\ Receive(r, "ResetPassword", "password:update",
               [user |-> reset[x].user, by |-> {x}, new |-> served'])
    /\ UNCHANGED <<money, active, classroom, password, linked, resetBy, wasted>>

\* The password is hashed only now: bcrypt refuses it, and the token stays used up.
ResetRefused ==
  \E x \in Resets :
    /\ Consume(x)
    /\ AnswerAtOnce("ResetPassword")
    /\ wasted' = wasted \cup {x}
    /\ UNCHANGED <<money, active, classroom, password, linked, resetBy>>

\* By whoever knows the one that the row has.
ChangePassword(r) ==
  \E u \in Users :
    /\ token[u] # None
    /\ Receive(r, "ChangePassword", "password:update",
               [user |-> u, by |-> {}, new |-> served'])
    /\ UNCHANGED <<money, active, classroom, accounts>>

UpdatePassword(r) ==
  LET t == task[r]
  IN  /\ At(r, "password:update")
      /\ Return(r)
      /\ password' = [password EXCEPT ![t.user] = t.new]
      /\ resetBy' = [x \in Resets |-> IF x \in t.by THEN resetBy[x] + 1 ELSE resetBy[x]]
      /\ UNCHANGED <<money, active, classroom, reset, linked, wasted>>

LinksExpire ==
  /\ AnswerAtOnce("LinksExpire")
  /\ reset' = [x \in Resets |->
       IF reset[x] = None THEN None ELSE [reset[x] EXCEPT !.old = TRUE]]
  /\ UNCHANGED <<money, active, classroom, password, linked, resetBy, wasted>>

-----------------------------------------------------------------------------
(* New tokens for old ones: of whom the row does not call rejected, and for     *)
(* an admin who looks at the site as somebody else, of anybody.                *)

RefreshToken ==
  \E u \in Users :
    /\ token[u] # None /\ account[u] # "rejected"
    /\ AnswerAtOnce("RefreshToken")
    /\ token' = [token EXCEPT ![u] = account[u]]
    /\ UNCHANGED <<money, active, account, rooms, member, seat, accounts>>

ImpersonateUser ==
  \E u \in Users :
    /\ Registered(u)
    /\ AnswerAtOnce("ImpersonateUser")
    /\ token' = [token EXCEPT ![u] = account[u]]
    /\ UNCHANGED <<money, active, account, rooms, member, seat, accounts>>

-----------------------------------------------------------------------------
AccountsStep(r) == SaveResetToken(r) \/ ForgotMail(r) \/ UpdatePassword(r)

ForgotRequest(r) == ForgotPassword(r)

ResetRequest(r) == ResetPassword(r)

PasswordRequest(r) == ChangePassword(r)

RefreshRequest == RefreshToken

ImpersonateRequest == ImpersonateUser

AccountsNext ==
  \/ RefreshRequest \/ ImpersonateRequest \/ LinksExpire \/ ResetRefused
  \/ \E r \in Requests :
       AccountsStep(r) \/ ForgotRequest(r) \/ ResetRequest(r) \/ PasswordRequest(r)
=============================================================================
