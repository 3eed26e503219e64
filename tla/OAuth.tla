-------------------------------- MODULE OAuth -------------------------------
(***************************************************************************)
(* The OAuth server (application/oauth_usecase.go, persistence/oauth_repo.go,  *)
(* handler/oauth_handler.go).  A user consents to an app and gets a code; the   *)
(* app exchanges it once for a pair of an access and a refresh token, and every  *)
(* refresh replaces the pair.  A row is read and judged in one statement and     *)
(* marked in another.  Apps, codes and pairs are tied by no foreign key.        *)
(* Secrets, redirect addresses, verifiers and scopes only decide whether a       *)
(* request is refused, which changes nothing: they are left out but for whether  *)
(* a code came with a challenge, which spares the exchange the look at the app.  *)
(***************************************************************************)
EXTENDS Classroom

CONSTANTS
  Apps,      \* ids of oauth_clients
  StartApp,  \* oauth_clients at the start
  Codes,     \* ids of oauth_authorization_codes
  StartCode, \* oauth_authorization_codes at the start
  Pairs      \* ids of oauth_tokens

AppRows == [owner : Users, live : BOOLEAN]

\* old: expired
CodeRows == [app : Apps, user : Users, pkce : BOOLEAN, used : BOOLEAN, old : BOOLEAN]

\* old: the access token has expired; of: history, the first code
PairRows == [app : Apps, user : Users, of : Codes, revoked : BOOLEAN, old : BOOLEAN]

ASSUME OAuthAssumption ==
  /\ StartApp \in [Apps -> AppRows \cup {None}]
  /\ StartCode \in [Codes -> CodeRows \cup {None}]
  /\ None \notin AppRows \cup CodeRows \cup PairRows

VARIABLES
  app,    \* oauth_clients; deleted rows are not live
  code,   \* oauth_authorization_codes
  pair,   \* oauth_tokens
  ended   \* history: codes with a pair that was revoked by hand

oauth == <<app, code, pair, ended>>

OAuthInit ==
  /\ app = StartApp
  /\ code = StartCode
  /\ pair = [p \in Pairs |-> None]
  /\ ended = {}

AppRow(u) == [owner |-> u, live |-> TRUE]

CodeRow(a, u, pkce) == [app |-> a, user |-> u, pkce |-> pkce, used |-> FALSE, old |-> FALSE]

PairRow(t) == [app |-> t.app, user |-> t.user, of |-> t.of, revoked |-> FALSE, old |-> FALSE]

\* GetClient
LiveApp(a) == app[a] # None /\ app[a].live

PairsOf(a) == {p \in Pairs : pair[p] # None /\ pair[p].app = a}

Revoked(s) == [p \in Pairs |-> IF p \in s THEN [pair[p] EXCEPT !.revoked = TRUE] ELSE pair[p]]

\* ValidateAccessToken
Honoured(p) == pair[p] # None /\ ~pair[p].revoked /\ ~pair[p].old

-----------------------------------------------------------------------------
(* Apps *)

RegisterClient ==
  \E u \in Users, a \in FreeId(app) :
    /\ MayAct(u)
    /\ AnswerAtOnce("RegisterClient")
    /\ app' = [app EXCEPT ![a] = AppRow(u)]
    /\ UNCHANGED <<money, active, classroom, code, pair, ended>>

DeleteClient(r) ==
  \E a \in Apps :
    /\ LiveApp(a) /\ MayAct(app[a].owner)
    /\ Receive(r, "DeleteClient", "app:revoke", [app |-> a])
    /\ UNCHANGED <<money, active, classroom, oauth>>

RevokeTokensByClient(r) ==
  /\ At(r, "app:revoke")
  /\ Goto(r, "app:delete")
  /\ pair' = Revoked(PairsOf(task[r].app))
  /\ UNCHANGED <<money, active, classroom, app, code, ended>>

DeleteApp(r) ==
  /\ At(r, "app:delete")
  /\ Return(r)
  /\ app' = [app EXCEPT ![task[r].app].live = FALSE]
  /\ UNCHANGED <<money, active, classroom, code, pair, ended>>

-----------------------------------------------------------------------------
(* Codes *)

Authorize(r) ==
  \E u \in Users, a \in Apps, pkce \in BOOLEAN :
    /\ MayAct(u) /\ LiveApp(a)
    /\ Receive(r, "Authorize", "code:insert", [app |-> a, user |-> u, pkce |-> pkce])
    /\ UNCHANGED <<money, active, classroom, oauth>>

CreateAuthorizationCode(r) ==
  LET t == task[r]
  IN  /\ At(r, "code:insert")
      /\ Return(r)
      /\ \E c \in FreeId(code) : code' = [code EXCEPT ![c] = CodeRow(t.app, t.user, t.pkce)]
      /\ UNCHANGED <<money, active, classroom, app, pair, ended>>

\* GetAuthorizationCode and the judgement of the row it returns.
Exchangeable(c) == code[c] # None /\ ~code[c].used /\ ~code[c].old

ExchangeCode(r) ==
  \E c \in {x \in Codes : Exchangeable(x)} :
    /\ Receive(r, "ExchangeCode", IF code[c].pkce THEN "code:mark" ELSE "code:app",
               [app |-> code[c].app, user |-> code[c].user, of |-> c])
    /\ UNCHANGED <<money, active, classroom, oauth>>

\* Without a challenge the app's secret is checked, and with it the app.
ExchangeFindsApp(r) ==
  /\ At(r, "code:app")
  /\ IF LiveApp(task[r].app) THEN Goto(r, "code:mark") ELSE Return(r)
  /\ UNCHANGED <<money, active, classroom, oauth>>

MarkCodeUsed(r) ==
  /\ At(r, "code:mark")
  /\ Goto(r, "pair:insert")
  /\ code' = [code EXCEPT ![task[r].of].used = TRUE]
  /\ UNCHANGED <<money, active, classroom, app, pair, ended>>

\* issueTokens
CreateToken(r) ==
  /\ At(r, "pair:insert")
  /\ Return(r)
  /\ \E p \in FreeId(pair) : pair' = [pair EXCEPT ![p] = PairRow(task[r])]
  /\ UNCHANGED <<money, active, classroom, app, code, ended>>

-----------------------------------------------------------------------------
(* Pairs *)

\* The refresh token of a pair outlives its access token.
RefreshAccessToken(r) ==
  \E p \in Pairs :
    /\ pair[p] # None /\ ~pair[p].revoked
    /\ Receive(r, "RefreshAccessToken", "refresh:app",
               [pair |-> p, app |-> pair[p].app, user |-> pair[p].user, of |-> pair[p].of])
    /\ UNCHANGED <<money, active, classroom, oauth>>

RefreshFindsApp(r) ==
  /\ At(r, "refresh:app")
  /\ IF LiveApp(task[r].app) THEN Goto(r, "refresh:revoke") ELSE Return(r)
  /\ UNCHANGED <<money, active, classroom, oauth>>

Replaced_Kept(t) == {}

\* What a refresh takes out of use.
Replaced(t) == {t.pair}

RefreshRevokes(r) ==
  /\ At(r, "refresh:revoke")
  /\ Goto(r, "pair:insert")
  /\ pair' = Revoked(Replaced(task[r]))
  /\ UNCHANGED <<money, active, classroom, app, code, ended>>

\* By the access token; whoever has it may.
RevokeToken ==
  \E p \in Pairs :
    /\ pair[p] # None
    /\ AnswerAtOnce("RevokeToken")
    /\ pair' = Revoked({p})
    /\ ended' = IF pair[p].revoked THEN ended ELSE ended \cup {pair[p].of}
    /\ UNCHANGED <<money, active, classroom, app, code>>

\* Ten minutes, or an hour.
TokensExpire ==
  \E hour \in BOOLEAN :
    /\ AnswerAtOnce("TokensExpire")
    /\ code' = [c \in Codes |-> IF code[c] = None THEN None ELSE [code[c] EXCEPT !.old = TRUE]]
    /\ pair' = [p \in Pairs |->
         IF hour /\ pair[p] # None THEN [pair[p] EXCEPT !.old = TRUE] ELSE pair[p]]
    /\ UNCHANGED <<money, active, classroom, app, ended>>

-----------------------------------------------------------------------------
OAuthStep(r) ==
  \/ RevokeTokensByClient(r) \/ DeleteApp(r) \/ CreateAuthorizationCode(r)
  \/ ExchangeFindsApp(r) \/ MarkCodeUsed(r) \/ CreateToken(r)
  \/ RefreshFindsApp(r) \/ RefreshRevokes(r)

AppRequest == RegisterClient

DropRequest(r) == DeleteClient(r)

ConsentRequest(r) == Authorize(r)

TokenRequest(r) == ExchangeCode(r) \/ RefreshAccessToken(r)

RevokeRequest == RevokeToken

OAuthNext ==
  \/ AppRequest \/ RevokeRequest \/ TokensExpire
  \/ \E r \in Requests :
       OAuthStep(r) \/ DropRequest(r) \/ ConsentRequest(r) \/ TokenRequest(r)
=============================================================================
