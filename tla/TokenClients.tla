---------------------------- MODULE TokenClients ----------------------------
(***************************************************************************)
(* What a client does with its refresh token: the interceptors of the      *)
(* mobile app (core/network/api_client.dart) and of the web dashboard      *)
(* (lib/api.ts), against the refresh handler of the server.                *)
(*                                                                         *)
(* One client is followed: the app, a dashboard open in one tab, or a      *)
(* dashboard whose tabs share localStorage, each with a refresh mutex of   *)
(* its own.  Access tokens are left out: one may expire, or be missing, at *)
(* any request, so any request may be answered 401.  Answers are lost, and *)
(* the process of a page may die.                                          *)
(***************************************************************************)
EXTENDS RefreshTokens

CONSTANT Ask   \* the requests of the client; under "tabs" each has a tab of its own

VARIABLES
  client,  \* the token store, and what kind of client owns it
  ask      \* the requests

(* cut says that a page died while it refreshed, families are those of the *)
(* sign-ins the client got the answer of.                                  *)
ClientRow == [kind : {"app", "tab", "tabs"}, ref : Token \cup {None},
              cut : BOOLEAN, families : SUBSET Token]

(* The leader of a refresh has presented tok, and is answered with tok, or *)
(* None when it failed; wait is a web request that awaits the refresh of   *)
(* another, replay one that is sent again.                                 *)
AskRow == [pc : {"idle", "sent", "wait", "refresh", "answered", "replay"},
           tok : Token \cup {None}, retried : BOOLEAN]

ClientType ==
  /\ client \in ClientRow /\ ask \in [Ask -> AskRow]
  /\ \A a \in Ask : ask[a].pc = "refresh" => ask[a].tok # None

NoAsk == [pc |-> "idle", tok |-> None, retried |-> FALSE]

ClientInit ==
  /\ client \in [kind : {"app", "tab", "tabs"}, ref : {None}, cut : {FALSE}, families : {{}}]
  /\ ask = [a \in Ask |-> NoAsk]

clientVars == <<client, ask>>

Web == client.kind \in {"tab", "tabs"}
SamePage(a, b) == client.kind = "tabs" => a = b
Leads(a) == ask[a].pc \in {"refresh", "answered"}

\* Mutant: a 401 starts a refresh of its own whatever else is under way.
NeverBusy(a) == FALSE

\* refreshPromise # null; _refreshing, which the app holds through its replay.
Busy(a) ==
  \E b \in Ask :
    SamePage(a, b) /\ (Leads(b) \/ (~Web /\ ask[b].pc = "replay"))

Finish(a) == ask' = [ask EXCEPT ![a] = NoAsk]

\* clearAuth, toLogin
Forget == client' = [client EXCEPT !.ref = None]

-----------------------------------------------------------------------------
\* onRequest, interceptors.request
Send(a) ==
  /\ ask[a].pc = "idle"
  /\ ask' = [ask EXCEPT ![a].pc = "sent"]
  /\ UNCHANGED <<client, token>>

\* Success, or an error that is neither 401 nor, on the web, 403.
Served(a) ==
  /\ ask[a].pc = "sent"
  /\ Finish(a)
  /\ UNCHANGED <<client, token>>

\* 403 on the web (a banned or demoted administrator): toLogin.
Forbidden(a) ==
  /\ Web /\ ask[a].pc = "sent"
  /\ Forget /\ Finish(a)
  /\ UNCHANGED token

\* Mutant: the refresh is sent whether or not a token is stored.
StartWithout(a) ==
  /\ ask[a].pc = "sent" /\ ~ask[a].retried /\ ~Busy(a)
  /\ ask' = [ask EXCEPT ![a] = [pc |-> "refresh", tok |-> client.ref, retried |-> TRUE]]
  /\ UNCHANGED <<client, token>>

\* 401, and this request refreshes.
StartRefresh(a) ==
  /\ ask[a].pc = "sent" /\ ~ask[a].retried /\ ~Busy(a) /\ client.ref # None
  /\ ask' = [ask EXCEPT ![a] = [pc |-> "refresh", tok |-> client.ref, retried |-> TRUE]]
  /\ UNCHANGED <<client, token>>

\* 401 on the web while the page refreshes: the request awaits that refresh.
JoinRefresh(a) ==
  /\ Web /\ ask[a].pc = "sent" /\ ~ask[a].retried /\ Busy(a)
  /\ ask' = [ask EXCEPT ![a].pc = "wait", ![a].retried = TRUE]
  /\ UNCHANGED <<client, token>>

\* 401 and no refresh: the app passes the error on, the web signs out.
GiveUpApp(a) ==
  /\ ~Web /\ ask[a].pc = "sent" /\ (Busy(a) \/ client.ref = None)
  /\ Finish(a)
  /\ UNCHANGED <<client, token>>

GiveUpWeb(a) ==
  /\ Web /\ ask[a].pc = "sent" /\ (ask[a].retried \/ client.ref = None)
  /\ Forget /\ Finish(a)
  /\ UNCHANGED token

-----------------------------------------------------------------------------
\* POST /auth/refresh, at the server.
RefreshHandled(a, n) ==
  /\ ask[a].pc = "refresh"
  /\ RefreshRotated(ask[a].tok, n)
  /\ ask' = [ask EXCEPT ![a].pc = "answered", ![a].tok = n]
  /\ UNCHANGED client

RefreshDenied(a) ==
  /\ ask[a].pc = "refresh"
  /\ RefreshReused(ask[a].tok) \/ RefreshExpired(ask[a].tok)
  /\ ask' = [ask EXCEPT ![a].pc = "answered", ![a].tok = None]
  /\ UNCHANGED client

\* The request or its answer is lost, or the call times out.
RefreshLost(a) ==
  /\ Leads(a) /\ ask[a].tok # None
  /\ ask' = [ask EXCEPT ![a].pc = "answered", ![a].tok = None]
  /\ UNCHANGED <<client, token>>

\* The leader and, on the web, all that await its refresh.
Wave(a) == {a} \cup {b \in Ask : SamePage(a, b) /\ ask[b].pc = "wait"}

\* performRefresh, setTokens: the new pair is stored and the wave replays.
\* (The app writes two keys; killed between them it still has the old one.)
StoreNew(a) ==
  /\ ask[a].pc = "answered" /\ ask[a].tok # None
  /\ client' = [client EXCEPT !.ref = ask[a].tok]
  /\ ask' = [b \in Ask |-> IF b \in Wave(a)
                           THEN [pc |-> "replay", tok |-> None, retried |-> TRUE] ELSE ask[b]]
  /\ UNCHANGED token

\* Mutant: after a failed refresh the old token is kept for the next try.
KeepToken == UNCHANGED client

\* A failed refresh: clearAuth, or toLogin for all that await it.
ForgetFailed == Forget

RefreshFailed(a) ==
  /\ ask[a].pc = "answered" /\ ask[a].tok = None
  /\ ForgetFailed
  /\ ask' = [b \in Ask |-> IF b \in Wave(a) THEN NoAsk ELSE ask[b]]
  /\ UNCHANGED token

\* The web replays through its interceptors.
Resend(a) ==
  /\ Web /\ ask[a].pc = "replay"
  /\ ask' = [ask EXCEPT ![a].pc = "sent"]
  /\ UNCHANGED <<client, token>>

\* The app's replay succeeds, or fails in whatever way: then clearAuth.
ReplayApp(a) ==
  /\ ~Web /\ ask[a].pc = "replay"
  /\ UNCHANGED client \/ Forget
  /\ Finish(a)
  /\ UNCHANGED token

-----------------------------------------------------------------------------
\* The dashboard's sign-out button forgets the tokens, whatever is under way.
SignOut ==
  /\ Web /\ client.ref # None
  /\ Forget
  /\ UNCHANGED <<ask, token>>

\* The page of a request that refreshes dies: the app is killed, the tab closed.
Die(a) ==
  /\ Leads(a)
  /\ client' = [client EXCEPT !.cut = TRUE]
  /\ ask' = [b \in Ask |-> IF SamePage(a, b) THEN NoAsk ELSE ask[b]]
  /\ UNCHANGED token

\* The client gets the answer of a sign-in, the first token n of a family.
Receive(n) ==
  /\ client.ref = None
  /\ client' = [client EXCEPT !.ref = n, !.families = @ \cup {n}]

ClientNext ==
  \/ \E a \in Ask :
       \/ Send(a) \/ Served(a) \/ Forbidden(a)
       \/ StartRefresh(a) \/ JoinRefresh(a) \/ GiveUpApp(a) \/ GiveUpWeb(a)
       \/ RefreshDenied(a) \/ RefreshLost(a) \/ StoreNew(a) \/ RefreshFailed(a)
       \/ Resend(a) \/ ReplayApp(a) \/ Die(a)
  \/ \E a \in Ask, n \in Token : RefreshHandled(a, n)
  \/ SignOut

-----------------------------------------------------------------------------
\* One process with one mutex owns the token, and it never died at a refresh.
SoleOwner == client.kind # "tabs" /\ ~client.cut

(* A client that is not refreshing and holds a refresh token holds the     *)
(* live one of its family: concurrent 401s, stragglers, lost answers and a *)
(* sign-out under way never leave it with a token the server has retired.  *)
RestingTokenLive ==
  SoleOwner /\ (\A a \in Ask : ~Leads(a)) /\ client.ref # None => IsLive(client.ref)

(* Such a client never trips reuse detection: it does not present a token  *)
(* twice, although every one of its requests may meet a 401 and every      *)
(* answer may be lost.  (Two tabs, or an app killed between the server's   *)
(* rotation and its own second write, do.)                                 *)
NoFalseAlarm ==
  [][SoleOwner =>
       \A t \in Token : Issued(t) /\ token[t].family \in client.families
                       /\ token'[t].st = "reuse_detected"
                       => token[t].st = "reuse_detected"]_token
=============================================================================
