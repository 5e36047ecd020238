----------------------------- MODULE PanelAuth -----------------------------
(***************************************************************************)
(* The admin token of RebeccaPanelClient: cached, renewed by one login     *)
(* that every call without a token waits for, and dropped by a 401, after  *)
(* which the call is repeated once.  Two errors are not retryable, so that *)
(* the drainer gives its row up for good: a second 401 (denied), and a     *)
(* login the panel answers with a status below 500 that is none of success *)
(* (barred), be it a 401, a 403 or a 429.                                  *)
(*                                                                         *)
(* A token is named after the panel's signing secret it was granted under; *)
(* the panel serves the tokens of its present secret.                      *)
(***************************************************************************)
EXTENDS Naturals

CONSTANTS
  Req,      \* calls of the panel client
  None,
  MaxVoid,   \* bound: how often the panel voids the tokens it has granted
  MaxRefuse  \* bound: how often it refuses a login

ASSUME AuthAssumption == None \notin Nat /\ {MaxVoid, MaxRefuse} \subseteq Nat

VARIABLES
  secret,   \* the panel's present secret
  token,    \* this.token
  fresh,    \* tokenExpiresAt is more than a minute away
  login,    \* this.inflightAuth
  call,
  refusals, \* history: logins the panel has refused
  told      \* history: of them, those whose login is over

cacheVars == <<token, fresh>>
authVars == <<secret, cacheVars, login, call, refusals, told>>

Pending == {"waiting", "calling", "rejected"}
Ended == {"served", "failed", "denied", "barred"}

MaybeToken == Nat \cup {None}
Login == [at : {"none", "asked", "granted", "refused"}, tok : MaybeToken]
CallRow == [pc : {"idle"} \cup Pending \cup Ended,
            tok : MaybeToken,
            again : BOOLEAN,   \* ~retryOn401
            since : Nat,       \* history: the panel's secret when the call began
            seen : Nat]        \* history: what had been told by then

AuthType ==
  /\ secret \in Nat
  /\ token \in MaybeToken
  /\ fresh \in BOOLEAN
  /\ login \in Login
  /\ call \in [Req -> CallRow]
  /\ \A r \in Req : call[r].pc \in {"calling", "rejected"} => call[r].tok # None
  /\ refusals \in Nat /\ told \in Nat

NoLogin == [at |-> "none", tok |-> None]
Result(pc) == [pc |-> pc, tok |-> None, again |-> FALSE, since |-> 0, seen |-> 0]
NoCall == Result("idle")

AuthInit ==
  /\ secret = 0
  /\ token = None /\ fresh = FALSE /\ login = NoLogin
  /\ call = [r \in Req |-> NoCall]
  /\ refusals = 0 /\ told = 0

Cached == token # None /\ fresh

\* A login is started, or the one under way is joined.
JoinLogin ==
  login' = IF login.at = "none" THEN [at |-> "asked", tok |-> None] ELSE login

Begin(r) ==
  LET c == [pc |-> IF Cached THEN "calling" ELSE "waiting",
            tok |-> IF Cached THEN token ELSE None,
            again |-> FALSE, since |-> secret, seen |-> told]
  IN /\ call[r].pc = "idle"
     /\ call' = [call EXCEPT ![r] = c]
     /\ IF Cached THEN UNCHANGED login ELSE JoinLogin
     /\ UNCHANGED <<secret, cacheVars, refusals, told>>

PanelGrants ==
  /\ login.at = "asked"
  /\ login' = [at |-> "granted", tok |-> secret]
  /\ UNCHANGED <<secret, cacheVars, call, refusals, told>>

PanelRefuses ==
  /\ login.at = "asked" /\ refusals < MaxRefuse
  /\ login' = [at |-> "refused", tok |-> None]
  /\ refusals' = refusals + 1
  /\ UNCHANGED <<secret, cacheVars, call, told>>

\* Mutant: inflightAuth is cleared only when it has brought a token.
ClearedIfGranted == IF login.at = "granted" THEN NoLogin ELSE login

\* The finally of getToken: however the login ended, the next one is new.
Cleared == NoLogin

LoginEnds == login' = Cleared /\ told' = refusals

\* Mutant: the login returns this.token before it has assigned it.
HandedEarly == token

\* The answer installs the token, and all who waited go on with it.
Handed == login.tok

LoginSettles ==
  /\ login.at = "granted"
  /\ LoginEnds
  /\ token' = login.tok /\ fresh' = TRUE
  /\ call' = [r \in Req |->
       IF call[r].pc = "waiting"
       THEN [call[r] EXCEPT !.pc = "calling", !.tok = Handed]
       ELSE call[r]]
  /\ UNCHANGED <<secret, refusals>>

\* All who waited fail with the one error, which no retry cures.
LoginRefused ==
  /\ login.at = "refused"
  /\ LoginEnds
  /\ call' = [r \in Req |->
       IF call[r].pc = "waiting"
       THEN [Result("barred") EXCEPT !.seen = call[r].seen]
       ELSE call[r]]
  /\ UNCHANGED <<secret, cacheVars, refusals>>

\* Mutant: only an answer ends a login; there is no timeout.
EndedByAnswer == login.at = "granted"

\* A status of 500 or more, or the timeout, even of a login that was answered.
Endable == login.at # "none"

\* All who waited fail with an error that is retryable.
LoginFails ==
  /\ Endable
  /\ LoginEnds
  /\ call' = [r \in Req |->
       IF call[r].pc = "waiting" THEN Result("failed") ELSE call[r]]
  /\ UNCHANGED <<secret, cacheVars, refusals>>

Turns(r, c) ==
  /\ call' = [call EXCEPT ![r] = c]
  /\ UNCHANGED <<secret, cacheVars, login, refusals, told>>

Presents(r) == call[r].pc = "calling"
PanelServes(r) == Presents(r) /\ call[r].tok = secret /\ Turns(r, Result("served"))
PanelRejects(r) ==
  Presents(r) /\ call[r].tok # secret /\ Turns(r, [call[r] EXCEPT !.pc = "rejected"])
CallFails(r) == Presents(r) /\ Turns(r, Result("failed"))

\* Mutant: the call is repeated with whatever token is cached.
RepeatWithCached(r) ==
  /\ call[r].pc = "rejected" /\ ~call[r].again
  /\ call' = [call EXCEPT ![r].pc = IF Cached THEN "calling" ELSE "waiting",
                          ![r].again = TRUE,
                          ![r].tok = IF Cached THEN token ELSE None]
  /\ IF Cached THEN UNCHANGED login ELSE JoinLogin
  /\ UNCHANGED <<secret, cacheVars, refusals, told>>

\* The first 401 drops whatever token is cached by then, and logs in again.
Reauthorise(r) ==
  /\ call[r].pc = "rejected" /\ ~call[r].again
  /\ token' = None /\ fresh' = FALSE
  /\ call' = [call EXCEPT ![r].pc = "waiting", ![r].again = TRUE, ![r].tok = None]
  /\ JoinLogin
  /\ UNCHANGED <<secret, refusals, told>>

Denied(r) ==
  /\ call[r].pc = "rejected" /\ call[r].again
  /\ Turns(r, [Result("denied") EXCEPT !.since = call[r].since])

Return(r) == call[r].pc \in Ended /\ Turns(r, NoCall)

\* The cached token comes within a minute of its hour.
TokenLapses ==
  /\ fresh
  /\ fresh' = FALSE
  /\ UNCHANGED <<secret, token, login, call, refusals, told>>

\* The panel changes its secret: no token granted so far is good any more.
PanelVoids ==
  /\ secret < MaxVoid
  /\ secret' = secret + 1
  /\ UNCHANGED <<cacheVars, login, call, refusals, told>>

\* The process restarts: what was cached or under way is lost.
AuthRestart ==
  /\ token' = None /\ fresh' = FALSE /\ login' = NoLogin /\ told' = refusals
  /\ call' = [r \in Req |-> IF call[r].pc \in Pending THEN NoCall ELSE call[r]]
  /\ UNCHANGED <<secret, refusals>>

\* What goes on once a call has begun.
CallNext(r) ==
  \/ PanelServes(r) \/ PanelRejects(r) \/ CallFails(r)
  \/ Reauthorise(r) \/ Denied(r) \/ Return(r)

AuthNext ==
  \/ \E r \in Req : Begin(r) \/ CallNext(r)
  \/ PanelGrants \/ PanelRefuses \/ PanelVoids
  \/ LoginSettles \/ LoginRefused \/ LoginFails \/ TokenLapses

-----------------------------------------------------------------------------
(* A second 401 gives a call up only if the panel voided its tokens while  *)
(* that very call was under way: a token that went stale before it, a 401  *)
(* that arrives late, and a login shared with other calls are cured by the *)
(* one repetition, if the panel lets it log in.                            *)
DeniedOnlyIfVoided == \A r \in Req : call[r].pc = "denied" => call[r].since < secret

(* A call that the panel will not let log in is given up as well, with all *)
(* that wait for the same login; but each call is given up only over a     *)
(* refusal that came after it began, or whose answer was then still on its *)
(* way.  One refusal is never held against the calls that come after it.   *)
BarredOnlyIfRefused == \A r \in Req : call[r].pc = "barred" => call[r].seen < refusals
=============================================================================
