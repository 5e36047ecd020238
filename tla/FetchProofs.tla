---------------------------- MODULE FetchProofs ----------------------------
(***************************************************************************)
(* For any number of calls, callbacks and keys: a call is denied only if   *)
(* the panel voided its tokens meanwhile, and barred only over a refusal   *)
(* that nobody had been told of when it began; a withdrawn key accepts     *)
(* nothing once the cache has run out, and a key is unknown only if it is  *)
(* not listed or newer than the fetch.                                     *)
(***************************************************************************)
EXTENDS Fetches, TLAPS

(* There is never a login beside a token that would be used.               *)
LoginWithoutCache == login.at # "none" => ~Cached

(* What holds of a call during which the panel has not voided its tokens:  *)
(* a login granted by now is good for it, and so is the token it repeats   *)
(* itself with.                                                            *)
Undisturbed(r) ==
  call[r].since = secret =>
    /\ call[r].pc \in {"calling", "rejected"} /\ login.at = "granted" => login.tok = secret
    /\ call[r].pc = "waiting" /\ call[r].again /\ login.at = "granted" => login.tok = secret
    /\ call[r].pc = "calling" /\ call[r].again => call[r].tok = secret
    /\ call[r].pc = "rejected" => ~call[r].again
    /\ call[r].pc # "denied"

AuthInv ==
  /\ AuthType
  /\ login.at = "granted" => login.tok # None
  /\ LoginWithoutCache
  /\ \A r \in Req : call[r].since <= secret
  /\ \A r \in Req : Undisturbed(r)

(* A call has seen no more refusals than have been told, and a refusal on  *)
(* its way has been told to nobody.                                        *)
RefusalInv ==
  /\ told <= refusals
  /\ login.at = "refused" => told < refusals
  /\ \A r \in Req : call[r].seen <= told
  /\ BarredOnlyIfRefused

(* What an answer lacks is withdrawn or newer than the question; what is   *)
(* dead is neither listed, nor on its way, nor in a cache that is used.    *)
IntakeInv ==
  /\ IntakeType
  /\ fetch.at = "answered" => published \ newer \subseteq fetch.keys
  /\ dead \cap (published \cup fetch.keys) = {}
  /\ current => dead \cap keys = {}
  /\ \A c \in Callback : cb[c].pc = "keying" => cb[c].key \in Key

-----------------------------------------------------------------------------
(* The admin token.                                                        *)

LEMMA ResultTyped ==
  ASSUME NEW pc \in {"idle", "served", "failed"}
  PROVE  /\ Result(pc) \in CallRow
         /\ Result(pc).pc = pc /\ Result(pc).since = 0 /\ Result(pc).seen = 0
BY DEF Result, CallRow, MaybeToken, Pending, Ended

LEMMA AuthStart ==
  ASSUME AuthInit
  PROVE  AuthInv /\ RefusalInv
<1>1. \A r \in Req : /\ call[r] \in CallRow
                     /\ call[r].pc = "idle" /\ call[r].since = 0 /\ call[r].seen = 0
  BY ResultTyped DEF AuthInit, NoCall
<1>2. call \in [Req -> CallRow]
  BY <1>1 DEF AuthInit
<1>3. AuthType
  BY <1>1, <1>2 DEF AuthInit, AuthType, MaybeToken, Login, NoLogin
<1>4. RefusalInv
  BY <1>1 DEF AuthInit, RefusalInv, BarredOnlyIfRefused, NoLogin
<1> QED
  BY <1>1, <1>3, <1>4 DEF AuthInit, AuthInv, NoLogin, Cached, LoginWithoutCache, Undisturbed

(* A call that is none of those under way says nothing of the login.       *)
LEMMA TurnKeeps ==
  ASSUME AuthInv, NEW r \in Req, NEW c \in CallRow, Turns(r, c),
         c.pc \in {"calling", "rejected"} => c.tok # None,
         c.since <= secret,
         c.since = secret =>
           /\ c.pc \in {"calling", "rejected"} /\ login.at = "granted" => login.tok = secret
           /\ c.pc = "waiting" /\ c.again /\ login.at = "granted" => login.tok = secret
           /\ c.pc = "calling" /\ c.again => c.tok = secret
           /\ c.pc = "rejected" => ~c.again
           /\ c.pc # "denied"
  PROVE  AuthInv'
<1>1. /\ call' \in [Req -> CallRow]
      /\ call'[r] = c
      /\ \A x \in Req : x # r => call'[x] = call[x]
  BY DEF AuthInv, AuthType, Turns
<1>2. AuthType'
  BY <1>1 DEF AuthInv, AuthType, Turns, cacheVars
<1>3. \A x \in Req : (call[x].since <= secret)' /\ Undisturbed(x)'
  BY <1>1 DEF AuthInv, Turns, Undisturbed
<1> QED
  BY <1>2, <1>3 DEF AuthInv, Turns, cacheVars, LoginWithoutCache, Cached

LEMMA CallNextKeeps ==
  ASSUME AuthInv, NEW r \in Req, CallNext(r)
  PROVE  AuthInv'
<1> USE DEF AuthInv
<1>0. call[r] \in CallRow /\ secret \in Nat
  BY DEF AuthType
<1>1. CASE PanelServes(r) \/ CallFails(r) \/ Return(r)
  <2>1. PICK pc \in {"idle", "served", "failed"} : Turns(r, Result(pc))
    BY <1>1 DEF PanelServes, CallFails, Return, NoCall
  <2> QED
    BY <1>0, <2>1, ResultTyped, TurnKeeps
<1>2. CASE PanelRejects(r)
  <2> DEFINE c == [call[r] EXCEPT !.pc = "rejected"]
  <2>1. c \in CallRow /\ c.pc = "rejected" /\ c.tok = call[r].tok
          /\ c.since = call[r].since /\ c.again = call[r].again
    BY <1>0 DEF CallRow, Pending
  <2>2. Turns(r, c) /\ call[r].pc = "calling" /\ call[r].tok # secret
    BY <1>2 DEF PanelRejects, Presents
  <2>3. Undisturbed(r) /\ call[r].tok # None
    BY <2>2 DEF AuthType
  <2> HIDE DEF c
  <2> QED
    BY <2>1, <2>2, <2>3, TurnKeeps DEF Undisturbed
<1>3. CASE Reauthorise(r)
  <2> DEFINE c == [call[r] EXCEPT !.pc = "waiting", !.again = TRUE, !.tok = None]
  <2>1. c \in CallRow /\ c.pc = "waiting" /\ c.tok = None
          /\ c.since = call[r].since /\ c.again = TRUE
    BY <1>0 DEF CallRow, Pending, MaybeToken
  <2>2. call' = [call EXCEPT ![r] = c]
    BY <1>3, <1>0 DEF Reauthorise, AuthType
  <2>3. call[r].pc = "rejected" /\ token' = None /\ fresh' = FALSE /\ secret' = secret /\ JoinLogin
    BY <1>3 DEF Reauthorise
  <2> HIDE DEF c
  <2>4. /\ call' \in [Req -> CallRow]
        /\ call'[r] = c
        /\ \A x \in Req : x # r => call'[x] = call[x]
    BY <2>1, <2>2 DEF AuthType
  <2>5. /\ login' \in Login
        /\ login'.at = "granted" => login.at = "granted" /\ login' = login
    BY <2>3 DEF JoinLogin, AuthType, Login, MaybeToken
  <2>6. AuthType'
    BY <1>3, <2>1, <2>3, <2>4, <2>5 DEF Reauthorise, AuthType, MaybeToken
  <2>7. Undisturbed(r)'
    BY <2>1, <2>3, <2>4, <2>5 DEF Undisturbed
  <2>8. \A x \in Req : Undisturbed(x)'
    BY <2>3, <2>4, <2>5, <2>7 DEF Undisturbed
  <2>9. \A x \in Req : (call[x].since <= secret)'
    BY <2>1, <2>3, <2>4
  <2> QED
    BY <2>3, <2>5, <2>6, <2>8, <2>9 DEF LoginWithoutCache, Cached
<1>4. CASE Denied(r)
  <2> DEFINE c == [Result("denied") EXCEPT !.since = call[r].since]
  <2>1. c \in CallRow /\ c.pc = "denied" /\ c.since = call[r].since
    BY <1>0 DEF CallRow, Ended, Result, MaybeToken
  <2>2. Turns(r, c) /\ call[r].pc = "rejected" /\ call[r].again
    BY <1>4 DEF Denied
  <2>3. call[r].since # secret
    BY <2>2 DEF Undisturbed
  <2> HIDE DEF c
  <2> QED
    BY <2>1, <2>2, <2>3, TurnKeeps
<1> QED
  BY <1>1, <1>2, <1>3, <1>4 DEF CallNext

LEMMA BeginKeeps ==
  ASSUME AuthInv, NEW r \in Req, Begin(r)
  PROVE  AuthInv'
<1> USE DEF AuthInv
<1> DEFINE c == [pc |-> IF Cached THEN "calling" ELSE "waiting",
                 tok |-> IF Cached THEN token ELSE None,
                 again |-> FALSE, since |-> secret, seen |-> told]
<1>1. /\ c \in CallRow /\ c.since = secret /\ ~c.again
      /\ c.pc = IF Cached THEN "calling" ELSE "waiting"
      /\ Cached => c.tok # None
  BY DEF AuthType, CallRow, MaybeToken, Pending, Cached
<1>2. call' = [call EXCEPT ![r] = c] /\ UNCHANGED <<secret, token, fresh, refusals, told>>
  BY DEF Begin, cacheVars
<1>3. IF Cached THEN UNCHANGED login ELSE JoinLogin
  BY DEF Begin
<1> HIDE DEF c
<1>4. /\ call' \in [Req -> CallRow]
      /\ call'[r] = c
      /\ \A x \in Req : x # r => call'[x] = call[x]
  BY <1>1, <1>2 DEF AuthType
<1>5. /\ login' \in Login
      /\ login'.at = "granted" => login' = login
      /\ Cached => login'.at = "none"
  BY <1>3 DEF JoinLogin, AuthType, Login, MaybeToken, LoginWithoutCache
<1>6. AuthType'
  BY <1>1, <1>2, <1>4, <1>5 DEF AuthType
<1>7. \A x \in Req : (call[x].since <= secret)' /\ Undisturbed(x)'
  <2>1. (call[r].since <= secret)' /\ Undisturbed(r)'
    BY <1>1, <1>2, <1>4, <1>5 DEF Undisturbed, AuthType
  <2>2. ASSUME NEW x \in Req, x # r
        PROVE  (call[x].since <= secret)' /\ Undisturbed(x)'
    BY <1>2, <1>4, <1>5, <2>2 DEF Undisturbed
  <2> QED
    BY <2>1, <2>2
<1> QED
  BY <1>2, <1>5, <1>6, <1>7 DEF LoginWithoutCache, Cached

(* The steps of the login, of the cache and of the panel.                  *)
LEMMA LoginKeeps ==
  ASSUME AuthInv, PanelGrants \/ PanelRefuses \/ TokenLapses \/ PanelVoids
  PROVE  AuthInv'
<1> USE DEF AuthInv
<1>1. CASE PanelGrants
  <2>1. AuthType' /\ login'.tok = secret /\ login'.at = "granted" /\ secret # None
    BY <1>1, AuthAssumption DEF PanelGrants, cacheVars, AuthType, Login, MaybeToken
  <2>2. \A r \in Req : (call[r].since <= secret)' /\ Undisturbed(r)'
    BY <1>1, <2>1 DEF PanelGrants, Undisturbed
  <2> QED
    BY <1>1, <2>1, <2>2 DEF PanelGrants, cacheVars, LoginWithoutCache, Cached
<1>2. CASE TokenLapses
  BY <1>2 DEF TokenLapses, AuthType, LoginWithoutCache, Cached, Undisturbed
<1>4. CASE PanelRefuses
  <2>1. AuthType' /\ login'.at = "refused" /\ login.at = "asked"
    BY <1>4 DEF PanelRefuses, cacheVars, AuthType, Login, MaybeToken
  <2>2. \A r \in Req : (call[r].since <= secret)' /\ Undisturbed(r)'
    BY <1>4, <2>1 DEF PanelRefuses, Undisturbed
  <2> QED
    BY <1>4, <2>1, <2>2 DEF PanelRefuses, cacheVars, LoginWithoutCache, Cached
<1>3. CASE PanelVoids
  <2>1. /\ secret \in Nat /\ secret' = secret + 1
        /\ UNCHANGED <<token, fresh, login, call, refusals, told>>
    BY <1>3 DEF PanelVoids, cacheVars, AuthType
  <2>2. \A r \in Req : call[r].since \in Nat /\ call[r].since <= secret
    BY DEF AuthType, CallRow
  <2>3. \A r \in Req : call[r].since <= secret' /\ call[r].since # secret'
    BY <2>1, <2>2
  <2> QED
    BY <2>1, <2>3 DEF AuthType, LoginWithoutCache, Cached, Undisturbed
<1> QED
  BY <1>1, <1>2, <1>3, <1>4

(* What makes every waiting call move on at once.                          *)
LEMMA ReleaseKeeps ==
  ASSUME AuthInv, LoginSettles \/ LoginRefused \/ LoginFails \/ AuthRestart
  PROVE  AuthInv'
<1> USE DEF AuthInv
<1>0. secret \in Nat /\ \A r \in Req : call[r] \in CallRow
  BY DEF AuthType
<1>1. login' = NoLogin /\ secret' = secret /\ refusals' = refusals /\ told' = refusals
  BY DEF LoginSettles, LoginRefused, LoginFails, LoginEnds, Cleared, AuthRestart
<1>2. /\ token' \in MaybeToken /\ fresh' \in BOOLEAN
      /\ login' \in Login /\ login'.at = "none"
  BY <1>1 DEF LoginSettles, LoginRefused, LoginFails, cacheVars, AuthRestart, AuthType,
              MaybeToken, Login, NoLogin
<1>3. ASSUME NEW r \in Req
      PROVE  /\ call'[r] \in CallRow
             /\ call'[r].pc \in {"calling", "rejected"} => call'[r].tok # None
             /\ call'[r].since <= secret
             /\ Undisturbed(r)'
  <2>1. CASE LoginSettles /\ call[r].pc = "waiting"
    <3> DEFINE c == [call[r] EXCEPT !.pc = "calling", !.tok = login.tok]
    <3>1. c \in CallRow /\ c.pc = "calling" /\ c.tok = login.tok
            /\ c.since = call[r].since /\ c.again = call[r].again
      BY <1>0 DEF AuthType, Login, CallRow, Pending
    <3>2. call'[r] = c /\ login.at = "granted"
      BY <2>1 DEF LoginSettles, Handed
    <3> HIDE DEF c
    <3> QED
      BY <1>1, <1>2, <2>1, <3>1, <3>2 DEF Undisturbed
  <2>2. CASE call'[r] = call[r]
    BY <1>0, <1>1, <1>2, <2>2 DEF AuthType, Undisturbed
  <2>3. CASE call'[r] = Result("failed") \/ call'[r] = NoCall
    BY <1>0, <1>1, <1>2, <2>3, ResultTyped DEF NoCall, Undisturbed
  <2>4. CASE LoginRefused /\ call[r].pc = "waiting"
    <3> DEFINE c == [Result("barred") EXCEPT !.seen = call[r].seen]
    <3>1. c \in CallRow /\ c.pc = "barred" /\ c.since = 0
      BY <1>0 DEF CallRow, Ended, Result, MaybeToken
    <3>2. call'[r] = c
      BY <2>4 DEF LoginRefused
    <3> HIDE DEF c
    <3> QED
      BY <1>0, <1>1, <1>2, <3>1, <3>2 DEF Undisturbed
  <2> QED
    BY <2>1, <2>2, <2>3, <2>4 DEF LoginSettles, LoginRefused, LoginFails, AuthRestart
<1>4. call' \in [Req -> CallRow]
  BY <1>3 DEF LoginSettles, LoginRefused, LoginFails, AuthRestart
<1>5. AuthType'
  BY <1>0, <1>1, <1>2, <1>3, <1>4 DEF AuthType
<1> QED
  BY <1>1, <1>2, <1>3, <1>5 DEF LoginWithoutCache

LEMMA AuthKeeps ==
  ASSUME AuthInv, AuthNext \/ AuthRestart \/ UNCHANGED authVars
  PROVE  AuthInv'
<1>1. CASE AuthNext
  BY <1>1, BeginKeeps, CallNextKeeps, LoginKeeps, ReleaseKeeps DEF AuthNext
<1>2. CASE AuthRestart
  BY <1>2, ReleaseKeeps
<1>3. CASE UNCHANGED authVars
  BY <1>3 DEF authVars, cacheVars, AuthInv, AuthType, LoginWithoutCache, Cached, Undisturbed
<1> QED
  BY <1>1, <1>2, <1>3

(* A call remembers no more refusals than had been told when it began, and *)
(* is barred only by one on its way.                                       *)
LEMMA RefusalKeeps ==
  ASSUME AuthInv, RefusalInv, AuthNext \/ AuthRestart \/ UNCHANGED authVars
  PROVE  RefusalInv'
<1> USE DEF RefusalInv
<1>0. /\ told \in Nat /\ refusals \in Nat
      /\ call \in [Req -> CallRow]
      /\ \A r \in Req : call[r].seen \in Nat
  BY DEF AuthInv, AuthType, CallRow
<1>1. ASSUME NEW r \in Req, Begin(r) \/ CallNext(r)
      PROVE  RefusalInv'
  <2>1. /\ told' = told /\ refusals' = refusals
        /\ login'.at = "refused" => login.at = "refused"
    BY <1>1 DEF Begin, CallNext, PanelServes, PanelRejects, CallFails, Reauthorise, Denied,
                Return, Turns, JoinLogin
  <2>2. /\ call'[r].seen \in {0, told, call[r].seen} /\ call'[r].pc # "barred"
        /\ \A x \in Req : x # r => call'[x] = call[x]
    <3>1. CASE Begin(r)
      BY <1>0, <3>1 DEF Begin
    <3>2. CASE PanelServes(r) \/ CallFails(r) \/ Return(r)
      BY <1>0, <3>2, ResultTyped DEF PanelServes, CallFails, Return, NoCall, Turns
    <3>3. CASE PanelRejects(r)
      BY <1>0, <3>3 DEF PanelRejects, Turns, CallRow
    <3>4. CASE Reauthorise(r)
      <4> DEFINE d == [call[r] EXCEPT !.pc = "waiting", !.again = TRUE, !.tok = None]
      <4>1. call' = [call EXCEPT ![r] = d]
        BY <1>0, <3>4 DEF Reauthorise
      <4>2. d.seen = call[r].seen /\ d.pc = "waiting"
        BY <1>0 DEF CallRow
      <4> HIDE DEF d
      <4> QED
        BY <1>0, <4>1, <4>2
    <3>5. CASE Denied(r)
      BY <1>0, <3>5 DEF Denied, Turns, Result
    <3> QED
      BY <1>1, <3>1, <3>2, <3>3, <3>4, <3>5 DEF CallNext
  <2> QED
    BY <1>0, <2>1, <2>2 DEF BarredOnlyIfRefused
<1>2. CASE PanelGrants \/ PanelRefuses \/ PanelVoids \/ TokenLapses
  BY <1>0, <1>2 DEF PanelGrants, PanelRefuses, PanelVoids, TokenLapses, BarredOnlyIfRefused
<1>3. CASE LoginSettles \/ LoginRefused \/ LoginFails \/ AuthRestart
  <2>1. login' = NoLogin /\ refusals' = refusals /\ told' = refusals
    BY <1>3 DEF LoginSettles, LoginRefused, LoginFails, LoginEnds, Cleared, AuthRestart
  <2>2. ASSUME NEW r \in Req
        PROVE  /\ call'[r].seen \in {0, call[r].seen}
               /\ call'[r].pc = "barred" =>
                    \/ call'[r] = call[r]
                    \/ login.at = "refused" /\ call'[r].seen = call[r].seen
    <3>1. CASE call'[r] = call[r]
      BY <3>1
    <3>2. CASE call'[r] = Result("failed") \/ call'[r] = NoCall
      BY <3>2, ResultTyped DEF NoCall
    <3>3. CASE call'[r] = [call[r] EXCEPT !.pc = "calling", !.tok = Handed]
      BY <1>0, <3>3 DEF CallRow
    <3>4. CASE login.at = "refused" /\ call'[r] = [Result("barred") EXCEPT !.seen = call[r].seen]
      BY <3>4 DEF Result
    <3> QED
      BY <1>3, <3>1, <3>2, <3>3, <3>4 DEF LoginSettles, LoginRefused, LoginFails, AuthRestart
  <2> QED
    BY <1>0, <2>1, <2>2 DEF NoLogin, BarredOnlyIfRefused
<1>4. CASE UNCHANGED authVars
  BY <1>4 DEF authVars, BarredOnlyIfRefused
<1> QED
  BY <1>1, <1>2, <1>3, <1>4 DEF AuthNext

-----------------------------------------------------------------------------
(* AdMob's keys.                                                           *)

LEMMA JudgedTyped ==
  ASSUME NEW k \in Key, NEW ks, NEW good \in BOOLEAN
  PROVE  /\ Judged(k, ks, good) \in CallbackRow
         /\ Judged(k, ks, good).pc = "verified" => k \in ks /\ Judged(k, ks, good).key = k
         /\ Judged(k, ks, good).pc = "unknown" => k \notin ks /\ Judged(k, ks, good).key = k
         /\ Judged(k, ks, good).pc # "keying"
<1> DEFINE j == Judged(k, ks, good)
<1>1. CASE k \notin ks
  <2>1. j = [pc |-> "unknown", key |-> k]
    BY <1>1 DEF Judged
  <2> QED
    BY <1>1, <2>1 DEF CallbackRow
<1>2. CASE k \in ks /\ good
  <2>1. j = [pc |-> "verified", key |-> k]
    BY <1>2 DEF Judged
  <2>2. k \in ks
    BY <1>2
  <2> HIDE DEF j
  <2>3. j \in CallbackRow /\ j.pc = "verified" /\ j.key = k
    BY <2>1 DEF CallbackRow
  <2> QED
    BY <2>2, <2>3 DEF j
<1>3. CASE k \in ks /\ ~good
  <2>1. j = Refused("invalid")
    BY <1>3 DEF Judged
  <2> HIDE DEF j
  <2>2. j \in CallbackRow /\ j.pc = "invalid"
    BY <2>1 DEF CallbackRow, Refused
  <2> QED
    BY <2>2 DEF j
<1> QED
  BY <1>1, <1>2, <1>3

LEMMA IntakeStart ==
  ASSUME IntakeInit
  PROVE  IntakeInv
<1>1. NoCallback \in CallbackRow /\ NoCallback.pc = "idle"
  BY DEF NoCallback, CallbackRow
<1>2. NoFetch \in Fetch /\ NoFetch.at = "none" /\ NoFetch.keys = {}
  BY DEF NoFetch, Fetch
<1>3. IntakeType
  BY <1>1, <1>2 DEF IntakeInit, IntakeType
<1> QED
  BY <1>1, <1>2, <1>3 DEF IntakeInit, IntakeInv

(* A callback by itself: it is judged by the cache, refused, answered, or  *)
(* begins to wait.                                                         *)
LEMMA CallbackKeeps ==
  ASSUME IntakeInv, NEW c \in Callback, CallbackNext(c)
  PROVE  IntakeInv' /\ NoneUnderDeadKey /\ UnknownIfUnlisted
<1> USE DEF IntakeInv
<1>1. UNCHANGED <<published, keys, current, dead>>
  BY DEF CallbackNext, Receive, ReceiveUnsigned, Respond
<1>2. /\ fetch' \in Fetch /\ newer' \in SUBSET Key
      /\ fetch'.keys = fetch.keys \/ fetch'.keys = {}
      /\ fetch'.at = "answered" => fetch' = fetch /\ newer' = newer
  <2>1. UNCHANGED <<fetch, newer>> \/ JoinFetch
    BY DEF CallbackNext, Receive, ReceiveUnsigned, Respond
  <2> QED
    BY <2>1 DEF JoinFetch, IntakeType, Fetch
<1>3. PICK row \in CallbackRow :
        /\ cb' = [cb EXCEPT ![c] = row]
        /\ row.pc = "keying" => row.key \in Key
        /\ row.pc = "verified" => row.key \notin dead
        /\ row.pc # "unknown"
  <2>1. ASSUME NEW k \in Key, NEW good \in BOOLEAN, Receive(c, k, good)
        PROVE  \/ Usable(k) /\ cb' = [cb EXCEPT ![c] = Judged(k, keys, good)]
               \/ cb' = [cb EXCEPT ![c] = [pc |-> "keying", key |-> k]]
    BY <2>1 DEF Receive
  <2>2. ASSUME NEW k \in Key, NEW good \in BOOLEAN, Usable(k),
               cb' = [cb EXCEPT ![c] = Judged(k, keys, good)]
        PROVE  \E row \in CallbackRow :
                 /\ cb' = [cb EXCEPT ![c] = row]
                 /\ row.pc = "keying" => row.key \in Key
                 /\ row.pc = "verified" => row.key \notin dead
                 /\ row.pc # "unknown"
    <3>1. k \in keys /\ k \notin dead
      BY <2>2 DEF Usable
    <3>2. Judged(k, keys, good) \in CallbackRow
      BY JudgedTyped
    <3> WITNESS Judged(k, keys, good) \in CallbackRow
    <3> QED
      BY <2>2, <3>1, JudgedTyped
  <2>3. ASSUME NEW k \in Key
        PROVE  [pc |-> "keying", key |-> k] \in CallbackRow
    BY DEF CallbackRow
  <2>4. Refused("invalid") \in CallbackRow /\ Refused("invalid").pc = "invalid"
    BY DEF Refused, CallbackRow
  <2>5. NoCallback \in CallbackRow /\ NoCallback.pc = "idle"
    BY DEF NoCallback, CallbackRow
  <2> QED
    BY <2>1, <2>2, <2>3, <2>4, <2>5 DEF CallbackNext, ReceiveUnsigned, Respond
<1>4. /\ cb' \in [Callback -> CallbackRow]
      /\ cb'[c] = row
      /\ \A x \in Callback : x # c => cb'[x] = cb[x]
  BY <1>3 DEF IntakeType
<1>5. IntakeInv'
  BY <1>1, <1>2, <1>3, <1>4 DEF IntakeType
<1> QED
  BY <1>3, <1>4, <1>5 DEF NoneUnderDeadKey, UnknownIfUnlisted, Becomes

(* The fetch ends, and all who waited are judged or refused with it.       *)
LEMMA SettleKeepsIntake ==
  ASSUME IntakeInv, NEW good, FetchSettles(good)
  PROVE  IntakeInv' /\ NoneUnderDeadKey /\ UnknownIfUnlisted
<1> USE DEF IntakeInv
<1>1. /\ fetch.at = "answered" /\ keys' = fetch.keys /\ current' = TRUE
      /\ fetch' = NoFetch /\ newer' = {} /\ UNCHANGED <<published, dead>>
  BY DEF FetchSettles
<1>2. ASSUME NEW c \in Callback
      PROVE  /\ cb'[c] \in CallbackRow
             /\ cb'[c].pc # "keying"
             /\ Becomes(c, "verified") => cb'[c].key \in fetch.keys
             /\ Becomes(c, "unknown") => cb'[c].key \in Key \ fetch.keys
  <2>1. CASE cb[c].pc = "keying"
    <3>1. cb[c].key \in Key /\ cb'[c] = Judged(cb[c].key, fetch.keys, c \in good)
      BY <2>1 DEF FetchSettles
    <3> DEFINE k == cb[c].key
               yes == c \in good
    <3>2. k \in Key /\ yes \in BOOLEAN /\ cb'[c] = Judged(k, fetch.keys, yes)
      BY <3>1
    <3> HIDE DEF IntakeInv, k, yes
    <3>3. /\ cb'[c] \in CallbackRow
          /\ cb'[c].pc = "verified" => cb'[c].key \in fetch.keys
          /\ cb'[c].pc = "unknown" => cb'[c].key \in Key \ fetch.keys
          /\ cb'[c].pc # "keying"
      BY <3>2, JudgedTyped
    <3> QED
      BY <3>3 DEF Becomes
  <2>2. CASE cb[c].pc # "keying"
    BY <2>2 DEF FetchSettles, IntakeType, Becomes
  <2> QED
    BY <2>1, <2>2
<1>3. IntakeType'
  <2>1. cb' \in [Callback -> CallbackRow]
    BY <1>2 DEF FetchSettles
  <2> QED
    BY <1>1, <2>1 DEF IntakeType, Fetch, NoFetch
<1>4. IntakeInv'
  BY <1>1, <1>2, <1>3 DEF NoFetch
<1> QED
  BY <1>1, <1>2, <1>4 DEF NoneUnderDeadKey, UnknownIfUnlisted

LEMMA FailKeepsIntake ==
  ASSUME IntakeInv, (\E pc \in {"keyless", "again"} : FetchFails(pc)) \/ IntakeRestart
  PROVE  IntakeInv' /\ NoneUnderDeadKey /\ UnknownIfUnlisted
<1> USE DEF IntakeInv
<1>1. /\ fetch' = NoFetch /\ newer' = {} /\ UNCHANGED <<published, dead>>
      /\ (current' = current /\ keys' = keys) \/ (current' = FALSE /\ keys' = {})
  BY DEF FetchFails, IntakeRestart
<1>2. ASSUME NEW c \in Callback
      PROVE  /\ cb'[c] \in CallbackRow
             /\ cb'[c].pc # "keying"
             /\ ~Becomes(c, "verified") /\ ~Becomes(c, "unknown")
  <2>1. CASE \E pc \in {"keyless", "again"} : FetchFails(pc)
    BY <2>1 DEF FetchFails, Refused, CallbackRow, IntakeType, Becomes
  <2>2. CASE IntakeRestart
    BY <2>2 DEF IntakeRestart, NoCallback, CallbackRow, IntakeType, Becomes
  <2> QED
    BY <2>1, <2>2
<1>3. IntakeType'
  <2>1. cb' \in [Callback -> CallbackRow]
    BY <1>2 DEF FetchFails, IntakeRestart
  <2> QED
    BY <1>1, <2>1 DEF IntakeType, Fetch, NoFetch
<1>4. IntakeInv'
  BY <1>1, <1>2, <1>3 DEF NoFetch
<1> QED
  BY <1>2, <1>4 DEF NoneUnderDeadKey, UnknownIfUnlisted

(* Google, the key server and the clock.                                   *)
LEMMA KeysKeepIntake ==
  ASSUME IntakeInv,
         KeysAnswered \/ KeysLapse \/ \E k \in Key : Publish(k) \/ Withdraw(k)
  PROVE  IntakeInv' /\ NoneUnderDeadKey /\ UnknownIfUnlisted
<1> USE DEF IntakeInv
<1>1. UNCHANGED cb
  BY DEF KeysAnswered, KeysLapse, Publish, Withdraw
<1>2. NoneUnderDeadKey /\ UnknownIfUnlisted
  BY <1>1 DEF NoneUnderDeadKey, UnknownIfUnlisted, Becomes
<1>3. ASSUME KeysAnswered
      PROVE  IntakeInv'
  BY <1>3 DEF KeysAnswered, IntakeType, Fetch
<1>4. ASSUME KeysLapse
      PROVE  IntakeInv'
  BY <1>4 DEF KeysLapse, IntakeType, Fetch
<1>5. ASSUME NEW k \in Key, Publish(k)
      PROVE  IntakeInv'
  BY <1>5 DEF Publish, IntakeType, Fetch
<1>6. ASSUME NEW k \in Key, Withdraw(k)
      PROVE  IntakeInv'
  BY <1>6 DEF Withdraw, IntakeType, Fetch
<1> QED
  BY <1>2, <1>3, <1>4, <1>5, <1>6

LEMMA IntakeKeeps ==
  ASSUME IntakeInv, IntakeNext \/ IntakeRestart \/ UNCHANGED intakeVars
  PROVE  IntakeInv' /\ NoneUnderDeadKey /\ UnknownIfUnlisted
<1>1. CASE IntakeNext \/ IntakeRestart
  BY <1>1, CallbackKeeps, SettleKeepsIntake, FailKeepsIntake, KeysKeepIntake DEF IntakeNext
<1>2. CASE UNCHANGED intakeVars
  BY <1>2 DEF intakeVars, IntakeInv, IntakeType, NoneUnderDeadKey, UnknownIfUnlisted, Becomes
<1> QED
  BY <1>1, <1>2

-----------------------------------------------------------------------------
(* The process.                                                            *)

FetchInv == AuthInv /\ RefusalInv /\ IntakeInv

LEMMA FetchesKeep ==
  ASSUME FetchInv, [FetchesNext]_fetchVars
  PROVE  FetchInv' /\ NoneUnderDeadKey /\ UnknownIfUnlisted
BY AuthKeeps, RefusalKeeps, IntakeKeeps
   DEF FetchInv, FetchesNext, CallStep, CallbackStep, Restart, fetchVars

(* The two caches stay as FetchInv describes them, for any                 *)
(* number of calls, callbacks and keys and through any restart.            *)
THEOREM FetchesInvariant == FetchesSpec => []FetchInv
<1>1. FetchesInit => FetchInv
  BY AuthStart, IntakeStart DEF FetchesInit, FetchInv
<1>2. FetchInv /\ [FetchesNext]_fetchVars => FetchInv'
  BY FetchesKeep
<1> QED
  BY <1>1, <1>2, PTL DEF FetchesSpec

(* Type correctness of the two caches and of what waits for them.          *)
THEOREM FetchesTyped == FetchesSpec => []FetchesTypeOK
<1>1. FetchInv => FetchesTypeOK
  BY DEF FetchInv, AuthInv, IntakeInv, FetchesTypeOK
<1> QED
  BY <1>1, FetchesInvariant, PTL

(* RebeccaPanelClient.request gives a call up over its second 401 only if  *)
(* the panel voided its tokens after the call had begun: one repetition,   *)
(* let in by a login, is never rejected for a token that was stale before. *)
THEOREM DenialIsJustified == FetchesSpec => []DeniedOnlyIfVoided
<1>1. ASSUME AuthInv, NEW r \in Req, call[r].pc = "denied"
      PROVE  call[r].since < secret
  <2>1. call[r].since \in Nat /\ secret \in Nat
    BY <1>1 DEF AuthInv, AuthType, CallRow
  <2>2. call[r].since <= secret /\ call[r].since # secret
    BY <1>1 DEF AuthInv, Undisturbed
  <2> QED
    BY <2>1, <2>2
<1>2. FetchInv => DeniedOnlyIfVoided
  BY <1>1 DEF FetchInv, DeniedOnlyIfVoided
<1> QED
  BY <1>2, FetchesInvariant, PTL

(* RebeccaPanelClient.getToken gives up the calls that wait for a login    *)
(* the panel refuses, but no call over a refusal whose answer had been     *)
(* dealt with when the call began: inflightAuth never keeps a failed login.*)
THEOREM BarredIsJustified == FetchesSpec => []BarredOnlyIfRefused
<1>1. FetchInv => BarredOnlyIfRefused
  BY DEF FetchInv, RefusalInv
<1> QED
  BY <1>1, FetchesInvariant, PTL

(* AdMobSsvVerifier accepts nothing under a key that was withdrawn before  *)
(* its cache last ran out.                                                 *)
THEOREM WithdrawnKeyIsDead == FetchesSpec => WithdrawnKeyDies
<1>1. FetchInv /\ [FetchesNext]_fetchVars => [NoneUnderDeadKey]_intakeVars
  BY FetchesKeep
<1> QED
  BY <1>1, FetchesInvariant, PTL DEF FetchesSpec, WithdrawnKeyDies

(* AdMobSsvVerifier refuses a callback over its key only if the key is not *)
(* listed, or newer than the fetch the callback waited for.                *)
THEOREM UnknownIsUnlisted == FetchesSpec => UnknownIsNew
<1>1. FetchInv /\ [FetchesNext]_fetchVars => [UnknownIfUnlisted]_intakeVars
  BY FetchesKeep
<1> QED
  BY <1>1, FetchesInvariant, PTL DEF FetchesSpec, UnknownIsNew
=============================================================================
