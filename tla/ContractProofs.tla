---------------------------- MODULE ContractProofs ----------------------------
(***************************************************************************)
(* The backend keeps the contract of sessions, for any number of users,    *)
(* requests, workers and faults: the limits of users and devices, and what *)
(* free access costs.                                                      *)
(***************************************************************************)
EXTENDS BackendProofs, FiniteSetTheorems

\* Requests past their transaction that have not been answered.
Under == {"displacing", "disabled", "deleted", "created", "failing"}

LimitHolds == \A u \in User : IsFiniteSet(LiveOf(u)) /\ Cardinality(LiveOf(u)) <= PremiumMax

OnePerDevice ==
  \A s, x \in Session : IsLive(s) /\ IsLive(x) /\ DeviceOf[s] = DeviceOf[x] => s = x

(* What a request has resolved stays within the plans when it is used, and *)
(* a request that is carried out has its session.                          *)
Resolved(s) ==
  /\ conn[s].pc = "planned" =>
       /\ conn[s].max \in Nat \ {0} /\ conn[s].max <= PremiumMax
       /\ conn[s].tier = "free" => conn[s].exp <= now + FreeTTL
  /\ conn[s].pc \in Under => session[s].st # "none"

LimitInv == LimitHolds /\ OnePerDevice /\ \A s \in Session : Resolved(s)

-----------------------------------------------------------------------------
(* Who writes vpn_sessions, and how.                                       *)

Closing(S) ==
  /\ \E st \in Closed : /\ session' = CloseAs(S, st)
                        /\ \A s \in S : IF st = "failed" THEN FailSession(s) ELSE IsLive(s)
  /\ UNCHANGED grant
  /\ \A s \in S : session[s].st # "none"

Verifies == \E g \in Grant, s \in Session : VerifyAdReward(g, s) /\ grant[g].minutes # 0

LEMMA SessionWriters ==
  ASSUME IInv, LimitInv, Next
  PROVE  \/ \E s \in Session : Admit(s) /\ UNCHANGED <<drainer, push>>
         \/ \E S \in SUBSET Session : Closing(S)
         \/ Verifies
         \/ UNCHANGED session
<1>1. ASSUME NEW x \in Session, ConnNext(x) PROVE Admit(x) \/ Closing({x}) \/ UNCHANGED session
  <2>1. CASE FailSession(x)
    <3>1. session' = CloseAs({x}, "failed") /\ UNCHANGED grant /\ conn[x].pc = "failing"
      BY <2>1 DEF FailSession, At
    <3>2. session[x].st # "none"
      BY <3>1 DEF LimitInv, Resolved, Under
    <3> QED
      BY <2>1, <3>1, <3>2 DEF Closing, Closed
  <2>2. CASE ~Admit(x) /\ ~FailSession(x)
    BY <1>1, <2>2 DEF ConnNext, AttestedGuard, ResolveTierAndExpiry, Refuse, Displace, DisplaceDelete,
       DisplaceRecord, CreateUser, CheckUser, FailEnqueue, FailPenalise, ConnCrash, dbVars
  <2> QED
    BY <2>1, <2>2
<1>2. ASSUME NEW w \in Worker, DrainerNext(w) PROVE UNCHANGED session
  BY <1>2 DEF DrainerNext, Claim, Dispatch, DispatchSecond, Record, DrainerCrash, dbVars
<1>3. \A s : IsLive(s) => session[s].st # "none"
  BY DEF IsLive, Live
<1>4. ASSUME ReapStep PROVE \E S \in SUBSET Session : Closing(S)
  <2>1. PICK S \in SUBSET Overdue : Reap(S)
    BY <1>4 DEF ReapStep
  <2>2. S \in SUBSET Session /\ \A s \in S : IsLive(s) /\ session[s].st # "none"
    BY <1>3 DEF Overdue
  <2> QED
    BY <2>1, <2>2 DEF Reap, Closing, Closed
<1>5. TimeStep \/ LandStep => UNCHANGED session
  BY DEF TimeStep, Tick, Elapse, LandStep, Land, dbVars
<1>6. ASSUME AdminStep PROVE UNCHANGED session \/ \E S \in SUBSET Session : Closing(S)
  <2>1. ASSUME NEW S \in SUBSET Session, \A s \in S : IsLive(s), RevokeAll(S), UNCHANGED grant
        PROVE  Closing(S)
    BY <1>3, <2>1 DEF RevokeAll, Closing, Closed
  <2>2. ASSUME NEW u \in User, NEW ban, NEW tier, MutateUser(u, ban, tier)
        PROVE  UNCHANGED session \/ \E S \in SUBSET Session : Closing(S)
    <3>1. LiveOf(u) \in SUBSET Session /\ \A s \in LiveOf(u) : IsLive(s)
      BY DEF LiveOf
    <3>2. UNCHANGED grant /\ (UNCHANGED session \/ RevokeAll(LiveOf(u)))
      BY <2>2 DEF MutateUser
    <3> QED
      BY <2>1, <3>1, <3>2
  <2>3. ASSUME NEW s \in Session, KickSession(s) PROVE \E S \in SUBSET Session : Closing(S)
    BY <2>1, <2>3 DEF KickSession
  <2>4. ASSUME PanicRevokeFreeSessions PROVE \E S \in SUBSET Session : Closing(S)
    <3> DEFINE S == {s \in Session : IsLive(s) /\ session[s].tier = "free"}
    <3>1. S \in SUBSET Session /\ (\A s \in S : IsLive(s)) /\ RevokeAll(S) /\ UNCHANGED grant
      BY <2>4 DEF PanicRevokeFreeSessions
    <3> HIDE DEF S
    <3> QED
      BY <2>1, <3>1
  <2>5. ASSUME NEW n \in Node, ForceMigrateNode(n) PROVE \E S \in SUBSET Session : Closing(S)
    <3> DEFINE S == {s \in Session : IsLive(s) /\ session[s].node = n}
    <3>1. S \in SUBSET Session /\ (\A s \in S : IsLive(s)) /\ RevokeAll(S) /\ UNCHANGED grant
      BY <2>5 DEF ForceMigrateNode
    <3> HIDE DEF S
    <3> QED
      BY <2>1, <3>1
  <2>6. \A n, b : SetNodeActive(n, b) \/ NodeSync(n, b) => UNCHANGED session
    BY DEF SetNodeActive, NodeSync
  <2> QED
    BY <1>6, <2>2, <2>3, <2>4, <2>5, <2>6 DEF AdminStep, AdminNext
<1>7. ASSUME AdNext PROVE UNCHANGED session \/ Verifies
  <2>1. \A u, x : RequestAdToken(u, x) => UNCHANGED session
    BY DEF RequestAdToken
  <2>2. \A t, g : RecordVerifiedReward(t, g) => UNCHANGED session
    BY DEF RecordVerifiedReward
  <2>3. \A g : PushExpiry(g) \/ PushReadBack(g) \/ PushRecord(g) \/ PushCrash(g) => UNCHANGED session
    BY DEF PushExpiry, PushReadBack, PushRecord, PushCrash, dbVars
  <2>4. ASSUME NEW g \in Grant, NEW x \in Session, VerifyAdReward(g, x)
        PROVE  UNCHANGED session \/ Verifies
    BY <2>4 DEF VerifyAdReward, Verifies
  <2> QED
    BY <1>7, <2>1, <2>2, <2>3, <2>4 DEF AdNext
<1> QED
  BY <1>1, <1>2, <1>4, <1>5, <1>6, <1>7 DEF Next, ConnectStep, AdStep, DrainStep

(* A connect makes room before it opens its session.                       *)
Opening(s, V, n) ==
  /\ V \in SUBSET LiveOf(UserOf[s]) /\ s \notin V
  /\ session[s] = NoSession
  /\ session'[s] = [st |-> IF conn[s].tier = "premium" THEN "active" ELSE "provisioning",
                    tier |-> conn[s].tier, node |-> n, exp |-> conn[s].exp, born |-> now]
  /\ \A x \in V : session'[x] = [session[x] EXCEPT !.st = "revoked"]
  /\ \A x \in Session \ V : x # s => session'[x] = session[x]
  /\ IsFiniteSet(LiveOf(UserOf[s]) \ V) /\ Cardinality(LiveOf(UserOf[s]) \ V) < PremiumMax
  /\ DeviceFree(s, V)

LEMMA AdmitFacts ==
  ASSUME IInv, LimitInv, NEW s \in Session, Admit(s)
  PROVE  \E V, n : Opening(s, V, n)
<1> USE DEF IInv
<1> DEFINE u == UserOf[s]
           c == conn[s]
           row(n) == [st |-> IF c.tier = "premium" THEN "active" ELSE "provisioning",
                      tier |-> c.tier, node |-> n, exp |-> c.exp, born |-> now]
<1>1. PICK V \in SUBSET LiveOf(u), n \in Node :
        /\ Displaced(V, u, c.max) /\ DeviceFree(s, V)
        /\ session' = [CloseAs(V, "revoked") EXCEPT ![s] = row(n)]
  BY DEF Admit
<1>2. c.pc = "planned" /\ session[s] = NoSession
  BY DEF Admit, At, WorkInProgress, RequestsPlaced, Placed
<1>3. V \in SUBSET Session /\ s \notin V
  BY <1>2 DEF LiveOf, IsLive, NoSession, Live
<1>4. \A x \in Session : CloseAs(V, "revoked")[x] = IF x \in V THEN [session[x] EXCEPT !.st = "revoked"]
                                                    ELSE session[x]
  BY DEF CloseAs
<1>5. /\ session'[s] = row(n)
      /\ \A x \in Session : x # s => session'[x] = CloseAs(V, "revoked")[x]
  BY <1>1 DEF CloseAs
<1>6. u \in User
  BY ParamAssumption DEF ParamAssumption
<1>7. /\ IsFiniteSet(LiveOf(u)) /\ c.max \in Nat \ {0} /\ c.max <= PremiumMax /\ PremiumMax \in Nat
      /\ Cardinality(LiveOf(u)) <= PremiumMax
  BY <1>2, <1>6, ParamAssumption DEF LimitInv, LimitHolds, Resolved, ParamAssumption
<1>8. /\ IsFiniteSet(V) /\ IsFiniteSet(LiveOf(u) \ V) /\ LiveOf(u) \cap V = V
      /\ Cardinality(LiveOf(u) \ V) = Cardinality(LiveOf(u)) - Cardinality(V)
      /\ Cardinality(LiveOf(u)) \in Nat /\ Cardinality(V) \in Nat
  <2> DEFINE L == LiveOf(u)
  <2>1. IsFiniteSet(L) /\ V \in SUBSET L /\ L \cap V = V
    BY <1>1, <1>7
  <2> HIDE DEF L
  <2>2. IsFiniteSet(V) /\ Cardinality(V) \in Nat /\ Cardinality(L) \in Nat
    BY <2>1, FS_Subset, FS_CardinalityType
  <2>3. IsFiniteSet(L \ V) /\ Cardinality(L \ V) = Cardinality(L) - Cardinality(L \cap V)
    BY <2>1, FS_Difference
  <2> QED
    BY <2>1, <2>2, <2>3 DEF L
<1>9. Cardinality(LiveOf(u) \ V) < PremiumMax
  <2> DEFINE l == Cardinality(LiveOf(u))
  <2>1. Cardinality(V) = IF l - c.max + 1 > 0 THEN l - c.max + 1 ELSE 0
    BY <1>1 DEF Displaced
  <2>2. l \in Nat /\ Cardinality(LiveOf(u) \ V) = l - Cardinality(V)
    BY <1>8
  <2> HIDE DEF l
  <2> QED
    BY <1>7, <2>1, <2>2
<1> QED
  BY <1>1, <1>2, <1>3, <1>4, <1>5, <1>8, <1>9 DEF Opening

LEMMA ClosingFacts ==
  ASSUME IInv, NEW S \in SUBSET Session, Closing(S)
  PROVE  /\ \A x \in S : /\ session[x].st # "none" /\ session'[x].st \in Closed
                         /\ session'[x].exp = session[x].exp /\ session'[x].born = session[x].born
                         /\ session'[x].tier = session[x].tier
         /\ \A x \in Session \ S : session'[x] = session[x]
<1>1. PICK st \in Closed : session' = CloseAs(S, st)
  BY DEF Closing
<1>2. session \in [Session -> SessionRow]
  BY DEF IInv, TypeOK, DatabaseType
<1> QED
  BY <1>1, <1>2 DEF CloseAs, SessionRow, Closing

LEMMA VerifyFacts ==
  ASSUME IInv, NEW g \in Grant, NEW s \in Session, VerifyAdReward(g, s), grant[g].minutes # 0
  PROVE  /\ IsLive(s) /\ session'[s].st \in Live /\ session'[s].exp > session[s].exp
         /\ session'[s].born = session[s].born /\ session'[s].tier = session[s].tier
         /\ \A x \in Session \ {s} : session'[x] = session[x]
         /\ grant[g].st # "consumed" /\ grant' = [grant EXCEPT ![g].st = "consumed", ![g].sess = s]
<1>1. CanVerify(g, s) /\ IsLive(s) /\ grant[g].st # "consumed"
  BY DEF VerifyAdReward, CanVerify, Fundable, Spendable
<1>2. session[s].exp < NewExpiry(g, s)
  BY <1>1, NewExpiryFacts
<1>3. session \in [Session -> SessionRow]
  BY DEF IInv, TypeOK, DatabaseType
<1>4. session' = [session EXCEPT ![s].exp = NewExpiry(g, s),
                                 ![s].st = IF @ = "provisioning" THEN "active" ELSE @]
  BY DEF VerifyAdReward
<1>5. /\ session'[s].exp = NewExpiry(g, s) /\ session'[s].st \in Live
      /\ session'[s].born = session[s].born /\ session'[s].tier = session[s].tier
      /\ \A x \in Session \ {s} : session'[x] = session[x]
  BY <1>1, <1>3, <1>4 DEF SessionRow, IsLive, Live
<1>6. NewExpiry(g, s) > session[s].exp
  <2>1. session[s].exp \in Nat /\ NewExpiry(g, s) \in Nat
    BY <1>1, <1>3, NewExpiryFacts DEF SessionRow
  <2> QED
    BY <1>2, <2>1
<1> QED
  BY <1>1, <1>5, <1>6 DEF VerifyAdReward

-----------------------------------------------------------------------------
(* How a request moves, and the clock.                                     *)

LEMMA ClockGrows == IInv /\ Next => now' \in Nat /\ now' >= now
<1> SUFFICES ASSUME IInv, Next PROVE now' = now \/ now' = now + 1
  BY DEF IInv, TypeOK, DatabaseType
<1>1. ASSUME NEW s \in Session, ConnNext(s) PROVE UNCHANGED now
  BY <1>1 DEF ConnNext, AttestedGuard, ResolveTierAndExpiry, Admit, Refuse, Displace, DisplaceDelete,
     DisplaceRecord, CreateUser, CheckUser, FailSession, FailEnqueue, FailPenalise, ConnCrash, dbVars
<1>2. AdNext => UNCHANGED now
  BY DEF AdNext, RequestAdToken, RecordVerifiedReward, VerifyAdReward, PushExpiry, PushReadBack,
         PushRecord, PushCrash, dbVars
<1>3. ASSUME NEW w \in Worker, DrainerNext(w) PROVE UNCHANGED now
  BY <1>3 DEF DrainerNext, Claim, Dispatch, DispatchSecond, Record, DrainerCrash, dbVars
<1>4. ReapStep \/ LandStep => UNCHANGED now
  BY DEF ReapStep, Reap, LandStep, Land, dbVars
<1>5. AdminStep => UNCHANGED now
  BY DEF AdminStep, AdminNext, MutateUser, KickSession, PanicRevokeFreeSessions, SetNodeActive,
         NodeSync, ForceMigrateNode
<1>6. TimeStep => now' = now \/ now' = now + 1
  BY DEF TimeStep, Tick, Elapse
<1> QED
  BY <1>1, <1>2, <1>3, <1>4, <1>5, <1>6 DEF Next, ConnectStep, AdStep, DrainStep

LEMMA ConnMoves ==
  ASSUME IInv, Next, NEW s \in Session
  PROVE  /\ conn'[s].pc = "planned" =>
              \/ /\ conn[s].pc = "planned" /\ conn'[s].max = conn[s].max
                 /\ conn'[s].tier = conn[s].tier /\ conn'[s].exp = conn[s].exp
              \/ /\ conn'[s].max \in {FreeMax, PremiumMax} /\ now' = now
                 /\ conn'[s].tier = "free" => conn'[s].exp = now + FreeTTL
         /\ conn'[s].pc \in Under => conn[s].pc \in Under \/ Admit(s)
<1> USE DEF IInv, TypeOK, ConnType, ConnRow
<1>1. ASSUME NEW x \in Session, ConnNext(x), x # s PROVE conn'[s] = conn[s]
  <2>1. ASSUME NEW v \in Session, Displace(x, v) PROVE conn'[s] = conn[s]
    BY <1>1, <2>1 DEF Displace
  <2> QED
    BY <1>1, <2>1 DEF ConnNext, AttestedGuard, ResolveTierAndExpiry, Admit, Refuse, DisplaceDelete,
       DisplaceRecord, CreateUser, CheckUser, FailSession, FailEnqueue, FailPenalise, ConnCrash, Goto
<1>2. ASSUME NEW to, Goto(s, to), to \notin Under \cup {"planned"}
      PROVE  conn'[s].pc \notin Under \cup {"planned"}
  BY <1>2 DEF Goto
<1>3. ASSUME NEW to, Goto(s, to), to \in Under, conn[s].pc \in Under
      PROVE  conn'[s].pc # "planned"
  BY <1>3 DEF Goto, Under
<1>4. CASE ResolveTierAndExpiry(s)
  <2>1. conn'[s].pc = "planned" /\ conn'[s].max \in {FreeMax, PremiumMax} /\ now' = now
    BY <1>4 DEF ResolveTierAndExpiry, dbVars
  <2>2. conn'[s].tier = "free" => conn'[s].exp = now + FreeTTL
    BY <1>4 DEF ResolveTierAndExpiry
  <2> QED
    BY <2>1, <2>2 DEF Under
<1>5. CASE AttestedGuard(s) \/ Refuse(s) \/ FailSession(s) \/ FailEnqueue(s) \/ FailPenalise(s)
           \/ ConnCrash(s)
  BY <1>2, <1>5 DEF AttestedGuard, Refuse, FailSession, FailEnqueue, FailPenalise, ConnCrash, Under
<1>6. CASE Admit(s)
  <2>1. conn'[s].pc = "displacing"
    BY <1>6 DEF Admit
  <2> QED
    BY <1>6, <2>1
<1>7. ASSUME NEW v \in Session, Displace(s, v)
      PROVE  conn[s].pc \in Under /\ conn'[s].pc \in Under
  BY <1>7 DEF Displace, At, Under
<1>8. CASE DisplaceDelete(s) \/ DisplaceRecord(s) \/ CreateUser(s) \/ CheckUser(s)
  <2>1. conn[s].pc \in Under
    BY <1>8 DEF DisplaceDelete, DisplaceRecord, CreateUser, CheckUser, At, Under
  <2>2. \E to \in Under \cup {"done"} : Goto(s, to)
    BY <1>8 DEF DisplaceDelete, DisplaceRecord, CreateUser, CheckUser, Under
  <2> QED
    BY <1>2, <1>3, <2>1, <2>2 DEF Under
<1>9. CASE \E x \in Session : ConnNext(x)
  <2>1. PICK x \in Session : ConnNext(x)
    BY <1>9
  <2>2. CASE x # s
    BY <1>1, <2>1, <2>2
  <2>3. CASE x = s
    BY <1>4, <1>5, <1>6, <1>7, <1>8, <2>1, <2>3 DEF ConnNext, Under
  <2> QED
    BY <2>2, <2>3
<1>10. CASE UNCHANGED conn
  BY <1>10
<1>11. ConnectStep \/ UNCHANGED conn
  BY DEF Next, AdStep, DrainStep, ReapStep, AdminStep, TimeStep, LandStep
<1> QED
  BY <1>9, <1>10, <1>11 DEF ConnectStep

-----------------------------------------------------------------------------
(* The limits.                                                             *)

(* Where no session opens no limit is reached.                             *)
LEMMA FewerLive ==
  ASSUME LimitHolds, OnePerDevice, \A s \in Session : IsLive(s)' => IsLive(s)
  PROVE  LimitHolds' /\ OnePerDevice'
<1>1. ASSUME NEW u \in User PROVE (IsFiniteSet(LiveOf(u)) /\ Cardinality(LiveOf(u)) <= PremiumMax)'
  <2>1. LiveOf(u)' \in SUBSET LiveOf(u)
    BY DEF LiveOf
  <2>2. IsFiniteSet(LiveOf(u)) /\ Cardinality(LiveOf(u)) <= PremiumMax
    BY DEF LimitHolds
  <2>3. IsFiniteSet(LiveOf(u)') /\ Cardinality(LiveOf(u)') <= Cardinality(LiveOf(u))
    BY <2>1, <2>2, FS_Subset
  <2>4. Cardinality(LiveOf(u)) \in Nat /\ Cardinality(LiveOf(u)') \in Nat /\ PremiumMax \in Nat
    BY <2>2, <2>3, FS_CardinalityType, ParamAssumption DEF ParamAssumption
  <2> QED
    BY <2>2, <2>3, <2>4
<1>2. LimitHolds'
  BY <1>1 DEF LimitHolds
<1>3. OnePerDevice'
  BY DEF OnePerDevice
<1> QED
  BY <1>2, <1>3

LEMMA OpeningLimits ==
  ASSUME LimitHolds, OnePerDevice, NEW s \in Session, NEW V, NEW n, Opening(s, V, n)
  PROVE  LimitHolds' /\ OnePerDevice'
<1> DEFINE L == LiveOf(UserOf[s])
<1>1. /\ V \in SUBSET L /\ L \subseteq Session
      /\ \A x \in Session : IsLive(x)' <=> x = s \/ (IsLive(x) /\ x \notin V)
  <2>1. V \in SUBSET L /\ L \subseteq Session /\ s \notin V
    BY DEF Opening, LiveOf
  <2>2. session'[s].st \in Live
    BY DEF Opening, Live
  <2>3. \A x \in V : session'[x].st \notin Live
    <3> SUFFICES ASSUME NEW x \in V PROVE session'[x].st \notin Live
      OBVIOUS
    <3>1. session'[x] = [session[x] EXCEPT !.st = "revoked"] /\ session[x].st \in Live
      BY <2>1 DEF Opening, LiveOf, IsLive
    <3>2. session'[x].st \in {"revoked", session[x].st}
      BY <3>1
    <3> QED
      BY <3>1, <3>2 DEF Live
  <2>4. \A x \in Session \ V : x # s => session'[x] = session[x]
    BY DEF Opening
  <2> QED
    BY <2>1, <2>2, <2>3, <2>4 DEF IsLive
<1>2. ASSUME NEW u \in User PROVE (IsFiniteSet(LiveOf(u)) /\ Cardinality(LiveOf(u)) <= PremiumMax)'
  <2>0. PremiumMax \in Nat
    BY ParamAssumption DEF ParamAssumption
  <2>1. CASE u = UserOf[s]
    <3> DEFINE R == L \ V
    <3>1. LiveOf(u)' = R \cup {s} /\ s \notin R
      <4>1. ~IsLive(s)
        BY DEF Opening, IsLive, NoSession, Live
      <4> QED
        BY <1>1, <2>1, <4>1 DEF LiveOf
    <3>2. IsFiniteSet(R) /\ Cardinality(R) < PremiumMax
      BY DEF Opening
    <3> HIDE DEF R, L
    <3>3. IsFiniteSet(R \cup {s}) /\ Cardinality(R \cup {s}) = Cardinality(R) + 1
          /\ Cardinality(R) \in Nat
      BY <3>1, <3>2, FS_AddElement, FS_CardinalityType
    <3>4. Cardinality(R \cup {s}) <= PremiumMax
      BY <2>0, <3>2, <3>3
    <3> QED
      BY <3>1, <3>3, <3>4
  <2>2. CASE u # UserOf[s]
    <3>1. LiveOf(u)' \in SUBSET LiveOf(u)
      BY <1>1, <2>2 DEF LiveOf
    <3>2. IsFiniteSet(LiveOf(u)) /\ Cardinality(LiveOf(u)) <= PremiumMax
      BY DEF LimitHolds
    <3>3. /\ IsFiniteSet(LiveOf(u)') /\ Cardinality(LiveOf(u)') <= Cardinality(LiveOf(u))
          /\ Cardinality(LiveOf(u)) \in Nat /\ Cardinality(LiveOf(u)') \in Nat
      BY <3>1, <3>2, FS_Subset, FS_CardinalityType
    <3> QED
      BY <2>0, <3>2, <3>3
  <2> QED
    BY <2>1, <2>2
<1>3. LimitHolds'
  BY <1>2 DEF LimitHolds
<1>4. OnePerDevice'
  <2>1. \A x \in Session : x \notin V /\ IsLive(x) => DeviceOf[x] # DeviceOf[s]
    BY DEF Opening, DeviceFree
  <2> QED
    BY <1>1, <2>1 DEF OnePerDevice
<1> QED
  BY <1>3, <1>4

\* A session that exists goes on existing.
LEMMA SessionsStay ==
  ASSUME IInv, LimitInv, Next, NEW s \in Session, session[s].st # "none"
  PROVE  session'[s].st # "none"
<1>1. CASE \E x \in Session : Admit(x)
  <2>0. PICK x \in Session : Admit(x)
    BY <1>1
  <2>1. PICK V, n : Opening(x, V, n)
    BY <2>0, AdmitFacts
  <2>2. x # s /\ (s \notin V => session'[s] = session[s])
    BY <2>1 DEF Opening, NoSession
  <2>3. s \in V => session'[s] = [session[s] EXCEPT !.st = "revoked"] /\ session[s] \in SessionRow
    BY <2>1 DEF Opening, IInv, TypeOK, DatabaseType
  <2> QED
    BY <2>2, <2>3 DEF SessionRow
<1>2. CASE \E S \in SUBSET Session : Closing(S)
  BY <1>2, ClosingFacts DEF Closed
<1>3. CASE Verifies
  BY <1>3, VerifyFacts DEF Verifies, Live
<1> QED
  BY <1>1, <1>2, <1>3, SessionWriters

LEMMA LimitStep == IInv /\ LimitInv /\ Next => LimitInv'
<1> SUFFICES ASSUME IInv, LimitInv, Next PROVE LimitInv'
  OBVIOUS
<1>1. LimitHolds' /\ OnePerDevice'
  <2>0. LimitHolds /\ OnePerDevice
    BY DEF LimitInv
  <2>1. CASE \E x \in Session : Admit(x)
    BY <2>0, <2>1, AdmitFacts, OpeningLimits
  <2>2. CASE \E S \in SUBSET Session : Closing(S)
    <3>1. \A s \in Session : IsLive(s)' => IsLive(s)
      BY <2>2, ClosingFacts DEF IsLive, Live, Closed
    <3> QED
      BY <2>0, <3>1, FewerLive
  <2>3. CASE Verifies
    <3>1. \A s \in Session : IsLive(s)' => IsLive(s)
      BY <2>3, VerifyFacts DEF Verifies, IsLive
    <3> QED
      BY <2>0, <3>1, FewerLive
  <2>4. CASE UNCHANGED session
    BY <2>0, <2>4, FewerLive DEF IsLive
  <2> QED
    BY <2>1, <2>2, <2>3, <2>4, SessionWriters
<1>2. ASSUME NEW s \in Session PROVE Resolved(s)'
  <2>1. now' >= now /\ now' \in Nat /\ now \in Nat /\ conn[s].exp \in Nat /\ FreeTTL \in Nat
        /\ FreeMax \in Nat \ {0} /\ PremiumMax \in Nat \ {0} /\ FreeMax <= PremiumMax
    BY ClockGrows, ParamAssumption DEF IInv, TypeOK, DatabaseType, ConnType, ConnRow, ParamAssumption
  <2>2. Resolved(s)
    BY DEF LimitInv
  <2>3. conn'[s].pc = "planned" =>
          /\ conn'[s].max \in Nat \ {0} /\ conn'[s].max <= PremiumMax
          /\ conn'[s].tier = "free" => conn'[s].exp <= now' + FreeTTL
    BY <2>1, <2>2, ConnMoves DEF Resolved
  <2>4. conn'[s].pc \in Under => session'[s].st # "none"
    <3>1. CASE Admit(s)
      <4>1. PICK V, n : Opening(s, V, n)
        BY <3>1, AdmitFacts
      <4> QED
        BY <4>1 DEF Opening
    <3>2. CASE conn[s].pc \in Under
      BY <2>2, <3>2, SessionsStay DEF Resolved
    <3> QED
      BY <3>1, <3>2, ConnMoves
  <2> QED
    BY <2>3, <2>4 DEF Resolved
<1> QED
  BY <1>1, <1>2 DEF LimitInv

LEMMA LimitInitially == Init => LimitInv
<1> SUFFICES ASSUME Init PROVE LimitInv
  OBVIOUS
<1>1. /\ \A s \in Session : ~IsLive(s) /\ conn[s].pc = "idle"
      /\ PremiumMax \in Nat
  BY ParamAssumption DEF Init, DatabaseInit, ConnInit, NoConn, NoSession, IsLive, Live, ParamAssumption
<1>2. \A u : LiveOf(u) = {}
  BY <1>1 DEF LiveOf
<1> QED
  BY <1>1, <1>2, FS_EmptySet DEF LimitInv, LimitHolds, OnePerDevice, Resolved, Under

LEMMA LimitInvariant == Spec => []LimitInv
<1>1. LimitInv /\ UNCHANGED vars => LimitInv'
  <2> SUFFICES ASSUME LimitInv, UNCHANGED vars PROVE LimitInv'
    OBVIOUS
  <2>1. session' = session /\ conn' = conn /\ now' = now
    BY DEF vars, dbVars
  <2> QED
    BY <2>1 DEF LimitInv, LimitHolds, OnePerDevice, Resolved, LiveOf, IsLive
<1> QED
  BY <1>1, LimitInitially, LimitStep, InvariantHolds, PTL DEF Spec

(* However connects, the reaper, revocations and changes of plan race, no  *)
(* user has more live sessions than the largest plan, no device two        *)
(* (ConnectionService.connect, the unique index on the device).            *)
THEOREM LimitIsKept == Spec => []ConcurrencyLimit
<1>1. LimitInv => ConcurrencyLimit
  BY DEF LimitInv, LimitHolds, OnePerDevice, ConcurrencyLimit
<1> QED
  BY <1>1, LimitInvariant, PTL

-----------------------------------------------------------------------------
(* The contract.                                                           *)

Used == {g \in Grant : grant[g].st = "consumed" /\ grant[g].minutes > 0}

(* Only a verify of a grant with minutes uses one.                         *)
LEMMA UsedStays ==
  ASSUME IInv, Next, ~Verifies
  PROVE  Used' = Used
<1> USE DEF IInv, TypeOK, DatabaseType
<1>0. grant \in [Grant -> GrantRow]
  OBVIOUS
<1>1. CASE UNCHANGED grant
  BY <1>1 DEF Used
<1>2. ASSUME NEW h \in Grant, NEW row, grant' = [grant EXCEPT ![h] = row],
             grant[h].st # "consumed", row.st # "consumed"
      PROVE  Used' = Used
  <2>1. \A g \in Grant : g # h => grant'[g] = grant[g]
    BY <1>2
  <2>2. grant'[h].st # "consumed"
    BY <1>0, <1>2
  <2> QED
    BY <1>2, <2>1, <2>2 DEF Used
<1>3. ASSUME NEW s \in Session, Admit(s) PROVE Used' = Used
  <2>1. UNCHANGED grant \/ \E h \in Grant :
          grant[h].st = "none" /\ grant' = [grant EXCEPT ![h] = ConnectGrant(s, conn[s].exp)]
    BY <1>3 DEF Admit
  <2>2. ConnectGrant(s, conn[s].exp).st = "pending"
    BY DEF ConnectGrant
  <2> QED
    BY <1>1, <1>2, <2>1, <2>2
<1>4. ASSUME NEW u \in User, NEW s \in Session \cup {None}, RequestAdToken(u, s)
      PROVE  Used' = Used
  <2> DEFINE row(rule) == [st |-> "pending", owner |-> u, sess |-> s, need |-> rule.need,
                           got |-> 0, minutes |-> rule.minutes, exp |-> now + TokenWindow]
  <2>1. PICK h \in Grant, rule \in Rules :
          grant[h].st = "none" /\ grant' = [grant EXCEPT ![h] = row(rule)]
    BY <1>4 DEF RequestAdToken
  <2>2. row(rule).st # "consumed"
    OBVIOUS
  <2> HIDE DEF row
  <2> QED
    BY <1>2, <2>1, <2>2
<1>5. ASSUME NEW t \in Txn, NEW h \in Grant, RecordVerifiedReward(t, h)
      PROVE  Used' = Used
  <2>1. CASE GrantOpen(h)
    <3> DEFINE row == [grant[h] EXCEPT !.got = @ + 1,
                         !.st = IF grant[h].got + 1 >= grant[h].need THEN "fulfilled" ELSE @]
    <3>1. grant' = [grant EXCEPT ![h] = row]
      BY <1>5, <2>1 DEF RecordVerifiedReward
    <3>2. grant[h].st = "pending" /\ row.st # "consumed"
      BY <1>0, <2>1 DEF GrantOpen, GrantRow
    <3> HIDE DEF row
    <3> QED
      BY <1>2, <3>1, <3>2
  <2>2. CASE ~GrantOpen(h)
    BY <1>1, <1>5, <2>2 DEF RecordVerifiedReward
  <2> QED
    BY <2>1, <2>2
<1>6. ASSUME NEW h \in Grant, NEW s \in Session, VerifyAdReward(h, s)
      PROVE  Used' = Used
  <2>1. grant[h].minutes = 0 /\ grant' = [grant EXCEPT ![h].st = "consumed", ![h].sess = s]
    BY <1>6 DEF VerifyAdReward, Verifies
  <2>2. /\ \A g \in Grant : g # h => grant'[g] = grant[g]
        /\ grant'[h].minutes = 0
    BY <1>0, <2>1 DEF GrantRow
  <2> QED
    BY <2>1, <2>2 DEF Used
<1> QED
  BY <1>1, <1>3, <1>4, <1>5, <1>6, GrantWriters

\* Both modules take Cardinality from FiniteSets.
LEMMA SameCardinality == \A S : Contract!Cardinality(S) = Cardinality(S)
BY DEF Contract!Cardinality, Cardinality

LEMMA OpeningContract ==
  ASSUME IInv, LimitInv, Next, NEW s \in Session, NEW V, NEW n, Opening(s, V, n), ~Verifies
  PROVE  Contract!Next
<1>1. /\ V \in SUBSET Session /\ V \subseteq LiveOf(UserOf[s]) /\ s \notin V /\ session[s].st = "none"
      /\ session'[s].st \in Live
  BY DEF Opening, NoSession, LiveOf, Live
<1>2. \A x \in V : /\ IsLive(x) /\ session'[x].st = "revoked" /\ session'[x].exp = session[x].exp
  <2> TAKE x \in V
  <2>1. session'[x] = [session[x] EXCEPT !.st = "revoked"] /\ session[x] \in SessionRow
    BY <1>1 DEF Opening, IInv, TypeOK, DatabaseType
  <2> QED
    BY <1>1, <2>1 DEF SessionRow, LiveOf
<1>3. \A x \in Session \ V : x # s => session'[x] = session[x]
  BY DEF Opening
<1>4. Contract!OpenOf(UserOf[s]) = LiveOf(UserOf[s])
  BY DEF Contract!OpenOf, LiveOf, Life, IsLive, Live
<1>5. Contract!Open(s, V)
  <2>1. Life(s) = "none"
    BY <1>1 DEF Life
  <2>2. Cardinality(Contract!OpenOf(UserOf[s]) \ V) < PremiumMax
    BY <1>4 DEF Opening
  <2>3. \A x \in Session \ V : Life(x) = "open" => DeviceOf[x] # DeviceOf[s]
    BY DEF Opening, DeviceFree, Life
  <2>4. \A x \in Session : Life(x)' = IF x = s THEN "open" ELSE IF x \in V THEN "closed" ELSE Life(x)
    BY <1>1, <1>2, <1>3 DEF Life, IsLive, Live
  <2>5. \A x \in Session \ {s} : session'[x].exp = session[x].exp
    BY <1>2, <1>3
  <2> QED
    BY <1>1, <1>4, <2>1, <2>2, <2>3, <2>4, <2>5, UsedStays, SameCardinality DEF Contract!Open, Used
<1> QED
  BY <1>1, <1>5 DEF Contract!Next

LEMMA ClosingContract ==
  ASSUME IInv, LimitInv, Next, NEW S \in SUBSET Session, Closing(S)
  PROVE  Contract!Next
<1> DEFINE C == {s \in S : IsLive(s)}
<1>1. /\ \A x \in S : session[x].st # "none" /\ session'[x].st \in Closed /\ session'[x].exp = session[x].exp
      /\ \A x \in Session \ S : session'[x] = session[x]
  BY ClosingFacts
<1>2. \A x \in C : Life(x) = "open"
  BY <1>1 DEF Life
<1>3. \A x \in Session : Life(x)' = IF x \in C THEN "closed" ELSE Life(x)
  <2> TAKE x \in Session
  <2>1. CASE x \in S
    BY <1>1, <2>1 DEF Life, IsLive, Live, Closed
  <2>2. CASE x \notin S
    BY <1>1, <2>2 DEF Life, IsLive
  <2> QED
    BY <2>1, <2>2
<1>4. UNCHANGED Used /\ \A x \in Session : session'[x].exp = session[x].exp
  BY <1>1 DEF Used, Closing
<1> C \in SUBSET Session
  OBVIOUS
<1> HIDE DEF C
<1>5. Contract!Close(C)
  BY <1>2, <1>3, <1>4 DEF Contract!Close, Used
<1> QED
  BY <1>5 DEF Contract!Next

LEMMA VerifyContract ==
  ASSUME IInv, NEW g \in Grant, NEW s \in Session, VerifyAdReward(g, s), grant[g].minutes # 0
  PROVE  Contract!Next
<1>1. /\ IsLive(s) /\ session'[s].st \in Live /\ session'[s].exp > session[s].exp
      /\ \A x \in Session \ {s} : session'[x] = session[x]
      /\ grant[g].st # "consumed" /\ grant' = [grant EXCEPT ![g].st = "consumed", ![g].sess = s]
  BY VerifyFacts
<1>2. grant \in [Grant -> GrantRow]
  BY DEF IInv, TypeOK, DatabaseType
<1>3. \A x \in Session : Life(x)' = Life(x)
  BY <1>1 DEF Life, IsLive, Live
<1>4. Life(s) = "open"
  BY <1>1 DEF Life, IsLive, Live
<1>5. grant'[g].st = "consumed" /\ grant'[g].minutes > 0 /\ grant[g].minutes > 0
      /\ \A h \in Grant : h # g => grant'[h] = grant[h]
  BY <1>1, <1>2 DEF GrantRow
<1>6. Used' = Used \cup {g} /\ g \notin Used
  BY <1>1, <1>5 DEF Used
<1>7. Contract!Extend(g, s)
  BY <1>1, <1>3, <1>4, <1>6 DEF Contract!Extend, Used
<1> QED
  BY <1>7 DEF Contract!Next

LEMMA ContractStep == IInv /\ LimitInv /\ [Next]_vars => [Contract!Next]_(Contract!contractVars)
<1> SUFFICES ASSUME IInv, LimitInv, [Next]_vars
             PROVE  Contract!Next \/ UNCHANGED Contract!contractVars
  OBVIOUS
<1>0. session' = session /\ Used' = Used => UNCHANGED Contract!contractVars
  BY DEF Contract!contractVars, Life, IsLive, Used
<1>1. CASE UNCHANGED vars
  BY <1>0, <1>1 DEF vars, dbVars, Used
<1>2. CASE Next /\ Verifies
  BY <1>2, VerifyContract DEF Verifies
<1>3. CASE Next /\ ~Verifies
  <2>1. CASE \E s \in Session : Admit(s)
    BY <1>3, <2>1, AdmitFacts, OpeningContract
  <2>2. CASE \E S \in SUBSET Session : Closing(S)
    BY <1>3, <2>2, ClosingContract
  <2>3. CASE UNCHANGED session
    BY <1>0, <1>3, <2>3, UsedStays
  <2> QED
    BY <1>3, <2>1, <2>2, <2>3, SessionWriters
<1> QED
  BY <1>1, <1>2, <1>3

(* The tables, under all that goes on, implement the contract of sessions. *)
THEOREM ContractIsKept == Spec => KeepsContract
<1>1. Init => Contract!Init
  BY DEF Init, DatabaseInit, NoSession, NoGrant, Contract!Init, Life
<1> QED
  BY <1>1, ContractStep, InvariantHolds, LimitInvariant, PTL DEF Spec, KeepsContract, Contract!Spec

-----------------------------------------------------------------------------
(* What free access costs.                                                 *)

Paid(t, g) == reward[t] = g
PaidFor(g) == {t \in Txn : Paid(t, g)}

(* The ads counted for a grant are stored transactions, and a grant that   *)
(* gives time asks for the full number.                                    *)
Counted(g) ==
  /\ IsFiniteSet(PaidFor(g)) /\ Cardinality(PaidFor(g)) >= grant[g].got
  /\ grant[g].minutes > 0 => grant[g].need = AdsNeeded
  /\ grant[g].st = "consumed" => grant[g].got >= grant[g].need

Bound(s, g) == grant[g].st = "consumed" /\ grant[g].sess = s /\ grant[g].minutes > 0

PaidInv ==
  /\ \A g \in Grant : Counted(g)
  /\ \A s \in Session :
       /\ session[s].tier = "free"
       /\ session[s].st = "active" \/ session[s].exp > session[s].born + FreeTTL
       => \E g \in Grant : Bound(s, g)

LEMMA RewardWriters ==
  ASSUME Next
  PROVE  UNCHANGED reward \/ \E t \in Txn, g \in Grant : RecordVerifiedReward(t, g)
<1>1. ASSUME NEW s \in Session, ConnNext(s) PROVE UNCHANGED reward
  BY <1>1 DEF ConnNext, AttestedGuard, ResolveTierAndExpiry, Admit, Refuse, Displace, DisplaceDelete,
     DisplaceRecord, CreateUser, CheckUser, FailSession, FailEnqueue, FailPenalise, ConnCrash, dbVars
<1>2. AdNext => UNCHANGED reward \/ \E t \in Txn, g \in Grant : RecordVerifiedReward(t, g)
  BY DEF AdNext, RequestAdToken, VerifyAdReward, PushExpiry, PushReadBack, PushRecord, PushCrash, dbVars
<1>3. ASSUME NEW w \in Worker, DrainerNext(w) PROVE UNCHANGED reward
  BY <1>3 DEF DrainerNext, Claim, Dispatch, DispatchSecond, Record, DrainerCrash, dbVars
<1>4. ReapStep \/ TimeStep \/ LandStep => UNCHANGED reward
  BY DEF ReapStep, Reap, TimeStep, Tick, Elapse, LandStep, Land, dbVars
<1>5. AdminStep => UNCHANGED reward
  BY DEF AdminStep, AdminNext, MutateUser, KickSession, PanicRevokeFreeSessions, SetNodeActive,
         NodeSync, ForceMigrateNode
<1> QED
  BY <1>1, <1>2, <1>3, <1>4, <1>5 DEF Next, ConnectStep, AdStep, DrainStep

(* A stored transaction counts for one grant, once.                        *)
LEMMA CallbackCounts ==
  ASSUME IInv, PaidInv, NEW t \in Txn, NEW g \in Grant, RecordVerifiedReward(t, g)
  PROVE  \A h \in Grant : Counted(h)'
<1>0. /\ grant \in [Grant -> GrantRow] /\ None \notin Grant
      /\ reward \in [Txn -> Grant \cup {None}] /\ reward[t] = None
      /\ reward' = [reward EXCEPT ![t] = g]
  BY NoneAssumption DEF IInv, TypeOK, DatabaseType, RecordVerifiedReward, FirstDelivery
<1>1. reward'[t] = g /\ \A x \in Txn : x # t => reward'[x] = reward[x]
  BY <1>0
<1>2. ASSUME NEW h \in Grant, h # g PROVE Counted(h)'
  <2>0. \A x \in Txn : reward'[x] = h <=> reward[x] = h
    BY <1>0, <1>1, <1>2
  <2>1. PaidFor(h)' = PaidFor(h)
    BY <2>0 DEF PaidFor, Paid
  <2>2. grant'[h] = grant[h]
    BY <1>0, <1>2 DEF RecordVerifiedReward
  <2>3. Counted(h)
    BY DEF PaidInv
  <2> QED
    BY <2>1, <2>2, <2>3 DEF Counted
<1>3. Counted(g)'
  <2> DEFINE P == PaidFor(g)
  <2>1. PaidFor(g)' = P \cup {t} /\ t \notin P
    BY <1>0, <1>1 DEF PaidFor, Paid
  <2>2. Counted(g)
    BY DEF PaidInv
  <2>3. IsFiniteSet(P) /\ Cardinality(P) >= grant[g].got
    BY <2>2 DEF Counted
  <2> HIDE DEF P
  <2>4. /\ IsFiniteSet(P \cup {t}) /\ Cardinality(P \cup {t}) = Cardinality(P) + 1
        /\ Cardinality(P) \in Nat
    BY <2>1, <2>3, FS_AddElement, FS_CardinalityType
  <2>5. CASE ~GrantOpen(g)
    <3>1. grant'[g] = grant[g] /\ grant[g].got \in Nat
      BY <1>0, <2>5 DEF RecordVerifiedReward, GrantRow
    <3>2. Cardinality(P \cup {t}) >= grant[g].got
      BY <2>3, <2>4, <3>1
    <3> QED
      BY <2>1, <2>2, <2>4, <3>1, <3>2 DEF Counted
  <2>6. CASE GrantOpen(g)
    <3> DEFINE full == grant[g].got + 1 >= grant[g].need
               row == [grant[g] EXCEPT !.got = @ + 1, !.st = IF full THEN "fulfilled" ELSE @]
    <3>1. grant' = [grant EXCEPT ![g] = row]
      BY <2>6 DEF RecordVerifiedReward
    <3>2. grant[g] \in GrantRow /\ grant[g].st = "pending" /\ grant[g].got \in Nat
      BY <1>0, <2>6 DEF GrantOpen, GrantRow
    <3> HIDE DEF full
    <3>3. /\ row.got = grant[g].got + 1 /\ row.minutes = grant[g].minutes /\ row.need = grant[g].need
          /\ row.st # "consumed"
      BY <3>2 DEF GrantRow
    <3> HIDE DEF row
    <3>4. grant'[g] = row
      BY <1>0, <3>1
    <3>5. Cardinality(P \cup {t}) >= row.got
      BY <2>3, <2>4, <3>2, <3>3
    <3> QED
      BY <2>1, <2>2, <2>4, <3>3, <3>4, <3>5 DEF Counted
  <2> QED
    BY <2>5, <2>6
<1> QED
  BY <1>2, <1>3

\* The other writers of a grant store no transaction.
LEMMA OthersCount ==
  ASSUME IInv, PaidInv, Next, UNCHANGED reward
  PROVE  \A h \in Grant : Counted(h)'
<1>0. grant \in [Grant -> GrantRow]
  BY DEF IInv, TypeOK, DatabaseType
<1>1. \A h \in Grant : Counted(h) /\ PaidFor(h)' = PaidFor(h)
  BY DEF PaidInv, PaidFor, Paid
<1>2. \A h \in Grant : grant'[h] = grant[h] => Counted(h)'
  BY <1>1 DEF Counted
<1>3. ASSUME NEW h \in Grant, NEW row, grant' = [grant EXCEPT ![h] = row],
             row.st = "pending", row.got = 0, row.minutes > 0 => row.need = AdsNeeded
      PROVE  \A g \in Grant : Counted(g)'
  <2>1. grant'[h] = row /\ \A g \in Grant : g # h => grant'[g] = grant[g]
    BY <1>0, <1>3
  <2>2. IsFiniteSet(PaidFor(h)) /\ Cardinality(PaidFor(h)) \in Nat
    BY <1>1, FS_CardinalityType DEF Counted
  <2>3. Counted(h)'
    BY <1>1, <1>3, <2>1, <2>2 DEF Counted
  <2> QED
    BY <1>2, <2>1, <2>3
<1>4. ASSUME NEW s \in Session, Admit(s) PROVE \A g \in Grant : Counted(g)'
  <2>1. UNCHANGED grant \/ \E h \in Grant : grant' = [grant EXCEPT ![h] = ConnectGrant(s, conn[s].exp)]
    BY <1>4 DEF Admit
  <2> DEFINE row == ConnectGrant(s, conn[s].exp)
  <2>2. row.st = "pending" /\ row.got = 0 /\ row.need = AdsNeeded
    BY DEF ConnectGrant
  <2> HIDE DEF row
  <2> QED
    BY <1>2, <1>3, <2>1, <2>2 DEF row
<1>5. ASSUME NEW u \in User, NEW s \in Session \cup {None}, RequestAdToken(u, s)
      PROVE  \A g \in Grant : Counted(g)'
  <2> DEFINE row(rule) == [st |-> "pending", owner |-> u, sess |-> s, need |-> rule.need,
                           got |-> 0, minutes |-> rule.minutes, exp |-> now + TokenWindow]
  <2>1. PICK h \in Grant, rule \in Rules : grant' = [grant EXCEPT ![h] = row(rule)]
    BY <1>5 DEF RequestAdToken
  <2>2. rule.minutes > 0 => rule.need = AdsNeeded
    BY DEF Rules
  <2>3. row(rule).st = "pending" /\ row(rule).got = 0 /\ row(rule).minutes = rule.minutes
        /\ row(rule).need = rule.need
    OBVIOUS
  <2> HIDE DEF row
  <2> QED
    BY <1>3, <2>1, <2>2, <2>3
<1>6. ASSUME NEW h \in Grant, NEW s \in Session, VerifyAdReward(h, s)
      PROVE  \A g \in Grant : Counted(g)'
  <2>1. /\ grant' = [grant EXCEPT ![h].st = "consumed", ![h].sess = s]
        /\ grant[h].got >= grant[h].need
    BY <1>6 DEF VerifyAdReward, CanVerify, Spendable
  <2>2. /\ \A g \in Grant : g # h => grant'[g] = grant[g]
        /\ grant'[h].got = grant[h].got /\ grant'[h].need = grant[h].need
        /\ grant'[h].minutes = grant[h].minutes
    BY <1>0, <2>1 DEF GrantRow
  <2>3. Counted(h)'
    BY <1>1, <2>1, <2>2 DEF Counted
  <2> QED
    BY <1>2, <2>2, <2>3
<1>7. ASSUME NEW t \in Txn, NEW g \in Grant, RecordVerifiedReward(t, g) PROVE FALSE
  <2>1. reward[t] = None /\ reward'[t] = g /\ None \notin Grant
    BY <1>7, NoneAssumption DEF RecordVerifiedReward, FirstDelivery, IInv, TypeOK, DatabaseType
  <2> QED
    BY <2>1
<1> QED
  BY <1>2, <1>4, <1>5, <1>6, <1>7, GrantWriters

(* A session's time and its grant: verify binds the one to the other.      *)
LEMMA PaidStep == IInv /\ LimitInv /\ PaidInv /\ Next => PaidInv'
<1> SUFFICES ASSUME IInv, LimitInv, PaidInv, Next PROVE PaidInv'
  OBVIOUS
<1>1. \A g \in Grant : Counted(g)'
  BY CallbackCounts, OthersCount, RewardWriters
<1>2. \A s \in Session, g \in Grant : Bound(s, g) => Bound(s, g)'
  BY SpentStep DEF Bound, SpentForGood
<1> DEFINE Free(s) == /\ session[s].tier = "free"
                      /\ session[s].st = "active" \/ session[s].exp > session[s].born + FreeTTL
<1>3. ASSUME NEW s \in Session, Free(s) PROVE \E g \in Grant : Bound(s, g)'
  BY <1>2, <1>3 DEF PaidInv
<1>4. ASSUME NEW s \in Session, Free(s)' PROVE Free(s) \/ \E g \in Grant : Bound(s, g)'
  <2>1. CASE \E x \in Session : Admit(x)
    <3>0. PICK x \in Session : Admit(x)
      BY <2>1
    <3>1. PICK V, n : Opening(x, V, n) /\ Admit(x)
      BY <3>0, AdmitFacts
    <3>2. CASE s = x
      <4>1. conn[x].pc = "planned" /\ conn[x].exp \in Nat /\ now \in Nat /\ FreeTTL \in Nat
        BY <3>1, ParamAssumption DEF Admit, At, IInv, TypeOK, DatabaseType, ConnType, ConnRow, ParamAssumption
      <4>2. conn[x].tier = "free" => conn[x].exp <= now + FreeTTL
        BY <4>1 DEF LimitInv, Resolved
      <4>3. /\ session'[s].tier = conn[x].tier /\ session'[s].exp = conn[x].exp /\ session'[s].born = now
            /\ session'[s].st = IF conn[x].tier = "premium" THEN "active" ELSE "provisioning"
        BY <3>1, <3>2 DEF Opening
      <4> QED
        BY <1>4, <4>1, <4>2, <4>3
    <3>3. CASE s \in V
      <4>1. session'[s] = [session[s] EXCEPT !.st = "revoked"] /\ session[s] \in SessionRow
        BY <3>1, <3>3 DEF Opening, IInv, TypeOK, DatabaseType
      <4>2. session'[s].tier = session[s].tier /\ session'[s].exp = session[s].exp
            /\ session'[s].born = session[s].born /\ session'[s].st = "revoked"
        BY <4>1 DEF SessionRow
      <4> QED
        BY <1>4, <4>2
    <3>4. CASE s # x /\ s \notin V
      BY <1>4, <3>1, <3>4 DEF Opening
    <3> QED
      BY <3>2, <3>3, <3>4
  <2>2. CASE \E S \in SUBSET Session : Closing(S)
    <3>1. PICK S \in SUBSET Session : Closing(S)
      BY <2>2
    <3>2. \/ session'[s] = session[s]
          \/ /\ session'[s].tier = session[s].tier /\ session'[s].exp = session[s].exp
             /\ session'[s].born = session[s].born /\ session'[s].st \in Closed
      BY <3>1, ClosingFacts
    <3> QED
      BY <1>4, <3>2 DEF Closed
  <2>3. CASE Verifies
    <3>1. PICK g \in Grant, x \in Session : VerifyAdReward(g, x) /\ grant[g].minutes # 0
      BY <2>3 DEF Verifies
    <3>2. /\ \A y \in Session \ {x} : session'[y] = session[y]
          /\ grant' = [grant EXCEPT ![g].st = "consumed", ![g].sess = x]
      BY <3>1, VerifyFacts
    <3>3. grant \in [Grant -> GrantRow]
      BY DEF IInv, TypeOK, DatabaseType
    <3>4. CASE s = x
      BY <3>1, <3>2, <3>3, <3>4 DEF Bound, GrantRow
    <3>5. CASE s # x
      BY <1>4, <3>2, <3>5
    <3> QED
      BY <3>4, <3>5
  <2>4. CASE UNCHANGED session
    BY <1>4, <2>4
  <2> QED
    BY <2>1, <2>2, <2>3, <2>4, SessionWriters
<1>5. \A s \in Session : Free(s)' => \E g \in Grant : Bound(s, g)'
  BY <1>3, <1>4
<1> QED
  BY <1>1, <1>5 DEF PaidInv

LEMMA PaidInitially == Init => PaidInv
<1> SUFFICES ASSUME Init PROVE PaidInv
  OBVIOUS
<1>1. \A g \in Grant : PaidFor(g) = {} /\ grant[g] = NoGrant
  BY NoneAssumption DEF Init, DatabaseInit, PaidFor, Paid
<1>2. \A s \in Session : session[s] = NoSession
  BY DEF Init, DatabaseInit
<1>3. FreeTTL \in Nat
  BY ParamAssumption DEF ParamAssumption
<1> QED
  BY <1>1, <1>2, <1>3, FS_EmptySet DEF PaidInv, Counted, NoGrant, NoSession

LEMMA PaidInvariant == Spec => []PaidInv
<1>1. PaidInv /\ UNCHANGED vars => PaidInv'
  BY DEF PaidInv, Counted, Bound, PaidFor, Paid, vars, dbVars
<1> QED
  BY <1>1, PaidInitially, PaidStep, InvariantHolds, LimitInvariant, PTL DEF Spec

(* A free session is active, or outlives its provisioning window, only if  *)
(* a grant bound to it was consumed for the ads AdMob confirmed            *)
(* (recordVerifiedReward, verifyAdReward).                                 *)
THEOREM FreeAccessCosts == Spec => []FreeAccessIsPaid
<1>1. IInv /\ PaidInv => FreeAccessIsPaid
  <2> SUFFICES ASSUME IInv, PaidInv, NEW s \in Session, session[s].tier = "free",
                      session[s].st = "active" \/ session[s].exp > session[s].born + FreeTTL
               PROVE  \E g \in Grant :
                        /\ grant[g].st = "consumed" /\ grant[g].sess = s /\ grant[g].minutes > 0
                        /\ Cardinality({t \in Txn : reward[t] = g}) >= AdsNeeded
    BY DEF FreeAccessIsPaid
  <2>1. PICK g \in Grant : Bound(s, g)
    BY DEF PaidInv
  <2>2. /\ Counted(g) /\ AdsNeeded \in Nat /\ grant[g].got \in Nat /\ grant[g].need \in Nat
    BY ParamAssumption DEF PaidInv, ParamAssumption, IInv, TypeOK, DatabaseType, GrantRow
  <2> DEFINE n == Cardinality(PaidFor(g))
  <2>3. n = Cardinality({t \in Txn : reward[t] = g}) /\ n \in Nat
    BY <2>2, FS_CardinalityType DEF PaidFor, Paid, Counted
  <2>4. n >= grant[g].got /\ grant[g].got >= grant[g].need /\ grant[g].need = AdsNeeded
    BY <2>1, <2>2 DEF Counted, Bound
  <2> HIDE DEF n
  <2>5. n >= AdsNeeded
    BY <2>2, <2>3, <2>4
  <2> QED
    BY <2>1, <2>3, <2>5 DEF Bound
<1> QED
  BY <1>1, InvariantHolds, PaidInvariant, PTL
=============================================================================
