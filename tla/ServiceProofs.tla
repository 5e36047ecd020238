----------------------------- MODULE ServiceProofs -----------------------------
(***************************************************************************)
(* The outbox and the panel calls never hurt a live session: a cleanup row *)
(* is settled once, and the user of a session that connect has answered    *)
(* stays enabled for as long as the session lives.                         *)
(***************************************************************************)
EXTENDS ContractProofs

Harm == {"disable", "delete"}
Displacing == {"displacing", "disabled", "deleted"}
Over == {"failed_op", "error", "cut"}

(* A row is named after its session, or is the extension of its grant.     *)
NamedRows ==
  /\ \A s \in Session : \A o \in Cleanup(s) :
       Exists(o) => op[o].of = s /\ op[o].kind \in {"revoke_user", "delete_user"}
  /\ \A g \in Grant : Exists(Extend(g)) => op[Extend(g)].kind = "extend_user"

\* failSession enqueues its row once.
FailsOnce == \A s \in Session : Exists(Fail(s)) => conn[s].pc \in Over

\* Whoever takes a user down, or will, does it to one of a closed session.
HarmsClosed == \A c \in limbo : c.do \in Harm => IsClosed(c.who)

Doomed(s) ==
  conn[s].pc \in Displacing =>
    /\ \A v \in conn[s].todo : IsClosed(v)
    /\ conn[s].pc # "displacing" => IsClosed(conn[s].cur)

Served(s) ==
  /\ ~IsClosed(s) => panel[s].st # "disabled"
  /\ ~IsClosed(s) /\ conn[s].pc \in {"created", "done"} => panel[s].st = "active"

ServedInv ==
  /\ NamedRows /\ FailsOnce /\ HarmsClosed
  /\ \A s \in Session : Doomed(s) /\ Served(s)

-----------------------------------------------------------------------------
(* What a step does to a row of the outbox.                                *)

(* It moves on, and not once it has settled, save for an extension, whose  *)
(* outcome the inline push writes.                                         *)
SucceedsBy(o) ==
  \/ \E w \in Worker : Record(w) /\ drainer[w].cur = o /\ drainer[w].at = "ok"
  \/ \E s \in Session : DisplaceRecord(s) /\ End(conn[s].cur) = o

RowMoves(o) ==
  /\ op'[o].st = "succeeded" => op[o].st = "succeeded" \/ SucceedsBy(o)
  /\ op'[o].kind = op[o].kind /\ op'[o].of = op[o].of /\ op'[o].epoch = op[o].epoch
  /\ Exists(o)' => Exists(o)
  /\ op[o].st \in {"succeeded", "dead"} /\ (\A g \in Grant : o # Extend(g)) => op'[o] = op[o]

RowOfClosing(o) ==
  \E s \in Session, kind \in {"revoke_user", "delete_user"} :
    IsLive(s) /\ o = End(s) /\ op'[o] = NewOp(kind, s, 0)

RowOfFailure(o) ==
  \E s \in Session : FailEnqueue(s) /\ o = Fail(s) /\ op'[o] = NewOp("delete_user", s, 0)

RowOfGrant(o) ==
  \E g \in Grant :
    /\ o = Extend(g) /\ op'[o].kind = "extend_user"
    /\ \/ /\ UNCHANGED <<drainer, conn>>
          /\ \E s \in Session : /\ VerifyAdReward(g, s) /\ grant[g].minutes # 0
                                /\ op'[o] = NewOp("extend_user", s, ExpireEpoch(g, s))
       \/ /\ Exists(o) /\ op'[o].of = op[o].of /\ op'[o].epoch = op[o].epoch
          /\ op'[o].st = "succeeded" => push[g] = "ok"

RowStep(o) == RowMoves(o) \/ RowOfClosing(o) \/ RowOfFailure(o) \/ RowOfGrant(o)

LEMMA SameRow ==
  ASSUME NEW o \in OpId, op'[o] = op[o]
  PROVE  RowStep(o)
BY DEF RowStep, RowMoves, Exists

LEMMA EnqueueRow ==
  ASSUME IInv, NEW S \in SUBSET Session, \A s \in S : IsLive(s),
         NEW kind \in {"revoke_user", "delete_user"}, op' = EnqueueEnd(S, kind), NEW o \in OpId
  PROVE  RowStep(o)
<1>1. kind \in OpKind
  BY DEF OpKind
<1>2. CASE \E s \in S : o = End(s)
  <2>1. PICK s \in S : o = End(s)
    BY <1>2
  <2>2. op'[o] = NewOp(kind, s, 0)
    BY <1>1, <2>1, EnqueueFacts DEF IInv
  <2> QED
    BY <2>1, <2>2 DEF RowStep, RowOfClosing
<1>3. CASE \A s \in S : o # End(s)
  BY <1>1, <1>3, EnqueueFacts, SameRow DEF IInv
<1> QED
  BY <1>2, <1>3

LEMMA DrainerRow ==
  ASSUME IInv, NEW w \in Worker, DrainerNext(w), NEW o \in OpId
  PROVE  RowStep(o)
<1>0. op \in [OpId -> OpRow] /\ drainer \in [Worker -> Tick_]
  BY DEF IInv, TypeOK, DatabaseType, DrainerType
<1>1. CASE Claim(w)
  <2>1. PICK S \in SUBSET Claimable :
          op' = [x \in OpId |-> IF x \in S
                  THEN [op[x] EXCEPT !.st = "in_flight", !.tries = @ + 1, !.due = FALSE] ELSE op[x]]
    BY <1>1 DEF Claim
  <2>2. CASE o \in S
    <3>1. op[o] \in OpRow /\ op[o].st \in {"pending", "failed", "in_flight"}
      BY <1>0, <2>2 DEF Claimable
    <3>2. op'[o] = [op[o] EXCEPT !.st = "in_flight", !.tries = @ + 1, !.due = FALSE]
      BY <2>1, <2>2
    <3>3. op'[o].kind = op[o].kind /\ op'[o].of = op[o].of
           /\ op'[o].epoch = op[o].epoch /\ op'[o].st = "in_flight"
      BY <3>1, <3>2 DEF OpRow
    <3> QED
      BY <3>1, <3>3 DEF RowStep, RowMoves, Exists
  <2>3. CASE o \notin S
    BY <2>1, <2>3, SameRow
  <2> QED
    BY <2>2, <2>3
<1>2. CASE Record(w)
  <2> DEFINE x == drainer[w].cur
  <2> DEFINE st == Outcome(drainer[w].at, drainer[w].got[x])
  <2>1. \/ op' = op
        \/ op[x].st = "in_flight" /\ op' = [op EXCEPT ![x].st = st, ![x].due = FALSE]
    BY <1>2 DEF Record, StillInFlight
  <2>4. st = "succeeded" => drainer[w].at = "ok"
    BY DEF Outcome
  <2> HIDE DEF st
  <2>2. CASE o # x \/ op' = op
    BY <1>0, <2>1, <2>2, SameRow
  <2>3. CASE o = x /\ op' # op
    <3>1. op' = [op EXCEPT ![o].st = st, ![o].due = FALSE]
      BY <2>1, <2>3
    <3>2. op'[o].kind = op[o].kind /\ op'[o].of = op[o].of
           /\ op'[o].epoch = op[o].epoch /\ op'[o].st = st
      BY <1>0, <3>1 DEF OpRow
    <3>3. op'[o].st = "succeeded" => SucceedsBy(o)
      BY <1>2, <2>3, <2>4, <3>2 DEF SucceedsBy
    <3> QED
      BY <2>1, <2>3, <3>2, <3>3 DEF RowStep, RowMoves, Exists
  <2> QED
    BY <2>2, <2>3
<1>3. CASE ~Claim(w) /\ ~Record(w)
  <2>1. op' = op
    BY <1>3 DEF DrainerNext, Dispatch, DispatchSecond, DrainerCrash, dbVars
  <2> QED
    BY <2>1, SameRow
<1> QED
  BY <1>1, <1>2, <1>3

LEMMA RequestRow ==
  ASSUME IInv, NEW s \in Session, ConnNext(s), NEW o \in OpId
  PROVE  RowStep(o)
<1>0. op \in [OpId -> OpRow]
  BY DEF IInv, TypeOK, DatabaseType
<1>1. CASE Admit(s)
  <2>1. PICK V \in SUBSET LiveOf(UserOf[s]) : op' = EnqueueEnd(V, "revoke_user")
    BY <1>1 DEF Admit
  <2>2. V \in SUBSET Session /\ \A v \in V : IsLive(v)
    BY DEF LiveOf
  <2> QED
    BY <2>1, <2>2, EnqueueRow
<1>2. CASE FailEnqueue(s)
  <2>1. op' = [op EXCEPT ![Fail(s)] = NewOp("delete_user", s, 0)]
    BY <1>2 DEF FailEnqueue
  <2>2. CASE o = Fail(s)
    <3>1. op'[o] = NewOp("delete_user", s, 0)
      BY <1>0, <2>1, <2>2
    <3> QED
      BY <1>2, <2>2, <3>1 DEF RowStep, RowOfFailure
  <2>3. CASE o # Fail(s)
    BY <1>0, <2>1, <2>3, SameRow
  <2> QED
    BY <2>2, <2>3
<1>3. CASE DisplaceRecord(s)
  <2> DEFINE x == End(conn[s].cur)
  <2>1. \/ op' = op
        \/ op[x].st = "pending" /\ op' = [op EXCEPT ![x].st = "succeeded", ![x].due = FALSE]
    BY <1>3 DEF DisplaceRecord
  <2> HIDE DEF x
  <2>2. CASE o # x \/ op' = op
    BY <1>0, <2>1, <2>2, SameRow
  <2>3. CASE o = x /\ op' # op
    <3>1. op' = [op EXCEPT ![o].st = "succeeded", ![o].due = FALSE] /\ op[o].st = "pending"
      BY <2>1, <2>3
    <3>2. op'[o].kind = op[o].kind /\ op'[o].of = op[o].of /\ op'[o].epoch = op[o].epoch
      BY <1>0, <3>1 DEF OpRow
    <3>3. SucceedsBy(o)
      BY <1>3, <2>3 DEF SucceedsBy, x
    <3> QED
      BY <3>1, <3>2, <3>3 DEF RowStep, RowMoves, Exists
  <2> QED
    BY <2>2, <2>3
<1>4. CASE ~Admit(s) /\ ~FailEnqueue(s) /\ ~DisplaceRecord(s)
  <2>1. op' = op
    BY <1>4 DEF ConnNext, AttestedGuard, ResolveTierAndExpiry, Refuse, Displace, DisplaceDelete,
       CreateUser, CheckUser, FailSession, FailPenalise, ConnCrash, dbVars
  <2> QED
    BY <2>1, SameRow
<1> QED
  BY <1>1, <1>2, <1>3, <1>4

LEMMA RewardRow ==
  ASSUME IInv, ServedInv, AdNext, UNCHANGED <<drainer, conn>>, NEW o \in OpId
  PROVE  RowStep(o)
<1>0. op \in [OpId -> OpRow]
  BY DEF IInv, TypeOK, DatabaseType
<1>1. ASSUME NEW g \in Grant, NEW s \in Session, VerifyAdReward(g, s) PROVE RowStep(o)
  <2>1. \/ op' = op
        \/ grant[g].minutes # 0 /\ op' = [op EXCEPT ![Extend(g)] = NewOp("extend_user", s, ExpireEpoch(g, s))]
    BY <1>1 DEF VerifyAdReward
  <2>2. CASE o = Extend(g) /\ op' # op
    <3>1. op'[o] = NewOp("extend_user", s, ExpireEpoch(g, s))
      BY <1>0, <2>1, <2>2
    <3>2. op'[o].kind = "extend_user"
      BY <3>1 DEF NewOp
    <3> QED
      BY <1>1, <2>1, <2>2, <3>1, <3>2 DEF RowStep, RowOfGrant
  <2>3. CASE o # Extend(g) \/ op' = op
    BY <1>0, <2>1, <2>3, SameRow
  <2> QED
    BY <2>2, <2>3
<1>2. ASSUME NEW g \in Grant, PushRecord(g) PROVE RowStep(o)
  <2>1. op' = [op EXCEPT ![Extend(g)].st = PushOutcome(push[g]), ![Extend(g)].due = FALSE]
    BY <1>2 DEF PushRecord
  <2>2. CASE o = Extend(g)
    <3>1. Exists(o) /\ op[o].kind = "extend_user"
      BY <1>2, <2>2 DEF PushRecord, IInv, WorkInProgress, PushesExist, ServedInv, NamedRows
    <3>2. op'[o].kind = op[o].kind /\ op'[o].of = op[o].of
           /\ op'[o].epoch = op[o].epoch /\ op'[o].st = PushOutcome(push[g])
      BY <1>0, <2>1, <2>2 DEF OpRow
    <3> QED
      BY <2>2, <3>1, <3>2 DEF RowStep, RowOfGrant, PushOutcome
  <2>3. CASE o # Extend(g)
    BY <1>0, <2>1, <2>3, SameRow
  <2> QED
    BY <2>2, <2>3
<1>3. \A u, s : RequestAdToken(u, s) => op' = op
  BY DEF RequestAdToken
<1>4. \A t, g : RecordVerifiedReward(t, g) => op' = op
  BY DEF RecordVerifiedReward
<1>5. \A g : PushExpiry(g) \/ PushReadBack(g) \/ PushCrash(g) => op' = op
  BY DEF PushExpiry, PushReadBack, PushCrash, dbVars
<1> QED
  BY <1>1, <1>2, <1>3, <1>4, <1>5, SameRow DEF AdNext

LEMMA CommandRow ==
  ASSUME IInv, AdminStep, NEW o \in OpId
  PROVE  RowStep(o)
<1>1. ASSUME NEW S \in SUBSET Session, \A s \in S : IsLive(s), RevokeAll(S) PROVE RowStep(o)
  BY <1>1, EnqueueRow DEF RevokeAll
<1>2. ASSUME NEW u \in User, NEW ban, NEW tier, MutateUser(u, ban, tier) PROVE RowStep(o)
  <2>1. LiveOf(u) \in SUBSET Session /\ \A s \in LiveOf(u) : IsLive(s)
    BY DEF LiveOf
  <2>2. op' = op \/ RevokeAll(LiveOf(u))
    BY <1>2 DEF MutateUser
  <2> QED
    BY <1>1, <2>1, <2>2, SameRow
<1>3. ASSUME NEW s \in Session, KickSession(s) PROVE RowStep(o)
  BY <1>1, <1>3 DEF KickSession
<1>4. ASSUME PanicRevokeFreeSessions PROVE RowStep(o)
  <2> DEFINE S == {s \in Session : IsLive(s) /\ session[s].tier = "free"}
  <2>1. S \in SUBSET Session /\ (\A s \in S : IsLive(s)) /\ RevokeAll(S)
    BY <1>4 DEF PanicRevokeFreeSessions
  <2> HIDE DEF S
  <2> QED
    BY <1>1, <2>1
<1>5. ASSUME NEW n \in Node, ForceMigrateNode(n) PROVE RowStep(o)
  <2> DEFINE S == {s \in Session : IsLive(s) /\ session[s].node = n}
  <2>1. S \in SUBSET Session /\ (\A s \in S : IsLive(s)) /\ RevokeAll(S)
    BY <1>5 DEF ForceMigrateNode
  <2> HIDE DEF S
  <2> QED
    BY <1>1, <2>1
<1>6. \A n, b : SetNodeActive(n, b) \/ NodeSync(n, b) => op' = op
  BY DEF SetNodeActive, NodeSync
<1> QED
  BY <1>2, <1>3, <1>4, <1>5, <1>6, SameRow DEF AdminStep, AdminNext

LEMMA RowSteps ==
  ASSUME IInv, ServedInv, Next, NEW o \in OpId
  PROVE  RowStep(o)
<1>0. op \in [OpId -> OpRow]
  BY DEF IInv, TypeOK, DatabaseType
<1>1. CASE ReapStep
  <2>1. PICK S \in SUBSET Overdue : op' = EnqueueEnd(S, "delete_user")
    BY <1>1 DEF ReapStep, Reap
  <2>2. S \in SUBSET Session /\ \A s \in S : IsLive(s)
    BY DEF Overdue
  <2> QED
    BY <2>1, <2>2, EnqueueRow
<1>2. CASE TimeStep
  <2>1. op' = op \/ \E x \in OpId : op[x].st \in {"in_flight", "failed"} /\ op' = [op EXCEPT ![x].due = TRUE]
    BY <1>2 DEF TimeStep, Tick, Elapse
  <2>2. PICK x \in OpId : op' = op \/ (op[x].st \in {"in_flight", "failed"} /\ op' = [op EXCEPT ![x].due = TRUE])
    BY <2>1
  <2>3. CASE o # x \/ op' = op
    BY <1>0, <2>2, <2>3, SameRow
  <2>4. CASE o = x /\ op' # op
    <3>1. op'[o].kind = op[o].kind /\ op'[o].of = op[o].of
           /\ op'[o].epoch = op[o].epoch /\ op'[o].st = op[o].st
      BY <1>0, <2>2, <2>4 DEF OpRow
    <3> QED
      BY <2>2, <2>4, <3>1 DEF RowStep, RowMoves, Exists
  <2> QED
    BY <2>3, <2>4
<1>3. CASE LandStep
  BY <1>3, SameRow DEF LandStep, Land, dbVars
<1> QED
  BY <1>1, <1>2, <1>3, RequestRow, RewardRow, DrainerRow, CommandRow
     DEF Next, ConnectStep, AdStep, DrainStep

-----------------------------------------------------------------------------
(* How a request moves once it has its session.                            *)

RequestStep(s) ==
  /\ conn[s].pc \in Over => conn'[s].pc \in Over
  /\ FailEnqueue(s) => conn'[s].pc \in Over
  /\ conn'[s].pc \in Displacing =>
       \/ Admit(s)
       \/ /\ conn[s].pc \in Displacing /\ conn'[s].todo \subseteq conn[s].todo
          /\ conn'[s].pc # "displacing" =>
               \/ conn'[s].cur \in conn[s].todo
               \/ conn[s].pc # "displacing" /\ conn'[s].cur = conn[s].cur
  /\ conn'[s].pc \in {"created", "done"} =>
       conn[s].pc \in {"created", "done"} \/ (CreateUser(s) /\ conn'[s].pc = "created")
  /\ conn'[s].pc = "deleted" =>
       /\ conn'[s].cur = conn[s].cur
       /\ conn[s].pc = "deleted" \/ (DisplaceDelete(s) /\ conn[s].pc = "disabled")
  /\ conn[s].pc \in {"failed_row", "cut"} => conn'[s].pc \in {"failed_row", "cut"} \/ FailEnqueue(s)

LEMMA RequestSteps ==
  ASSUME IInv, Next, NEW s \in Session
  PROVE  RequestStep(s)
<1>0. conn \in [Session -> ConnRow]
  BY DEF IInv, TypeOK, ConnType
<1>1. CASE conn'[s] = conn[s] /\ ~FailEnqueue(s)
  BY <1>1 DEF RequestStep, Displacing
<1>2. CASE \E x \in Session : ConnNext(x)
  <2>1. PICK x \in Session : ConnNext(x)
    BY <1>2
  <2>2. CASE x # s
    <3>1. conn'[s] = conn[s]
      <4>1. ASSUME NEW v \in Session, Displace(x, v) PROVE conn'[s] = conn[s]
        BY <1>0, <2>2, <4>1 DEF Displace
      <4> QED
        BY <1>0, <2>1, <2>2, <4>1 DEF ConnNext, AttestedGuard, ResolveTierAndExpiry, Admit, Refuse,
           DisplaceDelete, DisplaceRecord, CreateUser, CheckUser, FailSession, FailEnqueue,
           FailPenalise, ConnCrash, Goto
    <3>2. FailEnqueue(s) => conn'[s].pc = "failed_op"
      BY <1>0 DEF FailEnqueue, Goto, ConnRow
    <3>3. FailEnqueue(s) => conn[s].pc = "failed_row"
      BY DEF FailEnqueue, At
    <3> QED
      BY <1>1, <3>1, <3>2, <3>3
  <2>3. CASE x = s
    <3>1. ASSUME NEW to, Goto(s, to)
          PROVE  conn'[s].pc = to /\ conn'[s].todo = conn[s].todo /\ conn'[s].cur = conn[s].cur
      BY <1>0, <3>1 DEF Goto, ConnRow
    <3>2. FailEnqueue(s) => conn'[s].pc = "failed_op"
      BY <3>1 DEF FailEnqueue
    <3>3. CASE AttestedGuard(s) \/ Refuse(s) \/ FailSession(s) \/ FailEnqueue(s) \/ FailPenalise(s)
               \/ ConnCrash(s)
      <4>1. /\ conn'[s].pc \in Over \cup {"guarded", "failed_row"}
            /\ conn[s].pc \in Over => conn'[s].pc \in Over
            /\ FailEnqueue(s) => conn'[s].pc \in Over
            /\ conn[s].pc \in {"failed_row", "cut"} => conn'[s].pc = "cut" \/ FailEnqueue(s)
        BY <3>1, <3>2, <3>3 DEF AttestedGuard, Refuse, FailSession, FailEnqueue, FailPenalise, ConnCrash, At, Over
      <4> QED
        BY <4>1 DEF RequestStep, Displacing, Over
    <3>4. CASE ResolveTierAndExpiry(s)
      <4>1. conn'[s].pc = "planned" /\ conn[s].pc = "guarded"
        BY <1>0, <3>4 DEF ResolveTierAndExpiry, At
      <4> QED
        BY <3>2, <4>1 DEF RequestStep, Displacing, Over
    <3>5. CASE Admit(s)
      <4>1. conn'[s].pc = "displacing" /\ conn[s].pc = "planned"
        BY <1>0, <3>5 DEF Admit, At, ConnRow
      <4> QED
        BY <3>2, <3>5, <4>1 DEF RequestStep, Over
    <3>6. ASSUME NEW v \in Session, Displace(s, v) PROVE RequestStep(s)
      <4>1. PICK r \in Answer :
              conn' = [conn EXCEPT ![s].pc = IF r = "ok" THEN "disabled" ELSE "displacing",
                                   ![s].cur = IF r = "ok" THEN v ELSE None, ![s].todo = @ \ {v}]
        BY <3>6 DEF Displace
      <4>2. conn[s].pc = "displacing" /\ v \in conn[s].todo
        BY <3>6 DEF Displace, At
      <4>3. /\ conn'[s].pc = IF r = "ok" THEN "disabled" ELSE "displacing"
            /\ conn'[s].cur = IF r = "ok" THEN v ELSE None
            /\ conn'[s].todo = conn[s].todo \ {v}
        BY <1>0, <4>1 DEF ConnRow
      <4> QED
        BY <3>2, <4>2, <4>3 DEF RequestStep, Displacing, Over
    <3>7. CASE DisplaceDelete(s) \/ DisplaceRecord(s)
      <4>1. conn[s].pc \in {"disabled", "deleted"} /\ \E to \in {"displacing", "deleted"} : Goto(s, to)
        BY <3>7 DEF DisplaceDelete, DisplaceRecord, At
      <4>2. Goto(s, "displacing") \/ (DisplaceDelete(s) /\ conn[s].pc = "disabled")
        BY <3>7 DEF DisplaceDelete, DisplaceRecord, At
      <4> QED
        BY <3>1, <3>2, <4>1, <4>2 DEF RequestStep, Displacing, Over
    <3>8. CASE CreateUser(s) \/ CheckUser(s)
      <4>1. /\ conn[s].pc \in {"displacing", "created"}
            /\ \/ Goto(s, "failing")
               \/ CreateUser(s) /\ Goto(s, "created")
               \/ conn[s].pc = "created" /\ Goto(s, "done")
        BY <3>8 DEF CreateUser, CheckUser, At
      <4> QED
        BY <3>1, <3>2, <4>1 DEF RequestStep, Displacing, Over
    <3> QED
      BY <2>1, <2>3, <3>3, <3>4, <3>5, <3>6, <3>7, <3>8 DEF ConnNext
  <2> QED
    BY <2>2, <2>3
<1>3. CASE UNCHANGED conn
  <2>1. ~FailEnqueue(s)
    BY <1>0, <1>3 DEF FailEnqueue, Goto, At, ConnRow
  <2> QED
    BY <1>1, <1>3, <2>1
<1>4. ConnectStep \/ UNCHANGED conn
  BY DEF Next, AdStep, DrainStep, ReapStep, AdminStep, TimeStep, LandStep
<1> QED
  BY <1>2, <1>3, <1>4 DEF ConnectStep

-----------------------------------------------------------------------------
(* What a step does to the panel.                                          *)

\* A user that is not there, or was created too late.
Gone(s) == panel[s].st = "absent" \/ s \in late

(* It abandons no call that may hurt a live session, and hurts none; and   *)
(* a user once gone is created again only to be recorded as late.          *)
Gentle ==
  /\ \A c \in limbo' : c \in limbo \/ (c.do \in Harm => IsClosed(c.who))
  /\ \A s \in Session : ~IsClosed(s) =>
       /\ panel[s].st # "disabled" => panel'[s].st # "disabled"
       /\ panel[s].st = "active" => panel'[s].st = "active"
  /\ \A s \in Session : IsClosed(s) /\ Gone(s) => Gone(s)'

LEMMA SamePanelGentle == UNCHANGED <<panel, limbo, late>> => Gentle
BY DEF Gentle, Gone

LEMMA ApplyGentle ==
  ASSUME TypeOK, NEW c \in Call, c.do \in Harm => IsClosed(c.who), Apply(c), limbo' \subseteq limbo
  PROVE  Gentle
<1> DEFINE u == panel[c.who]
<1>1. /\ c.who \in Session /\ u \in PanelUser
      /\ panel' = [panel EXCEPT ![c.who] = Applied(c, u)]
  BY DEF Call, TypeOK, PanelType, Apply
<1>2. c.do \notin Harm => /\ Applied(c, u).st = "disabled" => u.st = "disabled"
                          /\ u.st = "active" => Applied(c, u).st = "active"
  <2> SUFFICES ASSUME c.do \notin Harm
               PROVE  /\ Applied(c, u).st = "disabled" => u.st = "disabled"
                      /\ u.st = "active" => Applied(c, u).st = "active"
    OBVIOUS
  <2>1. c.do \in {"create", "expiry"}
    BY DEF Call, Harm
  <2>2. CASE c.do = "create"
    BY <2>2 DEF Applied
  <2>3. CASE c.do = "expiry"
    BY <2>3 DEF Applied, AfterExpiry
  <2> QED
    BY <2>1, <2>2, <2>3
<1>3. /\ panel'[c.who] = Applied(c, u)
      /\ \A s \in Session : s # c.who => panel'[s] = panel[s]
  BY <1>1 DEF TypeOK, PanelType
<1>4. ASSUME NEW s \in Session, IsClosed(s), Gone(s) PROVE Gone(s)'
  <2>1. s \in late => s \in late'
    BY DEF Apply
  <2>2. CASE s = c.who /\ u.st = "absent"
    <3>1. CASE c.do = "create"
      BY <1>4, <2>2, <3>1 DEF Apply, Gone, IsClosed, IsLive, Closed, Live
    <3>2. CASE c.do # "create"
      BY <1>3, <2>2, <3>2 DEF Applied, Gone, Absent
    <3> QED
      BY <3>1, <3>2
  <2> QED
    BY <1>3, <1>4, <2>1, <2>2 DEF Gone
<1> QED
  BY <1>1, <1>2, <1>3, <1>4 DEF Gentle

LEMMA CallGentle ==
  ASSUME TypeOK, NEW c \in Call, c.do \in Harm => IsClosed(c.who), NEW r, PanelCall(c, r)
  PROVE  Gentle
<1>1. CASE Apply(c) /\ UNCHANGED limbo
  BY <1>1, ApplyGentle
<1>2. CASE UNCHANGED panelVars
  BY <1>2, SamePanelGentle DEF panelVars
<1>3. CASE limbo' = limbo \cup {c} /\ UNCHANGED <<panel, late>>
  BY <1>3 DEF Gentle, Gone
<1> QED
  BY <1>1, <1>2, <1>3 DEF PanelCall

(* A row asks for harm only to a closed session.                           *)
LEMMA RowHarmsClosed ==
  ASSUME IInv, ServedInv, NEW o \in OpId, Exists(o), op[o].kind # "extend_user"
  PROVE  op[o].of \in Session /\ IsClosed(op[o].of)
<1>1. op[o].of \in Session
  BY DEF IInv, RowsBounded
<1>2. \E s \in Session : o \in Cleanup(s)
  <2>1. \A g \in Grant : o # Extend(g)
    BY DEF ServedInv, NamedRows
  <2> QED
    BY <2>1 DEF OpId, Extend, Cleanup, End, Fail
<1>3. PICK s \in Session : o \in Cleanup(s)
  BY <1>2
<1>4. op[o].of = s /\ IsClosed(s)
  BY <1>3 DEF ServedInv, NamedRows, IInv, CleanupMatchesStatus, Exists
<1> QED
  BY <1>1, <1>4

LEMMA RequestCall ==
  ASSUME NEW do \in {"create", "expiry", "disable", "delete"}, NEW s \in Session, NEW exp \in Nat
  PROVE  Request(do, s, exp) \in Call /\ Request(do, s, exp).do = do /\ Request(do, s, exp).who = s
BY DEF Request, Call

LEMMA PanelSteps ==
  ASSUME IInv, ServedInv, Next
  PROVE  Gentle
<1>0. TypeOK
  BY DEF IInv
<1>1. ASSUME NEW o \in OpId, Exists(o), NEW r, PanelCall(CallOf(o), r) PROVE Gentle
  <2>1. CallOf(o) \in Call
    BY <1>1, CallOfBounded
  <2>2. CallOf(o).do \in Harm => op[o].kind # "extend_user" /\ CallOf(o).who = op[o].of
    BY DEF CallOf, Request, Harm
  <2> QED
    BY <1>0, <1>1, <2>1, <2>2, RowHarmsClosed, CallGentle
<1>2. ASSUME NEW s \in Session, ConnNext(s) PROVE Gentle
  <2>1. ASSUME NEW v \in Session, Displace(s, v) PROVE Gentle
    <3>1. IsClosed(v) /\ \E r : PanelCall(Request("disable", v, 0), r)
      BY <2>1 DEF Displace, At, ServedInv, Doomed, Displacing
    <3> QED
      BY <1>0, <3>1, RequestCall, CallGentle
  <2>2. CASE DisplaceDelete(s)
    <3>1. conn[s].cur \in Session /\ IsClosed(conn[s].cur)
      BY <2>2 DEF DisplaceDelete, At, ServedInv, Doomed, Displacing, IInv, WorkInProgress,
                  RequestsPlaced, Placed
    <3>2. \E r : PanelCall(Request("delete", conn[s].cur, 0), r)
      BY <2>2 DEF DisplaceDelete
    <3> QED
      BY <1>0, <3>1, <3>2, RequestCall, CallGentle
  <2>3. CASE CreateUser(s)
    <3>1. conn[s].exp \in Nat /\ \E r : PanelCall(Request("create", s, conn[s].exp), r)
      BY <1>0, <2>3 DEF CreateUser, TypeOK, ConnType, ConnRow
    <3>2. Request("create", s, conn[s].exp).do \notin Harm
      BY DEF Request, Harm
    <3> QED
      BY <1>0, <3>1, <3>2, RequestCall, CallGentle
  <2>4. CASE ~DisplaceDelete(s) /\ ~CreateUser(s) /\ ~\E v \in Session : Displace(s, v)
    <3>1. UNCHANGED panelVars
      BY <1>2, <2>4 DEF ConnNext, AttestedGuard, ResolveTierAndExpiry, Admit, Refuse, DisplaceRecord,
         CheckUser, FailSession, FailEnqueue, FailPenalise, ConnCrash
    <3> QED
      BY <3>1, SamePanelGentle DEF panelVars
  <2> QED
    BY <2>1, <2>2, <2>3, <2>4
<1>3. ASSUME NEW w \in Worker, DrainerNext(w) PROVE Gentle
  <2>1. ASSUME NEW o \in OpId, Dispatch(w, o) PROVE Gentle
    <3>1. Exists(o) /\ \E r : PanelCall(CallOf(o), r)
      BY <2>1 DEF Dispatch, IInv, WorkInProgress, BatchesExist
    <3> QED
      BY <1>1, <3>1
  <2>2. CASE DispatchSecond(w)
    <3> DEFINE o == drainer[w].cur
    <3>1. o \in OpId /\ Exists(o)
      BY <2>2 DEF DispatchSecond, IInv, WorkInProgress, BatchesExist
    <3>2. CASE op[o].kind = "revoke_user"
      <4>1. \E r : PanelCall(Request("delete", op[o].of, 0), r)
        BY <2>2, <3>2 DEF DispatchSecond
      <4>2. op[o].of \in Session /\ IsClosed(op[o].of)
        BY <3>1, <3>2, RowHarmsClosed
      <4> QED
        BY <1>0, <4>1, <4>2, RequestCall, CallGentle
    <3>3. CASE op[o].kind # "revoke_user"
      <4>1. UNCHANGED panelVars
        BY <2>2, <3>3 DEF DispatchSecond
      <4> QED
        BY <4>1, SamePanelGentle DEF panelVars
    <3> QED
      BY <3>2, <3>3
  <2>3. CASE Claim(w) \/ Record(w) \/ DrainerCrash(w)
    BY <2>3, SamePanelGentle DEF Claim, Record, DrainerCrash, panelVars
  <2> QED
    BY <1>3, <2>1, <2>2, <2>3 DEF DrainerNext
<1>4. ASSUME AdNext PROVE Gentle
  <2>1. ASSUME NEW g \in Grant, PushExpiry(g) PROVE Gentle
    <3>1. Extend(g) \in OpId /\ Exists(Extend(g)) /\ \E r : PanelCall(CallOf(Extend(g)), r)
      BY <2>1, IdFacts DEF PushExpiry, IInv, WorkInProgress, PushesExist
    <3> QED
      BY <1>1, <3>1
  <2>2. \A u, s : RequestAdToken(u, s) => UNCHANGED panelVars
    BY DEF RequestAdToken
  <2>3. \A t, g : RecordVerifiedReward(t, g) => UNCHANGED panelVars
    BY DEF RecordVerifiedReward
  <2>4. \A g, s : VerifyAdReward(g, s) => UNCHANGED panelVars
    BY DEF VerifyAdReward
  <2>5. \A g : PushReadBack(g) \/ PushRecord(g) \/ PushCrash(g) => UNCHANGED panelVars
    BY DEF PushReadBack, PushRecord, PushCrash
  <2> QED
    BY <1>4, <2>1, <2>2, <2>3, <2>4, <2>5, SamePanelGentle DEF AdNext, panelVars
<1>5. ASSUME NEW c \in limbo, Land(c) PROVE Gentle
  <2>1. c \in Call /\ (c.do \in Harm => IsClosed(c.who)) /\ limbo' \subseteq limbo
    BY <1>0, <1>5 DEF Land, TypeOK, PanelType, ServedInv, HarmsClosed
  <2>2. CASE Apply(c)
    BY <1>0, <2>1, <2>2, ApplyGentle
  <2>3. CASE UNCHANGED <<panel, late>>
    BY <2>1, <2>3 DEF Gentle, Gone
  <2> QED
    BY <1>5, <2>2, <2>3 DEF Land
<1> QED
  BY <1>2, <1>3, <1>4, <1>5, SamePanelGentle
     DEF Next, ConnectStep, AdStep, DrainStep, ReapStep, AdminStep, TimeStep, LandStep, panelVars

-----------------------------------------------------------------------------
(* The invariant, and what follows from it.                                *)

LEMMA CreatedUser ==
  ASSUME IInv, ServedInv, NEW s \in Session, CreateUser(s), conn'[s].pc = "created", ~IsClosed(s)
  PROVE  panel'[s].st = "active"
<1> DEFINE c == Request("create", s, conn[s].exp)
<1>0. conn \in [Session -> ConnRow] /\ panel \in [Session -> PanelUser]
  BY DEF IInv, TypeOK, ConnType, PanelType
<1>1. PICK r \in Answer : PanelCall(c, r) /\ Goto(s, IF r = "ok" THEN "created" ELSE "failing")
  BY DEF CreateUser
<1>2. r = "ok"
  BY <1>0, <1>1 DEF Goto, ConnRow
<1>3. Apply(c)
  BY <1>1, <1>2 DEF PanelCall
<1>4. panel'[s] = Applied(c, panel[s])
  BY <1>0, <1>3 DEF Apply, Request
<1>5. panel[s].st \in {"absent", "active"}
  BY <1>0 DEF PanelUser, ServedInv, Served
<1> QED
  BY <1>4, <1>5 DEF Applied, Request

LEMMA AdmitDooms ==
  ASSUME IInv, NEW s \in Session, Admit(s)
  PROVE  conn'[s].pc = "displacing" /\ \A v \in conn'[s].todo : IsClosed(v)'
<1>0. PICK V \in SUBSET LiveOf(UserOf[s]) : \E row :
        /\ session' = [CloseAs(V, "revoked") EXCEPT ![s] = row]
        /\ conn' = [conn EXCEPT ![s].pc = "displacing", ![s].todo = V]
  BY DEF Admit
<1>1. PICK row :
        /\ session' = [CloseAs(V, "revoked") EXCEPT ![s] = row]
        /\ conn' = [conn EXCEPT ![s].pc = "displacing", ![s].todo = V]
  BY <1>0
<1>2. conn'[s].pc = "displacing" /\ conn'[s].todo = V
  BY <1>1 DEF IInv, TypeOK, ConnType, ConnRow
<1>3. s \notin V /\ V \subseteq Session
  BY DEF Admit, At, IInv, WorkInProgress, RequestsPlaced, Placed, LiveOf, IsLive, NoSession, Live
<1>4. ASSUME NEW v \in V PROVE session'[v].st = "revoked"
  <2>1. session'[v] = CloseAs(V, "revoked")[v]
    BY <1>1, <1>3 DEF CloseAs
  <2>2. session[v] \in SessionRow
    BY <1>3 DEF IInv, TypeOK, DatabaseType
  <2> QED
    BY <1>3, <2>1, <2>2 DEF CloseAs, SessionRow
<1> QED
  BY <1>2, <1>4 DEF IsClosed, Closed

LEMMA ServedStep == IInv /\ ServedInv /\ Next => ServedInv'
<1> SUFFICES ASSUME IInv, ServedInv, Next PROVE ServedInv'
  OBVIOUS
<1>0. /\ Gentle /\ \A s \in Session : RequestStep(s)
      /\ \A o \in OpId : RowStep(o)
      /\ \A s \in Session : IsClosed(s) => IsClosed(s)'
  BY PanelSteps, RequestSteps, RowSteps, NextInv DEF LedgerStep, ClosedFinal, IsClosed
<1>1. NamedRows'
  <2>1. ASSUME NEW s \in Session, NEW o \in Cleanup(s), op'[o].st # "none"
        PROVE  op'[o].of = s /\ op'[o].kind \in {"revoke_user", "delete_user"}
    <3>1. o \in OpId /\ o \in {End(s), Fail(s)}
      BY IdFacts DEF Cleanup
    <3>2. CASE RowMoves(o)
      BY <2>1, <3>2 DEF RowMoves, Exists, ServedInv, NamedRows
    <3>3. CASE RowOfClosing(o) \/ RowOfFailure(o)
      <4>1. PICK x \in Session, kind \in {"revoke_user", "delete_user"} :
              (o = End(x) \/ o = Fail(x)) /\ op'[o] = NewOp(kind, x, 0)
        BY <3>3 DEF RowOfClosing, RowOfFailure
      <4>2. x = s
        BY <3>1, <4>1, IdFacts DEF Fail
      <4> QED
        BY <4>1, <4>2 DEF NewOp
    <3>4. ~RowOfGrant(o)
      BY <3>1, IdFacts DEF RowOfGrant
    <3> QED
      BY <1>0, <3>1, <3>2, <3>3, <3>4 DEF RowStep
  <2>2. ASSUME NEW g \in Grant, op'[Extend(g)].st # "none" PROVE op'[Extend(g)].kind = "extend_user"
    <3>1. Extend(g) \in OpId /\ ~RowOfClosing(Extend(g)) /\ ~RowOfFailure(Extend(g))
      BY IdFacts DEF RowOfClosing, RowOfFailure
    <3>2. CASE RowMoves(Extend(g))
      BY <2>2, <3>2 DEF RowMoves, Exists, ServedInv, NamedRows
    <3> QED
      BY <1>0, <3>1, <3>2 DEF RowStep, RowOfGrant
  <2>3. \A s \in Session : Cleanup(s)' = Cleanup(s)
    BY DEF Cleanup, End, Fail
  <2> QED
    BY <2>1, <2>2, <2>3 DEF NamedRows, Exists, Extend
<1>2. FailsOnce'
  <2>1. ASSUME NEW s \in Session, op'[Fail(s)].st # "none" PROVE conn'[s].pc \in Over
    <3>1. Fail(s) \in OpId /\ ~RowOfClosing(Fail(s)) /\ ~RowOfGrant(Fail(s))
      BY IdFacts DEF RowOfClosing, RowOfGrant
    <3>2. CASE RowMoves(Fail(s))
      <4>1. Exists(Fail(s))
        BY <2>1, <3>2 DEF RowMoves, Exists
      <4> QED
        BY <1>0, <4>1 DEF ServedInv, FailsOnce, RequestStep
    <3>3. CASE RowOfFailure(Fail(s))
      <4>1. FailEnqueue(s)
        BY <3>3 DEF RowOfFailure, Fail
      <4> QED
        BY <1>0, <4>1 DEF RequestStep
    <3> QED
      BY <1>0, <3>1, <3>2, <3>3 DEF RowStep
  <2> QED
    BY <2>1 DEF FailsOnce, Exists, Fail
<1>3. HarmsClosed'
  <2>1. \A c \in limbo' : c.who \in Session
    BY NextInv DEF IInv, TypeOK, PanelType, Call
  <2> QED
    BY <1>0, <2>1 DEF Gentle, HarmsClosed, ServedInv, IsClosed
<1>4. ASSUME NEW s \in Session PROVE Doomed(s)'
  <2>1. RequestStep(s) /\ Doomed(s)
    BY <1>0 DEF ServedInv
  <2>2. CASE Admit(s)
    BY <2>2, AdmitDooms DEF Doomed, IsClosed
  <2>3. CASE conn'[s].pc \in Displacing /\ ~Admit(s)
    <3>1. /\ conn[s].pc \in Displacing /\ conn'[s].todo \subseteq conn[s].todo
          /\ conn[s].todo \subseteq Session
          /\ conn[s].pc # "displacing" => conn[s].cur \in Session
      BY <2>1, <2>3 DEF RequestStep, Displacing, IInv, TypeOK, ConnType, ConnRow, WorkInProgress,
                        RequestsPlaced, Placed
    <3>2. /\ \A v \in conn[s].todo : IsClosed(v)'
          /\ conn[s].pc # "displacing" => session'[conn[s].cur].st \in Closed
      BY <1>0, <2>1, <3>1 DEF Doomed, IsClosed
    <3>3. \A v \in conn'[s].todo : session'[v].st \in Closed
      BY <3>1, <3>2 DEF IsClosed
    <3>4. conn'[s].pc # "displacing" => session'[conn'[s].cur].st \in Closed
      BY <2>1, <2>3, <3>2 DEF RequestStep, IsClosed
    <3> QED
      BY <3>3, <3>4 DEF Doomed, IsClosed
  <2> QED
    BY <2>2, <2>3 DEF Doomed
<1>5. ASSUME NEW s \in Session PROVE Served(s)'
  <2> SUFFICES ASSUME ~IsClosed(s)'
               PROVE  /\ panel'[s].st # "disabled"
                      /\ conn'[s].pc \in {"created", "done"} => panel'[s].st = "active"
    BY DEF Served
  <2>1. ~IsClosed(s) /\ Served(s) /\ RequestStep(s)
    BY <1>0 DEF ServedInv
  <2>2. panel'[s].st # "disabled"
    BY <1>0, <2>1 DEF Served, Gentle
  <2>3. conn[s].pc \in {"created", "done"} => panel'[s].st = "active"
    BY <1>0, <2>1 DEF Served, Gentle
  <2> QED
    BY <2>1, <2>2, <2>3, CreatedUser DEF RequestStep
<1> QED
  BY <1>1, <1>2, <1>3, <1>4, <1>5 DEF ServedInv

LEMMA ServedInitially == Init => ServedInv
<1> SUFFICES ASSUME Init PROVE ServedInv
  OBVIOUS
<1>1. /\ \A o \in OpId : ~Exists(o)
      /\ limbo = {} /\ \A s \in Session : conn[s].pc = "idle" /\ panel[s].st = "absent"
  BY DEF Init, DatabaseInit, PanelInit, ConnInit, NoConn, Absent, NoOp, Exists
<1> QED
  BY <1>1, IdFacts DEF ServedInv, NamedRows, FailsOnce, HarmsClosed, Doomed, Displacing, Served, Cleanup

LEMMA ServedInvariant == Spec => []ServedInv
<1>1. ServedInv /\ UNCHANGED vars => ServedInv'
  <2> SUFFICES ASSUME ServedInv, UNCHANGED vars PROVE ServedInv'
    OBVIOUS
  <2>1. op' = op /\ conn' = conn /\ limbo' = limbo /\ panel' = panel /\ session' = session
    BY DEF vars, dbVars, panelVars
  <2>2. \A s \in Session : Cleanup(s)' = Cleanup(s) /\ Fail(s)' = Fail(s)
    BY DEF Cleanup, End, Fail
  <2>3. NamedRows' /\ FailsOnce' /\ HarmsClosed'
    BY <2>1, <2>2 DEF ServedInv, NamedRows, FailsOnce, HarmsClosed, Exists, IsClosed, Extend
  <2>4. \A s \in Session : Doomed(s)' /\ Served(s)'
    BY <2>1 DEF ServedInv, Doomed, Served, IsClosed
  <2> QED
    BY <2>3, <2>4 DEF ServedInv
<1> QED
  BY <1>1, ServedInitially, ServedStep, InvariantHolds, PTL DEF Spec

(* No drainer, inline revoke or abandoned call takes down the user of a    *)
(* live session that connect has answered.                                 *)
THEOREM LiveUserIsServed == Spec => []LiveUserServed
<1>1. ServedInv => LiveUserServed
  BY DEF ServedInv, Served, LiveUserServed, IsLive, IsClosed, Live, Closed
<1> QED
  BY <1>1, ServedInvariant, PTL

(* A cleanup row that has succeeded or died is never opened again, by a    *)
(* drainer whose lease lapsed, a second closing or failSession.            *)
THEOREM CleanupIsSettled == Spec => CleanupSettlesOnce
<1> DEFINE Settled == \A s \in Session : \A o \in Cleanup(s) :
                        op[o].st \in {"succeeded", "dead"} => op'[o] = op[o]
<1>1. IInv /\ ServedInv /\ [Next]_vars => [Settled]_vars
  <2> SUFFICES ASSUME IInv, ServedInv, Next, NEW s \in Session, NEW o \in Cleanup(s),
                      op[o].st \in {"succeeded", "dead"}
               PROVE  op'[o] = op[o]
    OBVIOUS
  <2>1. o \in OpId /\ o \in {End(s), Fail(s)} /\ Exists(o)
    BY IdFacts DEF Cleanup, Exists
  <2>2. IsClosed(s)
    BY <2>1 DEF IInv, CleanupMatchesStatus, Exists
  <2>3. ~RowOfClosing(o)
    BY <2>1, <2>2, IdFacts DEF RowOfClosing, IsLive, IsClosed, Live, Closed
  <2>4. ~RowOfFailure(o)
    <3> SUFFICES ASSUME NEW x \in Session, FailEnqueue(x), o = Fail(x) PROVE FALSE
      BY DEF RowOfFailure
    <3>1. conn[x].pc \in Over
      BY <2>1 DEF ServedInv, FailsOnce
    <3> QED
      BY <3>1 DEF FailEnqueue, At, Over
  <2>5. \A g \in Grant : o # Extend(g)
    BY <2>1, IdFacts
  <2> QED
    BY <2>1, <2>3, <2>4, <2>5, RowSteps DEF RowStep, RowMoves, RowOfGrant
<1> QED
  BY <1>1, InvariantHolds, ServedInvariant, PTL DEF Spec, CleanupSettlesOnce

-----------------------------------------------------------------------------
(* The user of a closed session is accounted for.                          *)

(* Whoever believes a user to be gone is right.                            *)
Believed ==
  /\ \A s \in Session : \A o \in Cleanup(s) : op[o].st = "succeeded" => Gone(s)
  /\ \A s \in Session : conn[s].pc = "deleted" => Gone(conn[s].cur)

Carried(w) ==
  drainer[w].at \in {"second", "ok"} /\ op[drainer[w].cur].kind # "extend_user" =>
    IF drainer[w].at = "ok" THEN Gone(op[drainer[w].cur].of)
    ELSE op[drainer[w].cur].kind = "revoke_user"

\* A session that failed has its row, or failSession has not got to it.
Failed(s) ==
  session[s].st = "failed" =>
    Exists(End(s)) \/ Exists(Fail(s)) \/ conn[s].pc \in {"failed_row", "cut"}

AccountedInv ==
  /\ Believed
  /\ \A w \in Worker : Carried(w)
  /\ \A s \in Session : Failed(s)

(* What a row asks for does not change.                                    *)
LEMMA RowKeeps ==
  ASSUME IInv, ServedInv, Next, NEW o \in OpId, Exists(o)
  PROVE  op'[o].kind = op[o].kind /\ (op[o].kind # "extend_user" => op'[o].of = op[o].of)
<1>1. CASE RowMoves(o)
  BY <1>1 DEF RowMoves
<1>2. ~RowOfClosing(o)
  <2> SUFFICES ASSUME NEW s \in Session, IsLive(s), o = End(s) PROVE FALSE
    BY DEF RowOfClosing
  <2>1. IsClosed(s)
    BY DEF IInv, CleanupMatchesStatus, Exists, Cleanup
  <2> QED
    BY <2>1 DEF IsLive, IsClosed, Live, Closed
<1>3. ~RowOfFailure(o)
  <2> SUFFICES ASSUME NEW s \in Session, FailEnqueue(s), o = Fail(s) PROVE FALSE
    BY DEF RowOfFailure
  <2>1. conn[s].pc \in Over
    BY DEF ServedInv, FailsOnce
  <2> QED
    BY <2>1 DEF FailEnqueue, At, Over
<1>4. CASE RowOfGrant(o)
  BY <1>4 DEF RowOfGrant, ServedInv, NamedRows
<1> QED
  BY <1>1, <1>2, <1>3, <1>4, RowSteps DEF RowStep

(* A delete that is answered with success has taken effect.                *)
LEMMA DeleteTakesEffect ==
  ASSUME TypeOK, NEW s \in Session, NEW n, PanelCall(Request("delete", s, n), "ok")
  PROVE  panel'[s].st = "absent"
<1>1. Apply(Request("delete", s, n))
  BY DEF PanelCall
<1>2. panel' = [panel EXCEPT ![s] = Absent]
  BY <1>1 DEF Apply, Applied, Request
<1> QED
  BY <1>2 DEF TypeOK, PanelType, Absent

(* A tick that is not calling the panel knows of no success.               *)
LEMMA NotTold ==
  ASSUME IInv, NEW w \in Worker, Claim(w) \/ Record(w) \/ DrainerCrash(w)
  PROVE  drainer'[w].at = "first"
<1>0. drainer \in [Worker -> Tick_]
  BY DEF IInv, TypeOK, DrainerType
<1>1. CASE Claim(w)
  <2>1. PICK S \in SUBSET Claimable :
          drainer' = [drainer EXCEPT ![w].got = [o \in OpId |-> IF o \in S THEN op[o].tries + 1 ELSE 0]]
    BY <1>1 DEF Claim
  <2>2. drainer[w].at = "first"
    <3>1. drainer[w] = Between
      BY <1>1 DEF Claim
    <3> QED
      BY <3>1 DEF Between
  <2> DEFINE got == [o \in OpId |-> IF o \in S THEN op[o].tries + 1 ELSE 0]
  <2>3. drainer' = [drainer EXCEPT ![w].got = got]
    BY <2>1
  <2> HIDE DEF got
  <2> QED
    BY <1>0, <2>2, <2>3 DEF Tick_
<1>2. CASE Record(w) \/ DrainerCrash(w)
  BY <1>0, <1>2 DEF Record, DrainerCrash, Between
<1> QED
  BY <1>1, <1>2

LEMMA CarriedStep ==
  ASSUME IInv, ServedInv, AccountedInv, Next, NEW w \in Worker
  PROVE  Carried(w)'
<1>0. TypeOK /\ drainer \in [Worker -> Tick_]
  BY DEF IInv, TypeOK, DrainerType
<1>1. ASSUME UNCHANGED drainer[w] PROVE Carried(w)'
  <2> SUFFICES ASSUME drainer[w].at \in {"second", "ok"},
                      op'[drainer[w].cur].kind # "extend_user"
               PROVE  IF drainer[w].at = "ok" THEN panel'[op'[drainer[w].cur].of].st = "absent"
                                                   \/ op'[drainer[w].cur].of \in late'
                      ELSE op'[drainer[w].cur].kind = "revoke_user"
    BY <1>1 DEF Carried, Gone
  <2> DEFINE o == drainer[w].cur
  <2>1. o \in OpId /\ Exists(o)
    BY DEF IInv, WorkInProgress, BatchesExist
  <2>2. op'[o].kind = op[o].kind /\ op'[o].of = op[o].of /\ op[o].kind # "extend_user"
    BY <2>1, RowKeeps
  <2>3. op[o].of \in Session /\ IsClosed(op[o].of)
    BY <2>1, <2>2, RowHarmsClosed
  <2>4. Carried(w) /\ Gentle
    BY PanelSteps DEF AccountedInv
  <2> QED
    BY <2>2, <2>3, <2>4 DEF Carried, Gentle, Gone
<1>2. ASSUME NEW o \in OpId, Dispatch(w, o) PROVE Carried(w)'
  <2>1. PICK r \in Answer :
          /\ PanelCall(CallOf(o), r)
          /\ drainer' = [drainer EXCEPT ![w].cur = o,
               ![w].at = IF r = "ok" /\ TwoCalls(op[o].kind) THEN "second" ELSE r]
    BY <1>2 DEF Dispatch
  <2>2. /\ drainer'[w].cur = o /\ op' = op
        /\ drainer'[w].at = IF r = "ok" /\ TwoCalls(op[o].kind) THEN "second" ELSE r
    BY <1>0, <1>2, <2>1 DEF Tick_, Dispatch, dbVars
  <2>3. Exists(o)
    BY <1>2 DEF Dispatch, IInv, WorkInProgress, BatchesExist
  <2>4. CASE op[o].kind = "delete_user" /\ r = "ok"
    <3>1. op[o].of \in Session
      BY <2>3, <2>4, RowHarmsClosed
    <3>2. CallOf(o) = Request("delete", op[o].of, op[o].epoch)
      BY <2>4 DEF CallOf
    <3>3. panel'[op[o].of].st = "absent"
      BY <1>0, <2>1, <2>4, <3>1, <3>2, DeleteTakesEffect
    <3>4. ~TwoCalls(op[o].kind)
      BY <2>4 DEF TwoCalls
    <3> QED
      BY <2>2, <2>4, <3>3, <3>4 DEF Carried, Gone
  <2>5. CASE op[o].kind = "revoke_user"
    <3>1. TwoCalls(op[o].kind)
      BY <2>5 DEF TwoCalls
    <3> QED
      BY <2>2, <2>5, <3>1 DEF Carried
  <2>6. CASE r # "ok"
    BY <2>2, <2>6 DEF Carried, Answer
  <2>7. op[o].kind \in OpKind
    BY <1>0 DEF TypeOK, DatabaseType, OpRow
  <2> QED
    BY <2>2, <2>4, <2>5, <2>6, <2>7 DEF OpKind, Carried
<1>3. CASE DispatchSecond(w)
  <2> DEFINE o == drainer[w].cur
  <2>1. o \in OpId /\ Exists(o) /\ drainer[w].at = "second" /\ op' = op
    BY <1>3 DEF DispatchSecond, IInv, WorkInProgress, BatchesExist, dbVars
  <2>2. PICK r \in Answer :
          /\ op[o].kind = "revoke_user" => PanelCall(Request("delete", op[o].of, 0), r)
          /\ drainer' = [drainer EXCEPT ![w].at = r]
    BY <1>3 DEF DispatchSecond
  <2>3. drainer'[w].cur = o /\ drainer'[w].at = r
    BY <1>0, <2>2 DEF Tick_
  <2>4. CASE op[o].kind = "extend_user" \/ r # "ok"
    BY <2>1, <2>3, <2>4 DEF Carried, Answer
  <2>5. CASE op[o].kind # "extend_user" /\ r = "ok"
    <3>1. op[o].kind = "revoke_user"
      BY <2>1, <2>5 DEF AccountedInv, Carried
    <3>2. op[o].of \in Session
      BY <2>1, <2>5, RowHarmsClosed
    <3>3. panel'[op[o].of].st = "absent"
      BY <1>0, <2>2, <2>5, <3>1, <3>2, DeleteTakesEffect
    <3> QED
      BY <2>1, <2>3, <2>5, <3>3 DEF Carried, Gone
  <2> QED
    BY <2>4, <2>5
<1>4. CASE Claim(w) \/ Record(w) \/ DrainerCrash(w)
  <2>1. drainer'[w].at = "first"
    BY <1>4, NotTold
  <2> QED
    BY <2>1 DEF Carried
<1>5. ASSUME NEW x \in Worker, x # w, DrainerNext(x) PROVE UNCHANGED drainer[w]
  BY <1>0, <1>5 DEF DrainerNext, Claim, Dispatch, DispatchSecond, Record, DrainerCrash
<1>6. UNCHANGED drainer \/ \E x \in Worker : DrainerNext(x)
  BY DEF Next, ConnectStep, AdStep, DrainStep, ReapStep, AdminStep, TimeStep, LandStep
<1> QED
  BY <1>1, <1>2, <1>3, <1>4, <1>5, <1>6 DEF DrainerNext

(* Only failSession fails a session.                                       *)
LEMMA OnlyFailSession ==
  ASSUME IInv, LimitInv, Next, NEW s \in Session, session'[s].st = "failed", session[s].st # "failed"
  PROVE  FailSession(s)
<1>0. session \in [Session -> SessionRow]
  BY DEF IInv, TypeOK, DatabaseType
<1>1. ASSUME NEW S \in SUBSET Session, Closing(S) PROVE FailSession(s)
  <2>1. PICK st \in Closed : /\ session' = CloseAs(S, st)
                             /\ \A x \in S : IF st = "failed" THEN FailSession(x) ELSE IsLive(x)
    BY <1>1 DEF Closing
  <2>2. s \in S /\ session'[s] = [session[s] EXCEPT !.st = st]
    BY <1>0, <2>1 DEF CloseAs
  <2>3. st = "failed"
    BY <1>0, <2>2 DEF SessionRow
  <2> QED
    BY <2>1, <2>2, <2>3
<1>2. ASSUME NEW x \in Session, Admit(x) PROVE FALSE
  <2>1. PICK V \in SUBSET LiveOf(UserOf[x]), n \in Node :
          session' = [CloseAs(V, "revoked") EXCEPT ![x] =
            [st |-> IF conn[x].tier = "premium" THEN "active" ELSE "provisioning",
             tier |-> conn[x].tier, node |-> n, exp |-> conn[x].exp, born |-> now]]
    BY <1>2 DEF Admit
  <2>2. CASE x = s
    BY <2>1, <2>2 DEF CloseAs
  <2>3. CASE x # s
    <3>1. session'[s] = CloseAs(V, "revoked")[s]
      BY <2>1, <2>3 DEF CloseAs
    <3> QED
      BY <1>0, <3>1 DEF CloseAs, SessionRow
  <2> QED
    BY <2>2, <2>3
<1>3. ~Verifies
  <2> SUFFICES ASSUME NEW g \in Grant, NEW x \in Session, VerifyAdReward(g, x) PROVE FALSE
    BY DEF Verifies
  <2>1. \/ session' = session
        \/ \E exp, st : /\ session' = [session EXCEPT ![x].exp = exp, ![x].st = st]
                        /\ st \in {"active", session[x].st}
    <3>1. CASE grant[g].minutes = 0
      BY <3>1 DEF VerifyAdReward
    <3>2. CASE grant[g].minutes # 0
      <4>1. session' = [session EXCEPT ![x].exp = NewExpiry(g, x),
                          ![x].st = IF @ = "provisioning" THEN "active" ELSE @]
        BY <3>2 DEF VerifyAdReward
      <4> QED
        BY <1>0, <4>1 DEF SessionRow
    <3> QED
      BY <3>1, <3>2
  <2> QED
    BY <1>0, <2>1 DEF SessionRow
<1> QED
  BY <1>1, <1>2, <1>3, SessionWriters

LEMMA AccountedStep ==
  IInv /\ LimitInv /\ ServedInv /\ AccountedInv /\ Next => AccountedInv'
<1> SUFFICES ASSUME IInv, LimitInv, ServedInv, AccountedInv, Next PROVE AccountedInv'
  OBVIOUS
<1>0. /\ Gentle /\ RowsKept /\ TypeOK
      /\ conn \in [Session -> ConnRow] /\ session \in [Session -> SessionRow]
      /\ \A s \in Session : RequestStep(s)
      /\ \A o \in OpId : RowStep(o)
  BY PanelSteps, RequestSteps, RowSteps, NextInv DEF LedgerStep, IInv, TypeOK, ConnType, DatabaseType
<1>1. ASSUME NEW s \in Session, NEW o \in Cleanup(s), op'[o].st = "succeeded" PROVE Gone(s)'
  <2>1. o \in OpId /\ (\A g \in Grant : o # Extend(g)) /\ o \in {End(s), Fail(s)}
    BY IdFacts DEF Cleanup
  <2>2. op[o].st = "succeeded" \/ SucceedsBy(o)
    <3>0. \A kind, x : NewOp(kind, x, 0).st # "succeeded"
      BY DEF NewOp
    <3>1. ~RowOfClosing(o)
      BY <1>1, <3>0 DEF RowOfClosing
    <3>2. ~RowOfFailure(o)
      BY <1>1, <3>0 DEF RowOfFailure
    <3>3. ~RowOfGrant(o)
      BY <2>1 DEF RowOfGrant
    <3> QED
      BY <1>0, <1>1, <2>1, <3>1, <3>2, <3>3 DEF RowStep, RowMoves
  <2>3. CASE op[o].st = "succeeded"
    <3>1. Gone(s) /\ IsClosed(s)
      BY <2>3 DEF AccountedInv, Believed, IInv, CleanupMatchesStatus
    <3> QED
      BY <1>0, <3>1 DEF Gentle
  <2>4. ASSUME NEW w \in Worker, Record(w), drainer[w].cur = o, drainer[w].at = "ok" PROVE Gone(s)'
    <3>1. Exists(o)
      BY <2>4 DEF IInv, WorkInProgress, BatchesExist
    <3>2. op[o].of = s /\ op[o].kind # "extend_user" /\ IsClosed(s)
      BY <3>1 DEF ServedInv, NamedRows, IInv, CleanupMatchesStatus, Exists
    <3>3. Gone(s)
      BY <2>4, <3>2 DEF AccountedInv, Carried
    <3> QED
      BY <1>0, <3>2, <3>3 DEF Gentle
  <2>5. ASSUME NEW x \in Session, DisplaceRecord(x), End(conn[x].cur) = o PROVE Gone(s)'
    <3>1. conn[x].pc = "deleted" /\ conn[x].cur \in Session
      BY <2>5 DEF DisplaceRecord, At, IInv, WorkInProgress, RequestsPlaced, Placed
    <3>2. conn[x].cur = s
      BY <2>1, <2>5, <3>1, IdFacts DEF End, Fail
    <3>3. Gone(s) /\ IsClosed(s)
      BY <3>1, <3>2 DEF AccountedInv, Believed, ServedInv, Doomed, Displacing
    <3> QED
      BY <1>0, <3>3 DEF Gentle
  <2> QED
    BY <2>1, <2>2, <2>3, <2>4, <2>5 DEF SucceedsBy
<1>2. ASSUME NEW s \in Session, conn'[s].pc = "deleted"
      PROVE  panel'[conn'[s].cur].st = "absent" \/ conn'[s].cur \in late'
  <2> DEFINE v == conn[s].cur
  <2>1. /\ conn'[s].cur = v
        /\ conn[s].pc = "deleted" \/ (DisplaceDelete(s) /\ conn[s].pc = "disabled")
    BY <1>0, <1>2 DEF RequestStep
  <2>2. v \in Session /\ IsClosed(v)
    BY <2>1 DEF IInv, WorkInProgress, RequestsPlaced, Placed, ServedInv, Doomed, Displacing
  <2>3. CASE conn[s].pc = "deleted"
    <3>1. Gone(v)
      BY <2>3 DEF AccountedInv, Believed
    <3> QED
      BY <1>0, <2>1, <2>2, <3>1 DEF Gentle, Gone
  <2>4. CASE DisplaceDelete(s)
    <3>1. PICK r \in Answer : /\ PanelCall(Request("delete", v, 0), r)
                              /\ Goto(s, IF r = "ok" THEN "deleted" ELSE "displacing")
      BY <2>4 DEF DisplaceDelete
    <3>2. r = "ok"
      BY <1>0, <1>2, <3>1 DEF Goto, ConnRow
    <3>3. panel'[v].st = "absent"
      BY <1>0, <2>2, <3>1, <3>2, DeleteTakesEffect
    <3> QED
      BY <2>1, <3>3
  <2> QED
    BY <2>1, <2>3, <2>4
<1>3. ASSUME NEW s \in Session, session'[s].st = "failed"
      PROVE  \/ op'[End(s)].st # "none" \/ op'[Fail(s)].st # "none"
             \/ conn'[s].pc \in {"failed_row", "cut"}
  <2>1. End(s) \in OpId /\ Fail(s) \in OpId
    BY IdFacts
  <2>2. \A o \in OpId : Exists(o) => op'[o].st # "none"
    BY <1>0 DEF RowsKept, Exists
  <2>3. CASE session[s].st # "failed"
    <3>1. FailSession(s)
      BY <1>3, <2>3, OnlyFailSession
    <3> QED
      BY <1>0, <3>1 DEF FailSession, Goto, ConnRow
  <2>4. CASE FailEnqueue(s)
    <3>1. op' = [op EXCEPT ![Fail(s)] = NewOp("delete_user", s, 0)]
      BY <2>4 DEF FailEnqueue
    <3> QED
      BY <1>0, <2>1, <3>1 DEF NewOp, TypeOK, DatabaseType
  <2>5. CASE session[s].st = "failed" /\ ~FailEnqueue(s)
    <3>1. Failed(s) /\ RequestStep(s)
      BY <1>0 DEF AccountedInv
    <3> QED
      BY <2>1, <2>2, <2>5, <3>1 DEF Failed, RequestStep
  <2> QED
    BY <2>3, <2>4, <2>5
<1>4. \A s \in Session : Cleanup(s)' = Cleanup(s) /\ End(s)' = End(s) /\ Fail(s)' = Fail(s)
  BY DEF Cleanup, End, Fail
<1>5. Believed'
  BY <1>1, <1>2, <1>4 DEF Believed, Gone
<1>6. \A s \in Session : Failed(s)'
  BY <1>3, <1>4 DEF Failed, Exists
<1> QED
  BY <1>5, <1>6, CarriedStep DEF AccountedInv

LEMMA AccountedInitially == Init => AccountedInv
<1> SUFFICES ASSUME Init PROVE AccountedInv
  OBVIOUS
<1>1. /\ \A o \in OpId : op[o].st = "none"
      /\ \A s \in Session : conn[s].pc = "idle" /\ session[s].st = "none"
      /\ \A w \in Worker : drainer[w].at = "first"
  BY DEF Init, DatabaseInit, DrainerInit, ConnInit, NoConn, NoOp, NoSession, Between
<1> QED
  BY <1>1, IdFacts DEF AccountedInv, Believed, Carried, Failed, Cleanup

LEMMA AccountedInvariant == Spec => []AccountedInv
<1>1. AccountedInv /\ UNCHANGED vars => AccountedInv'
  <2> SUFFICES ASSUME AccountedInv, UNCHANGED vars PROVE AccountedInv'
    OBVIOUS
  <2>1. /\ op' = op /\ conn' = conn /\ panel' = panel /\ late' = late
        /\ session' = session /\ drainer' = drainer
    BY DEF vars, dbVars, panelVars
  <2>2. \A s \in Session : Cleanup(s)' = Cleanup(s) /\ End(s)' = End(s) /\ Fail(s)' = Fail(s)
    BY DEF Cleanup, End, Fail
  <2>3. Believed'
    BY <2>1, <2>2 DEF AccountedInv, Believed, Gone
  <2>4. (\A w \in Worker : Carried(w)') /\ \A s \in Session : Failed(s)'
    BY <2>1, <2>2 DEF AccountedInv, Carried, Failed, Gone, Exists
  <2> QED
    BY <2>3, <2>4 DEF AccountedInv
<1> QED
  BY <1>1, AccountedInitially, AccountedStep, ServedInvariant, LimitInvariant, InvariantHolds, PTL DEF Spec

(* The user of a closed session is gone, or a row of the outbox answers    *)
(* for it, save where failSession was cut or createUser came too late: no  *)
(* row succeeds, by whichever drainer or inline revoke, while the user it  *)
(* stands for is still on the panel.                                       *)
THEOREM ClosedUserIsAccounted == Spec => []ClosedUserAccounted
<1>1. IInv /\ AccountedInv => ClosedUserAccounted
  <2> SUFFICES ASSUME IInv, AccountedInv, NEW s \in Session,
                      IsClosed(s), HasUser(s), s \notin late
               PROVE  \/ \E o \in Cleanup(s) : Outstanding(o) \/ op[o].st = "dead"
                      \/ conn[s].pc = "failed_row"
                      \/ conn[s].pc = "cut" /\ session[s].st = "failed"
    BY DEF ClosedUserAccounted
  <2>1. ASSUME NEW o \in Cleanup(s), Exists(o) PROVE Outstanding(o) \/ op[o].st = "dead"
    <3>1. op[o].st # "succeeded"
      BY DEF AccountedInv, Believed, Gone, HasUser
    <3>2. o \in OpId /\ op[o] \in OpRow
      BY IdFacts DEF Cleanup, IInv, TypeOK, DatabaseType
    <3> QED
      BY <2>1, <3>1, <3>2 DEF OpRow, Outstanding, Exists
  <2>2. session[s].st \in {"revoked", "expired"} => Exists(End(s))
    BY DEF IInv, CleanupMatchesStatus, Exists
  <2>3. Failed(s) /\ session[s].st \in {"revoked", "expired", "failed"}
    BY DEF AccountedInv, IsClosed, Closed
  <2>4. End(s) \in Cleanup(s) /\ Fail(s) \in Cleanup(s)
    BY DEF Cleanup
  <2> QED
    BY <2>1, <2>2, <2>3, <2>4 DEF Failed
<1> QED
  BY <1>1, AccountedInvariant, InvariantHolds, PTL
=============================================================================
