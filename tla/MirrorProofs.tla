----------------------------- MODULE MirrorProofs -----------------------------
(***************************************************************************)
(* The panel ends up with the expiry of the ledger, as long as a session   *)
(* is extended once: every call that carries an expiry carries the one of  *)
(* an extension, and whoever was told of success was told the truth.       *)
(***************************************************************************)
EXTENDS ServiceProofs

Before == {"idle", "guarded", "planned", "displacing", "disabled", "deleted"}
Made == {"created", "done"}
Fallen == {"failing", "failed_row", "failed_op", "error", "cut"}

\* Grant g has extended session s, and no other grant has.
Ext(g, s) == Exists(Extend(g)) /\ op[Extend(g)].of = s
Sole(g, s) == Ext(g, s) /\ \A h \in Grant : Ext(h, s) => h = g
Epoch(g) == op[Extend(g)].epoch

\* Somebody has been told that the panel has the new expiry.
ToldDrainer(w, g) == drainer[w].cur = Extend(g) /\ drainer[w].at = "ok"
Told(g) ==
  op[Extend(g)].st = "succeeded" \/ push[g] = "ok" \/ \E w \in Worker : ToldDrainer(w, g)

(* A row of extension comes with the grant that paid for it.               *)
ExtensionsPaid ==
  \A g \in Grant : Exists(Extend(g)) =>
    grant[g].st = "consumed" /\ session[op[Extend(g)].of].st # "none"

(* What abandoned calls carry, and which requests they come from.          *)
Carries(c) == c.do = "expiry" => \E g \in Grant : Ext(g, c.who) /\ Epoch(g) = c.exp
LimboKnown ==
  \A c \in limbo : Carries(c) /\ (c.do = "create" => conn[c.who].pc \in Fallen)

(* The ledger: as provisioned, or as extended.                             *)
Booked(s) ==
  conn[s].pc \in Displacing \cup Made =>
    /\ (\A g \in Grant : ~Ext(g, s)) => session[s].exp = conn[s].exp
    /\ \A g \in Grant : Sole(g, s) => session[s].exp = Epoch(g)

(* The panel: as created, or, if somebody was told so, as extended.        *)
Mirrored(s) ==
  /\ conn[s].pc \in Before =>
       panel[s].st = "absent" /\ \A g \in Grant : Ext(g, s) => ~Told(g)
  /\ ~IsClosed(s) /\ conn[s].pc \in Made =>
       /\ (\A g \in Grant : ~Ext(g, s)) => panel[s].exp = conn[s].exp
       /\ \A g \in Grant : Sole(g, s) /\ Told(g) => Epoch(g) <= now \/ panel[s].exp = Epoch(g)

MirrorInv ==
  /\ ExtensionsPaid /\ LimboKnown
  /\ \A s \in Session : Booked(s) /\ Mirrored(s)

-----------------------------------------------------------------------------
(* What a step does to an extension.                                       *)

ExtKept(g) ==
  /\ Exists(Extend(g)) /\ op'[Extend(g)].of = op[Extend(g)].of
  /\ op'[Extend(g)].epoch = op[Extend(g)].epoch
  /\ op'[Extend(g)].st = "succeeded" => Told(g)

ExtNew(g, s) ==
  /\ VerifyAdReward(g, s) /\ grant[g].minutes # 0 /\ UNCHANGED <<drainer, conn>>
  /\ op'[Extend(g)] = NewOp("extend_user", s, NewExpiry(g, s))

LEMMA ExtSteps ==
  ASSUME IInv, ServedInv, Next, NEW g \in Grant, Exists(Extend(g))'
  PROVE  ExtKept(g) \/ \E s \in Session : ExtNew(g, s)
<1> DEFINE o == Extend(g)
<1>1. o \in OpId /\ ~RowOfClosing(o) /\ ~RowOfFailure(o) /\ \A s \in Session : o # End(s)
  BY IdFacts DEF RowOfClosing, RowOfFailure
<1>2. Extend(g)' = o /\ \A h \in Grant : o = Extend(h) => h = g
  BY DEF Extend
<1>3. CASE RowMoves(o)
  <2>1. SucceedsBy(o) => Told(g)
    <3>1. ASSUME NEW w \in Worker, drainer[w].cur = o, drainer[w].at = "ok" PROVE Told(g)
      BY <3>1 DEF Told, ToldDrainer
    <3>2. ASSUME NEW s \in Session, DisplaceRecord(s), End(conn[s].cur) = o PROVE FALSE
      BY <3>2 DEF End, Extend
    <3> QED
      BY <3>1, <3>2 DEF SucceedsBy
  <2> QED
    BY <1>2, <1>3, <2>1 DEF RowMoves, ExtKept, Exists, Told
<1>4. CASE RowOfGrant(o)
  BY <1>2, <1>4 DEF RowOfGrant, ExtKept, ExtNew, ExpireEpoch, Told
<1> QED
  BY <1>1, <1>3, <1>4, RowSteps DEF RowStep

(* An extension, once booked, stays as it is.                              *)
LEMMA ExtStays ==
  ASSUME IInv, ServedInv, ExtensionsPaid, Next, NEW g \in Grant, Exists(Extend(g))
  PROVE  /\ op'[Extend(g)].st # "none" /\ op'[Extend(g)].of = op[Extend(g)].of
         /\ op'[Extend(g)].epoch = op[Extend(g)].epoch
         /\ op'[Extend(g)].st = "succeeded" => Told(g)
         /\ \A s \in Session : ~ExtNew(g, s)
<1>1. Extend(g) \in OpId /\ Extend(g)' = Extend(g)
  BY IdFacts DEF Extend
<1>2. op'[Extend(g)].st # "none"
  BY <1>1, NextInv DEF LedgerStep, RowsKept, Exists
<1>3. \A s \in Session : ~ExtNew(g, s)
  BY DEF ExtensionsPaid, ExtNew, VerifyAdReward, CanVerify, Spendable
<1>4. Exists(Extend(g))'
  BY <1>1, <1>2 DEF Exists
<1> QED
  BY <1>2, <1>3, <1>4, ExtSteps DEF ExtKept

LEMMA ExtNewFacts ==
  ASSUME IInv, NEW g \in Grant, NEW s \in Session, ExtNew(g, s)
  PROVE  /\ op'[Extend(g)].of = s /\ op'[Extend(g)].epoch = NewExpiry(g, s)
         /\ op'[Extend(g)].st = "pending" /\ push'[g] = "pushing"
         /\ session'[s].exp = NewExpiry(g, s) /\ IsLive(s)
         /\ grant'[g].st = "consumed" /\ drainer' = drainer /\ conn' = conn
         /\ grant[g].st # "consumed"
<1>1. /\ session' = [session EXCEPT ![s].exp = NewExpiry(g, s),
                                    ![s].st = IF @ = "provisioning" THEN "active" ELSE @]
      /\ push' = [push EXCEPT ![g] = "pushing"]
      /\ grant' = [grant EXCEPT ![g].st = "consumed", ![g].sess = s]
      /\ IsLive(s) /\ grant[g].st # "consumed"
  BY DEF ExtNew, VerifyAdReward, CanVerify, Fundable, Spendable
<1>2. /\ session \in [Session -> SessionRow] /\ grant \in [Grant -> GrantRow]
      /\ push \in [Grant -> PushPc]
  BY DEF IInv, TypeOK, DatabaseType, PushType
<1>3. session'[s].exp = NewExpiry(g, s)
  BY <1>1, <1>2 DEF SessionRow
<1>4. grant'[g].st = "consumed" /\ push'[g] = "pushing"
  BY <1>1, <1>2 DEF GrantRow
<1>5. /\ op'[Extend(g)].of = s /\ op'[Extend(g)].epoch = NewExpiry(g, s)
      /\ op'[Extend(g)].st = "pending"
  BY DEF ExtNew, NewOp
<1> QED
  BY <1>1, <1>3, <1>4, <1>5 DEF ExtNew

-----------------------------------------------------------------------------
(* How requests and expiries move.                                         *)

LEMMA RequestProgress ==
  ASSUME IInv, Next, NEW s \in Session
  PROVE  /\ conn'[s].pc \in Before => conn[s].pc \in Before
         /\ conn[s].pc \in Fallen => conn'[s].pc \in Fallen
         /\ conn'[s].pc \in Displacing \cup Made =>
              \/ Admit(s)
              \/ conn[s].pc \in Displacing \cup Made /\ conn'[s].exp = conn[s].exp
<1> USE DEF IInv, TypeOK, ConnType, ConnRow
<1>0. conn \in [Session -> ConnRow]
  OBVIOUS
<1>1. ASSUME NEW x \in Session, ConnNext(x), x # s PROVE conn'[s] = conn[s]
  <2>1. ASSUME NEW v \in Session, Displace(x, v) PROVE conn'[s] = conn[s]
    BY <1>1, <2>1 DEF Displace
  <2> QED
    BY <1>1, <2>1 DEF ConnNext, AttestedGuard, ResolveTierAndExpiry, Admit, Refuse, DisplaceDelete,
       DisplaceRecord, CreateUser, CheckUser, FailSession, FailEnqueue, FailPenalise, ConnCrash, Goto
<1>2. ASSUME NEW to, Goto(s, to) PROVE conn'[s].pc = to /\ conn'[s].exp = conn[s].exp
  BY <1>2 DEF Goto
<1>3. CASE AttestedGuard(s) \/ Refuse(s) \/ FailSession(s) \/ FailEnqueue(s) \/ FailPenalise(s)
           \/ ConnCrash(s)
  BY <1>2, <1>3 DEF AttestedGuard, Refuse, FailSession, FailEnqueue, FailPenalise, ConnCrash, At,
                    Before, Fallen, Displacing, Made
<1>4. CASE ResolveTierAndExpiry(s)
  <2>1. conn[s].pc = "guarded" /\ conn'[s].pc = "planned"
    BY <1>4 DEF ResolveTierAndExpiry, At
  <2> QED
    BY <2>1 DEF Before, Fallen, Displacing, Made
<1>5. CASE Admit(s)
  <2>1. conn[s].pc = "planned"
    BY <1>5 DEF Admit, At
  <2> QED
    BY <1>5, <2>1 DEF Before, Fallen
<1>6. ASSUME NEW v \in Session, Displace(s, v)
      PROVE  /\ conn[s].pc = "displacing" /\ conn'[s].pc \in {"disabled", "displacing"}
             /\ conn'[s].exp = conn[s].exp
  BY <1>6 DEF Displace, At
<1>7. CASE DisplaceDelete(s) \/ DisplaceRecord(s) \/ CreateUser(s) \/ CheckUser(s)
  <2>1. /\ conn[s].pc \in {"displacing", "disabled", "deleted", "created"}
        /\ \E to \in {"deleted", "displacing", "created", "done", "failing"} :
             /\ Goto(s, to)
             /\ conn[s].pc = "created" => to \in {"done", "failing"}
    BY <1>7 DEF DisplaceDelete, DisplaceRecord, CreateUser, CheckUser, At
  <2> QED
    BY <1>2, <2>1 DEF Before, Fallen, Displacing, Made
<1>8. CASE \E x \in Session : ConnNext(x)
  <2>1. PICK x \in Session : ConnNext(x)
    BY <1>8
  <2>2. CASE x # s
    BY <1>1, <2>1, <2>2
  <2>3. CASE x = s
    <3>1. CASE \E v \in Session : Displace(s, v)
      BY <1>6, <3>1 DEF Before, Fallen, Displacing, Made
    <3> QED
      BY <1>3, <1>4, <1>5, <1>7, <2>1, <2>3, <3>1 DEF ConnNext
  <2> QED
    BY <2>2, <2>3
<1>9. CASE UNCHANGED conn
  BY <1>9
<1>10. ConnectStep \/ UNCHANGED conn
  BY DEF Next, AdStep, DrainStep, ReapStep, AdminStep, TimeStep, LandStep
<1> QED
  BY <1>8, <1>9, <1>10 DEF ConnectStep

(* An expiry is set by the connect and moved by a verify.                  *)
LEMMA ExpiryMoves ==
  ASSUME IInv, LimitInv, Next, NEW s \in Session
  PROVE  \/ session'[s].exp = session[s].exp
         \/ Admit(s) /\ session[s].st = "none"
         \/ session[s].st # "none" /\ \E g \in Grant : VerifyAdReward(g, s)
<1>1. CASE session[s].st # "none"
  BY <1>1, ExpiryWriters
<1>2. CASE session[s].st = "none"
  <2>1. ASSUME NEW x \in Session, Admit(x), x # s PROVE session'[s].exp = session[s].exp
    <3>1. PICK V, n : Opening(x, V, n)
      BY <2>1, AdmitFacts
    <3>2. s \notin V
      BY <1>2, <3>1 DEF Opening, LiveOf, IsLive, Live
    <3> QED
      BY <2>1, <3>1, <3>2 DEF Opening
  <2>2. ASSUME NEW S \in SUBSET Session, Closing(S) PROVE session'[s].exp = session[s].exp
    BY <2>2, ClosingFacts
  <2>3. ASSUME NEW g \in Grant, NEW x \in Session, VerifyAdReward(g, x), grant[g].minutes # 0
        PROVE  session'[s].exp = session[s].exp
    BY <1>2, <2>3, VerifyFacts DEF IsLive, Live
  <2> QED
    BY <1>2, <2>1, <2>2, <2>3, SessionWriters DEF Verifies
<1> QED
  BY <1>1, <1>2

-----------------------------------------------------------------------------
(* The ledger.                                                             *)

LEMMA PaidRows ==
  ASSUME IInv, LimitInv, ServedInv, ExtensionsPaid, Next
  PROVE  ExtensionsPaid'
<1>1. SpentForGood
  BY SpentStep
<1>2. ASSUME NEW g \in Grant, op'[Extend(g)].st # "none"
      PROVE  grant'[g].st = "consumed" /\ session'[op'[Extend(g)].of].st # "none"
  <2>1. Extend(g) \in OpId /\ Exists(Extend(g))'
    BY <1>2, IdFacts DEF Exists, Extend
  <2>2. CASE ExtKept(g)
    <3>1. grant[g].st = "consumed" /\ session[op[Extend(g)].of].st # "none"
      BY <2>2 DEF ExtKept, ExtensionsPaid
    <3>2. op[Extend(g)].of \in Session
      BY <2>1, <2>2 DEF ExtKept, IInv, RowsBounded
    <3> QED
      BY <1>1, <2>2, <3>1, <3>2, SessionsStay DEF SpentForGood, ExtKept
  <2>3. ASSUME NEW s \in Session, ExtNew(g, s)
        PROVE  grant'[g].st = "consumed" /\ session'[op'[Extend(g)].of].st # "none"
    <3>1. session[s].st # "none"
      BY <2>3, ExtNewFacts DEF IsLive, Live
    <3> QED
      BY <2>3, <3>1, ExtNewFacts, SessionsStay
  <2> QED
    BY <2>1, <2>2, <2>3, ExtSteps
<1> QED
  BY <1>2 DEF ExtensionsPaid, Exists, Extend

(* What becomes of the extensions of one session.                          *)
LEMMA ExtMoves ==
  ASSUME IInv, ServedInv, ExtensionsPaid, Next, NEW s \in Session, NEW g \in Grant
  PROVE  /\ Ext(g, s) => Ext(g, s)' /\ Epoch(g)' = Epoch(g)
         /\ Ext(g, s)' => Ext(g, s) \/ ExtNew(g, s)
         /\ ExtNew(g, s) => Ext(g, s)' /\ ~Ext(g, s)
<1>0. Extend(g)' = Extend(g)
  BY DEF Extend
<1>1. Ext(g, s) => Ext(g, s)' /\ Epoch(g)' = Epoch(g)
  BY <1>0, ExtStays DEF Ext, Epoch, Exists
<1>2. Ext(g, s)' => Ext(g, s) \/ ExtNew(g, s)
  <2> SUFFICES ASSUME Ext(g, s)' PROVE Ext(g, s) \/ ExtNew(g, s)
    OBVIOUS
  <2>1. Exists(Extend(g))' /\ op'[Extend(g)].of = s
    BY <1>0 DEF Ext
  <2>2. ASSUME NEW x \in Session, ExtNew(g, x) PROVE x = s
    BY <2>1, <2>2, ExtNewFacts
  <2> QED
    BY <2>1, <2>2, ExtSteps DEF ExtKept, Ext
<1>3. ExtNew(g, s) => Ext(g, s)' /\ ~Ext(g, s)
  <2> SUFFICES ASSUME ExtNew(g, s) PROVE Ext(g, s)' /\ ~Ext(g, s)
    OBVIOUS
  <2>1. op'[Extend(g)].of = s /\ op'[Extend(g)].st = "pending" /\ grant[g].st # "consumed"
    BY ExtNewFacts
  <2> QED
    BY <1>0, <2>1 DEF Ext, Exists, ExtensionsPaid
<1> QED
  BY <1>1, <1>2, <1>3

LEMMA SoleMoves ==
  ASSUME IInv, ServedInv, ExtensionsPaid, Next, NEW s \in Session, NEW g \in Grant, Sole(g, s)'
  PROVE  ExtNew(g, s) \/ (Sole(g, s) /\ Epoch(g)' = Epoch(g))
<1>1. Ext(g, s)' /\ \A h \in Grant : Ext(h, s)' => h = g
  BY DEF Sole
<1>2. \A h \in Grant : Ext(h, s) => h = g
  BY <1>1, ExtMoves
<1> QED
  BY <1>1, <1>2, ExtMoves DEF Sole

LEMMA BookedStep ==
  ASSUME IInv, LimitInv, ServedInv, ExtensionsPaid, Next, NEW s \in Session, Booked(s)
  PROVE  Booked(s)'
<1> SUFFICES ASSUME conn'[s].pc \in Displacing \cup Made
             PROVE  /\ (\A g \in Grant : ~Ext(g, s)') => session'[s].exp = conn'[s].exp
                    /\ \A g \in Grant : Sole(g, s)' => session'[s].exp = Epoch(g)'
  BY DEF Booked, Displacing, Made
<1>1. \A g \in Grant : ExtNew(g, s) => Ext(g, s)' /\ session'[s].exp = Epoch(g)'
  <2>1. ASSUME NEW g \in Grant, ExtNew(g, s) PROVE session'[s].exp = Epoch(g)'
    BY <2>1, ExtNewFacts DEF Epoch, Extend
  <2> QED
    BY <2>1, ExtMoves
<1>2. CASE Admit(s)
  <2>1. PICK V, n : Opening(s, V, n)
    BY <1>2, AdmitFacts
  <2>2. session[s].st = "none" /\ session'[s].exp = conn[s].exp
    BY <2>1 DEF Opening, NoSession
  <2>3. conn'[s].exp = conn[s].exp
    BY <1>2 DEF Admit, IInv, TypeOK, ConnType, ConnRow
  <2>4. \A g \in Grant : ~Ext(g, s) /\ ~ExtNew(g, s)
    BY <2>2, ExtNewFacts DEF Ext, ExtensionsPaid, IsLive, Live
  <2> QED
    BY <2>2, <2>3, <2>4, ExtMoves DEF Sole
<1>3. CASE session'[s].exp = session[s].exp /\ ~Admit(s)
  <2>1. conn[s].pc \in Displacing \cup Made /\ conn'[s].exp = conn[s].exp
    BY <1>3, RequestProgress
  <2>2. ASSUME \A g \in Grant : ~Ext(g, s)' PROVE session'[s].exp = conn'[s].exp
    <3>1. \A g \in Grant : ~Ext(g, s)
      BY <2>2, ExtMoves
    <3> QED
      BY <1>3, <2>1, <3>1 DEF Booked
  <2>3. ASSUME NEW g \in Grant, Sole(g, s)' PROVE session'[s].exp = Epoch(g)'
    BY <1>1, <1>3, <2>1, <2>3, SoleMoves DEF Booked
  <2> QED
    BY <2>2, <2>3
<1>4. CASE session'[s].exp # session[s].exp /\ ~Admit(s)
  <2>1. PICK g \in Grant : VerifyAdReward(g, s)
    BY <1>4, ExpiryMoves
  <2>2. ExtNew(g, s)
    <3>1. grant[g].st # "consumed" /\ Extend(g) \in OpId /\ Extend(g)' = Extend(g)
      BY <2>1, IdFacts DEF VerifyAdReward, CanVerify, Spendable, Extend
    <3>2. op' = [op EXCEPT ![Extend(g)] = NewOp("extend_user", s, ExpireEpoch(g, s))]
      BY <1>4, <2>1 DEF VerifyAdReward
    <3>3. op'[Extend(g)] = NewOp("extend_user", s, ExpireEpoch(g, s))
      BY <3>1, <3>2 DEF IInv, TypeOK, DatabaseType
    <3>4. op'[Extend(g)].st # "none" /\ op'[Extend(g)].of = s
      BY <3>3 DEF NewOp
    <3>5. Exists(Extend(g))' /\ ~Exists(Extend(g))
      BY <3>1, <3>4 DEF Exists, ExtensionsPaid
    <3>6. PICK x \in Session : ExtNew(g, x)
      BY <3>5, ExtSteps DEF ExtKept
    <3> QED
      BY <3>4, <3>6, ExtNewFacts
  <2>3. \A h \in Grant : Sole(h, s)' => h = g
    BY <1>1, <2>2 DEF Sole
  <2> QED
    BY <1>1, <2>2, <2>3
<1> QED
  BY <1>2, <1>3, <1>4

-----------------------------------------------------------------------------
(* The calls.                                                              *)

(* Every call is a creation by its request, the expiry of an extension, or *)
(* the end of a closed session's user.                                     *)
Known(c) ==
  \/ c.do = "create" /\ (conn[c.who].pc \in Fallen \/ (CreateUser(c.who) /\ c.exp = conn[c.who].exp))
  \/ c.do = "expiry" /\ Carries(c)
  \/ c.do \in Harm /\ IsClosed(c.who)

LEMMA CallsKnown ==
  ASSUME IInv, ServedInv, Next
  PROVE  \/ UNCHANGED <<panel, limbo>>
         \/ \E c \in Call : \E r :
              /\ PanelCall(c, r) /\ Known(c)
              /\ c.do = "create" => (r # "ok" => conn'[c.who].pc \in Fallen)
         \/ \E c \in limbo : Land(c)
<1> DEFINE Goal == \E c \in Call : \E r :
              /\ PanelCall(c, r) /\ Known(c)
              /\ c.do = "create" => (r # "ok" => conn'[c.who].pc \in Fallen)
<1>0. TypeOK
  BY DEF IInv
<1>1. ASSUME NEW o \in OpId, Exists(o), NEW r, PanelCall(CallOf(o), r) PROVE Goal
  <2>1. CallOf(o) \in Call /\ CallOf(o).do # "create"
    BY <1>1, CallOfBounded DEF CallOf, Request
  <2>2. CASE op[o].kind = "extend_user"
    <3>1. \E g \in Grant : o = Extend(g)
      <4>1. \A s \in Session : o \notin Cleanup(s)
        BY <1>1, <2>2 DEF ServedInv, NamedRows
      <4> QED
        BY <4>1 DEF OpId, Extend, Cleanup, End, Fail
    <3>2. PICK g \in Grant : o = Extend(g)
      BY <3>1
    <3>3. CallOf(o).do = "expiry" /\ CallOf(o).who = op[o].of /\ CallOf(o).exp = op[o].epoch
      BY <2>2 DEF CallOf, Request
    <3>4. Known(CallOf(o))
      BY <1>1, <3>2, <3>3 DEF Known, Carries, Ext, Epoch
    <3> QED
      BY <1>1, <2>1, <3>4
  <2>3. CASE op[o].kind # "extend_user"
    <3>1. CallOf(o).do \in Harm /\ CallOf(o).who = op[o].of
      BY <2>3 DEF CallOf, Request, Harm
    <3>2. Known(CallOf(o))
      BY <1>1, <2>3, <3>1, RowHarmsClosed DEF Known
    <3> QED
      BY <1>1, <2>1, <3>2
  <2> QED
    BY <2>2, <2>3
<1>2. ASSUME NEW s \in Session, IsClosed(s), NEW do \in Harm, NEW r, PanelCall(Request(do, s, 0), r)
      PROVE  Goal
  <2>1. Request(do, s, 0) \in Call /\ Request(do, s, 0).do = do /\ Request(do, s, 0).who = s
    BY RequestCall DEF Harm
  <2> QED
    BY <1>2, <2>1 DEF Known, Harm
<1>3. ASSUME NEW s \in Session, ConnNext(s) PROVE Goal \/ UNCHANGED <<panel, limbo>>
  <2>1. ASSUME NEW v \in Session, Displace(s, v) PROVE Goal
    <3>1. IsClosed(v) /\ \E r : PanelCall(Request("disable", v, 0), r)
      BY <2>1 DEF Displace, At, ServedInv, Doomed, Displacing
    <3> QED
      BY <1>2, <3>1 DEF Harm
  <2>2. CASE DisplaceDelete(s)
    <3>1. conn[s].cur \in Session /\ IsClosed(conn[s].cur)
      BY <2>2 DEF DisplaceDelete, At, ServedInv, Doomed, Displacing, IInv, WorkInProgress,
                  RequestsPlaced, Placed
    <3>2. \E r : PanelCall(Request("delete", conn[s].cur, 0), r)
      BY <2>2 DEF DisplaceDelete
    <3> QED
      BY <1>2, <3>1, <3>2 DEF Harm
  <2>3. CASE CreateUser(s)
    <3> DEFINE c == Request("create", s, conn[s].exp)
    <3>1. conn[s].exp \in Nat
      BY <1>0 DEF TypeOK, ConnType, ConnRow
    <3>2. PICK r \in Answer : PanelCall(c, r) /\ Goto(s, IF r = "ok" THEN "created" ELSE "failing")
      BY <2>3 DEF CreateUser
    <3>3. r # "ok" => conn'[s].pc \in Fallen
      BY <1>0, <3>2 DEF Goto, TypeOK, ConnType, ConnRow, Fallen
    <3>4. c \in Call /\ c.do = "create" /\ c.who = s /\ c.exp = conn[s].exp
      BY <3>1 DEF Request, Call
    <3>5. Known(c)
      BY <2>3, <3>4 DEF Known
    <3> HIDE DEF c
    <3> QED
      BY <3>2, <3>3, <3>4, <3>5
  <2>4. CASE ~DisplaceDelete(s) /\ ~CreateUser(s) /\ ~\E v \in Session : Displace(s, v)
    BY <1>3, <2>4 DEF ConnNext, AttestedGuard, ResolveTierAndExpiry, Admit, Refuse, DisplaceRecord,
       CheckUser, FailSession, FailEnqueue, FailPenalise, ConnCrash, panelVars
  <2> QED
    BY <2>1, <2>2, <2>3, <2>4
<1>4. ASSUME NEW w \in Worker, DrainerNext(w) PROVE Goal \/ UNCHANGED <<panel, limbo>>
  <2>1. ASSUME NEW o \in OpId, Dispatch(w, o) PROVE Goal
    <3>1. Exists(o) /\ \E r : PanelCall(CallOf(o), r)
      BY <2>1 DEF Dispatch, IInv, WorkInProgress, BatchesExist
    <3> QED
      BY <1>1, <3>1
  <2>2. CASE DispatchSecond(w)
    <3> DEFINE o == drainer[w].cur
    <3>1. o \in OpId /\ Exists(o)
      BY <2>2 DEF DispatchSecond, IInv, WorkInProgress, BatchesExist
    <3>2. CASE op[o].kind = "revoke_user"
      <4>1. \E r : PanelCall(Request("delete", op[o].of, 0), r)
        BY <2>2, <3>2 DEF DispatchSecond
      <4>2. op[o].of \in Session /\ IsClosed(op[o].of)
        BY <3>1, <3>2, RowHarmsClosed
      <4> QED
        BY <1>2, <4>1, <4>2 DEF Harm
    <3>3. CASE op[o].kind # "revoke_user"
      BY <2>2, <3>3 DEF DispatchSecond, panelVars
    <3> QED
      BY <3>2, <3>3
  <2>3. CASE Claim(w) \/ Record(w) \/ DrainerCrash(w)
    BY <2>3 DEF Claim, Record, DrainerCrash, panelVars
  <2> QED
    BY <1>4, <2>1, <2>2, <2>3 DEF DrainerNext
<1>5. ASSUME AdNext PROVE Goal \/ UNCHANGED <<panel, limbo>>
  <2>1. ASSUME NEW g \in Grant, PushExpiry(g) PROVE Goal
    <3>1. Extend(g) \in OpId /\ Exists(Extend(g)) /\ \E r : PanelCall(CallOf(Extend(g)), r)
      BY <2>1, IdFacts DEF PushExpiry, IInv, WorkInProgress, PushesExist
    <3> QED
      BY <1>1, <3>1
  <2>2. \A u, s : RequestAdToken(u, s) => UNCHANGED panelVars
    BY DEF RequestAdToken
  <2>3. \A t, g : RecordVerifiedReward(t, g) => UNCHANGED panelVars
    BY DEF RecordVerifiedReward
  <2>4. \A g, s : VerifyAdReward(g, s) => UNCHANGED panelVars
    BY DEF VerifyAdReward
  <2>5. \A g : PushReadBack(g) \/ PushRecord(g) \/ PushCrash(g) => UNCHANGED panelVars
    BY DEF PushReadBack, PushRecord, PushCrash
  <2> QED
    BY <1>5, <2>1, <2>2, <2>3, <2>4, <2>5 DEF AdNext, panelVars
<1> QED
  BY <1>3, <1>4, <1>5
     DEF Next, ConnectStep, AdStep, DrainStep, ReapStep, AdminStep, TimeStep, LandStep, panelVars

LEMMA CarriesStays ==
  ASSUME IInv, ServedInv, ExtensionsPaid, Next, NEW c \in Call, Carries(c)
  PROVE  Carries(c)'
<1>1. CASE c.do = "expiry"
  <2>1. PICK g \in Grant : Ext(g, c.who) /\ Epoch(g) = c.exp
    BY <1>1 DEF Carries
  <2>2. c.who \in Session
    BY DEF Call
  <2>3. Ext(g, c.who)' /\ Epoch(g)' = c.exp
    BY <2>1, <2>2, ExtMoves
  <2> QED
    BY <2>3 DEF Carries
<1>2. CASE c.do # "expiry"
  BY <1>2 DEF Carries
<1> QED
  BY <1>1, <1>2

LEMMA LimboStays ==
  ASSUME IInv, ServedInv, ExtensionsPaid, LimboKnown, Next
  PROVE  LimboKnown'
<1>1. limbo \subseteq Call
  BY DEF IInv, TypeOK, PanelType
<1>2. ASSUME NEW c \in limbo PROVE Carries(c)' /\ (c.do = "create" => conn'[c.who].pc \in Fallen)
  <2>1. c.who \in Session /\ c \in Call
    BY <1>1 DEF Call
  <2> QED
    BY <2>1, CarriesStays, RequestProgress DEF LimboKnown
<1>3. ASSUME NEW c \in Call, NEW r, PanelCall(c, r), Known(c),
             c.do = "create" => (r # "ok" => conn'[c.who].pc \in Fallen)
      PROVE  \A b \in limbo' : b \notin limbo =>
               Carries(b)' /\ (b.do = "create" => conn'[b.who].pc \in Fallen)
  <2>1. limbo' = limbo \/ (limbo' = limbo \cup {c} /\ r = "retry")
    BY <1>3 DEF PanelCall, panelVars
  <2>2. Carries(c)
    BY <1>3 DEF Known, Carries, Harm
  <2>3. Carries(c)'
    BY <2>2, CarriesStays
  <2>4. \A b \in limbo' : b \notin limbo => b = c /\ r = "retry"
    BY <2>1
  <2> QED
    BY <1>3, <2>3, <2>4
<1>4. ASSUME NEW c \in limbo, Land(c) PROVE limbo' \subseteq limbo
  BY <1>4 DEF Land
<1>5. \A b \in limbo' : b \notin limbo =>
        Carries(b)' /\ (b.do = "create" => conn'[b.who].pc \in Fallen)
  BY <1>3, <1>4, CallsKnown
<1> QED
  BY <1>2, <1>5 DEF LimboKnown

(* What a step does to one user of the panel.                              *)
LEMMA PanelMoves ==
  ASSUME IInv, ServedInv, LimboKnown, Next, NEW s \in Session
  PROVE  \/ panel'[s] = panel[s]
         \/ \E c \in Call : c.who = s /\ Known(c) /\ panel'[s] = Applied(c, panel[s])
<1>0. panel \in [Session -> PanelUser] /\ limbo \subseteq Call
  BY DEF IInv, TypeOK, PanelType
<1>1. ASSUME NEW c \in Call, Apply(c)
      PROVE  panel'[s] = panel[s] \/ (c.who = s /\ panel'[s] = Applied(c, panel[s]))
  BY <1>0, <1>1 DEF Apply
<1>2. ASSUME NEW c \in Call, NEW r, PanelCall(c, r) PROVE Apply(c) \/ panel' = panel
  BY <1>2 DEF PanelCall, panelVars
<1>3. ASSUME NEW c \in limbo, Land(c) PROVE c \in Call /\ Known(c) /\ (Apply(c) \/ panel' = panel)
  <2>1. c \in Call /\ (Apply(c) \/ panel' = panel)
    BY <1>0, <1>3 DEF Land
  <2>2. Known(c)
    BY <2>1 DEF Known, LimboKnown, ServedInv, HarmsClosed, Call, Harm
  <2> QED
    BY <2>1, <2>2
<1> QED
  BY <1>1, <1>2, <1>3, CallsKnown

-----------------------------------------------------------------------------
(* Being told.                                                             *)

LEMMA ExpiryTakesEffect ==
  ASSUME TypeOK, NEW c \in Call, c.do = "expiry", PanelCall(c, "ok")
  PROVE  panel[c.who].st # "absent" /\ (c.exp <= now \/ panel'[c.who].exp = c.exp)
<1>1. Apply(c) /\ Verdict(c) = "ok"
  BY DEF PanelCall
<1>2. panel[c.who].st # "absent"
  BY <1>1 DEF Verdict
<1>3. panel'[c.who] = Applied(c, panel[c.who])
  BY <1>1 DEF Apply, TypeOK, PanelType, Call
<1>4. CASE Skipped(c)
  BY <1>2, <1>4 DEF Skipped
<1>5. CASE ~Skipped(c)
  BY <1>2, <1>3, <1>5 DEF Applied, AfterExpiry
<1> QED
  BY <1>2, <1>4, <1>5

LEMMA ReadBackTells ==
  ASSUME NEW s \in Session, NEW e, PanelRead("ok", ReadBack(s, e))
  PROVE  panel[s].st # "absent" /\ panel[s].exp = e
BY DEF PanelRead, ReadBack

(* Whoever is told of success is told while the user is there, with the    *)
(* expiry of the extension, unless that one had passed.                    *)
LEMMA NewlyTold ==
  ASSUME IInv, ServedInv, ExtensionsPaid, Next, NEW g \in Grant, NEW s \in Session,
         Ext(g, s), Told(g)', ~Told(g)
  PROVE  panel[s].st # "absent" /\ (Epoch(g) <= now \/ panel'[s].exp = Epoch(g))
<1> DEFINE o == Extend(g)
<1>0. /\ TypeOK /\ o \in OpId /\ op[o].kind = "extend_user" /\ op[o].of = s /\ Exists(o)
      /\ push \in [Grant -> PushPc] /\ drainer \in [Worker -> Tick_]
      /\ \A h \in Grant : o = Extend(h) => h = g
  BY IdFacts DEF IInv, TypeOK, PushType, DrainerType, Ext, ServedInv, NamedRows, Extend
<1>1. CallOf(o).do = "expiry" /\ CallOf(o).who = s /\ CallOf(o).exp = Epoch(g) /\ CallOf(o) \in Call
  BY <1>0, CallOfBounded DEF CallOf, Request, Epoch
<1>2. ASSUME PanelCall(CallOf(o), "ok")
      PROVE  panel[s].st # "absent" /\ (Epoch(g) <= now \/ panel'[s].exp = Epoch(g))
  BY <1>0, <1>1, <1>2, ExpiryTakesEffect
<1>3. ASSUME PanelRead("ok", ReadBack(op[o].of, op[o].epoch)), panel' = panel
      PROVE  panel[s].st # "absent" /\ (Epoch(g) <= now \/ panel'[s].exp = Epoch(g))
  BY <1>0, <1>3, ReadBackTells DEF Epoch
<1>4. op'[o].st # "succeeded"
  BY <1>0, ExtStays
<1>5. CASE push'[g] = "ok"
  <2>1. push[g] # "ok"
    BY DEF Told
  <2>2. ASSUME NEW h \in Grant, PushExpiry(h) PROVE PanelCall(CallOf(o), "ok")
    <3>1. PICK r \in Answer :
            /\ PanelCall(CallOf(Extend(h)), r)
            /\ push' = [push EXCEPT ![h] =
                 IF r # "ok" THEN "error"
                 ELSE IF TwoCalls("extend_user") THEN "readback" ELSE "ok"]
      BY <2>2 DEF PushExpiry
    <3>2. h = g /\ r = "ok"
      BY <1>0, <1>5, <2>1, <3>1
    <3> QED
      BY <3>1, <3>2
  <2>3. ASSUME NEW h \in Grant, PushReadBack(h)
        PROVE  PanelRead("ok", ReadBack(op[o].of, op[o].epoch)) /\ panel' = panel
    <3>1. PICK r \in Answer :
            /\ PanelRead(r, ReadBack(op[Extend(h)].of, op[Extend(h)].epoch))
            /\ push' = [push EXCEPT ![h] = IF r = "ok" THEN "ok" ELSE "error"]
      BY <2>3 DEF PushReadBack
    <3>2. h = g /\ r = "ok"
      BY <1>0, <1>5, <2>1, <3>1
    <3> QED
      BY <2>3, <3>1, <3>2 DEF PushReadBack, panelVars
  <2>4. ASSUME NEW h \in Grant, PushRecord(h) \/ PushCrash(h) PROVE FALSE
    BY <1>0, <1>5, <2>1, <2>4 DEF PushRecord, PushCrash
  <2>5. ASSUME NEW h \in Grant, NEW x \in Session, VerifyAdReward(h, x) PROVE FALSE
    BY <1>0, <1>5, <2>1, <2>5 DEF VerifyAdReward
  <2>6. AdNext
    <3>1. push' # push
      BY <1>5, <2>1
    <3> QED
      BY <3>1 DEF Next, ConnectStep, AdStep, DrainStep, ReapStep, AdminStep, TimeStep, LandStep
  <2>7. \A u, x : RequestAdToken(u, x) => push' = push
    BY DEF RequestAdToken
  <2>8. \A t, h : RecordVerifiedReward(t, h) => push' = push
    BY DEF RecordVerifiedReward
  <2> QED
    BY <1>2, <1>3, <1>5, <2>1, <2>2, <2>3, <2>4, <2>5, <2>6, <2>7, <2>8 DEF AdNext
<1>6. CASE \E w \in Worker : drainer'[w].cur = o /\ drainer'[w].at = "ok"
  <2>1. PICK w \in Worker : drainer'[w].cur = o /\ drainer'[w].at = "ok"
    BY <1>6
  <2>2. ~(drainer[w].cur = o /\ drainer[w].at = "ok")
    BY DEF Told, ToldDrainer
  <2>3. PICK x \in Worker : DrainerNext(x)
    <3>1. drainer' # drainer
      BY <2>1, <2>2
    <3> QED
      BY <3>1 DEF Next, ConnectStep, AdStep, DrainStep, ReapStep, AdminStep, TimeStep, LandStep
  <2>4. x = w
    <3>1. CASE x # w
      <4>1. drainer'[w] = drainer[w]
        BY <1>0, <2>3, <3>1 DEF DrainerNext, Claim, Dispatch, DispatchSecond, Record, DrainerCrash
      <4> QED
        BY <2>1, <2>2, <4>1
    <3> QED
      BY <3>1
  <2>5. ASSUME NEW p \in OpId, Dispatch(w, p) PROVE PanelCall(CallOf(o), "ok")
    <3>1. PICK r \in Answer :
            /\ PanelCall(CallOf(p), r)
            /\ drainer' = [drainer EXCEPT ![w].cur = p,
                 ![w].at = IF r = "ok" /\ TwoCalls(op[p].kind) THEN "second" ELSE r]
      BY <2>5 DEF Dispatch
    <3>2. drainer'[w].cur = p /\ drainer'[w].at = IF r = "ok" /\ TwoCalls(op[p].kind) THEN "second" ELSE r
      BY <1>0, <3>1 DEF Tick_
    <3> QED
      BY <2>1, <3>1, <3>2
  <2>6. CASE DispatchSecond(w)
    <3>1. PICK r \in Answer :
            /\ IF op[drainer[w].cur].kind = "revoke_user"
               THEN PanelCall(Request("delete", op[drainer[w].cur].of, 0), r)
               ELSE /\ PanelRead(r, ReadBack(op[drainer[w].cur].of, op[drainer[w].cur].epoch))
                    /\ UNCHANGED panelVars
            /\ drainer' = [drainer EXCEPT ![w].at = r]
      BY <2>6 DEF DispatchSecond
    <3>2. drainer'[w].cur = drainer[w].cur /\ drainer'[w].at = r
      BY <1>0, <3>1 DEF Tick_
    <3> QED
      BY <1>0, <1>3, <2>1, <3>1, <3>2 DEF panelVars
  <2>7. CASE Claim(w) \/ Record(w) \/ DrainerCrash(w)
    <3>1. drainer'[w].at = "first"
      BY <2>7, NotTold
    <3> QED
      BY <2>1, <3>1
  <2> QED
    BY <1>2, <2>3, <2>4, <2>5, <2>6, <2>7 DEF DrainerNext
<1> QED
  BY <1>4, <1>5, <1>6 DEF Told, ToldDrainer, Extend

LEMMA FreshUntold ==
  ASSUME IInv, ExtensionsPaid, NEW g \in Grant, NEW s \in Session, ExtNew(g, s)
  PROVE  ~Told(g)'
<1>1. /\ op'[Extend(g)].st = "pending" /\ push'[g] = "pushing" /\ drainer' = drainer
      /\ grant[g].st # "consumed"
  BY ExtNewFacts
<1>2. \A w \in Worker : ~(drainer[w].cur = Extend(g) /\ drainer[w].at = "ok")
  BY <1>1 DEF IInv, WorkInProgress, BatchesExist, ExtensionsPaid
<1> QED
  BY <1>1, <1>2 DEF Told, ToldDrainer, Extend

-----------------------------------------------------------------------------
(* The panel.                                                              *)

LEMMA AbsentStays ==
  ASSUME IInv, LimitInv, ServedInv, MirrorInv, Next, NEW s \in Session, conn'[s].pc \in Before
  PROVE  panel'[s].st = "absent" /\ \A g \in Grant : Ext(g, s)' => ~Told(g)'
<1>1. conn[s].pc \in Before /\ panel[s].st = "absent" /\ \A g \in Grant : Ext(g, s) => ~Told(g)
  BY RequestProgress DEF MirrorInv, Mirrored
<1>2. ~CreateUser(s)
  <2>1. ASSUME CreateUser(s) PROVE conn'[s].pc \in {"created", "failing"}
    <3>1. \E to \in {"created", "failing"} : Goto(s, to)
      BY <2>1 DEF CreateUser
    <3> QED
      BY <3>1 DEF Goto, IInv, TypeOK, ConnType, ConnRow
  <2> QED
    BY <2>1 DEF Before
<1>3. panel'[s].st = "absent"
  <2>1. ASSUME NEW c \in Call, c.who = s, Known(c), panel'[s] = Applied(c, panel[s])
        PROVE  panel'[s].st = "absent"
    <3>1. c.do # "create"
      BY <1>1, <1>2, <2>1 DEF Known, Before, Fallen, Harm
    <3> QED
      BY <1>1, <2>1, <3>1 DEF Applied, Absent
  <2> QED
    BY <1>1, <2>1, PanelMoves DEF MirrorInv
<1>4. ASSUME NEW g \in Grant, Ext(g, s)' PROVE ~Told(g)'
  <2>1. CASE Ext(g, s)
    BY <1>1, <2>1, NewlyTold DEF MirrorInv
  <2>2. CASE ExtNew(g, s)
    BY <2>2, FreshUntold DEF MirrorInv
  <2> QED
    BY <1>4, <2>1, <2>2, ExtMoves DEF MirrorInv
<1> QED
  BY <1>3, <1>4

LEMMA CreatedMirrored ==
  ASSUME IInv, LimitInv, ServedInv, MirrorInv, Next, NEW s \in Session,
         CreateUser(s), conn'[s].pc = "created"
  PROVE  panel'[s].exp = conn'[s].exp /\ \A g \in Grant : Ext(g, s)' => ~Told(g)'
<1> DEFINE c == Request("create", s, conn[s].exp)
<1>0. /\ conn \in [Session -> ConnRow] /\ panel \in [Session -> PanelUser]
      /\ conn[s].pc = "displacing"
  BY DEF IInv, TypeOK, ConnType, PanelType, CreateUser, At
<1>1. panel[s].st = "absent" /\ \A g \in Grant : Ext(g, s) => ~Told(g)
  BY <1>0 DEF MirrorInv, Mirrored, Before
<1>2. PICK r \in Answer : PanelCall(c, r) /\ Goto(s, IF r = "ok" THEN "created" ELSE "failing")
  BY DEF CreateUser
<1>3. r = "ok" /\ conn'[s].exp = conn[s].exp
  BY <1>0, <1>2 DEF Goto, ConnRow
<1>4. Apply(c)
  BY <1>2, <1>3 DEF PanelCall
<1>5. panel'[s] = Applied(c, panel[s])
  BY <1>0, <1>4 DEF Apply, Request
<1>6. panel'[s].exp = conn'[s].exp
  BY <1>1, <1>3, <1>5 DEF Applied, Request
<1>7. ASSUME NEW g \in Grant, Ext(g, s)' PROVE ~Told(g)'
  <2>1. CASE Ext(g, s)
    BY <1>1, <2>1, NewlyTold DEF MirrorInv
  <2>2. CASE ExtNew(g, s)
    BY <2>2, FreshUntold DEF MirrorInv
  <2> QED
    BY <1>7, <2>1, <2>2, ExtMoves DEF MirrorInv
<1> QED
  BY <1>6, <1>7

LEMMA MirroredStep ==
  ASSUME IInv, LimitInv, ServedInv, MirrorInv, Next, NEW s \in Session
  PROVE  Mirrored(s)'
<1>1. conn'[s].pc \in Before =>
        panel'[s].st = "absent" /\ \A g \in Grant : Ext(g, s)' => ~Told(g)'
  BY AbsentStays
<1>2. ASSUME ~IsClosed(s)', conn'[s].pc \in Made
      PROVE  /\ (\A g \in Grant : ~Ext(g, s)') => panel'[s].exp = conn'[s].exp
             /\ \A g \in Grant : Sole(g, s)' /\ Told(g)' =>
                  Epoch(g)' <= now' \/ panel'[s].exp = Epoch(g)'
  <2>1. ~IsClosed(s) /\ RequestStep(s)
    BY <1>2, NextInv, RequestSteps DEF LedgerStep, ClosedFinal, IsClosed
  <2>2. CASE CreateUser(s) /\ conn'[s].pc = "created"
    BY <2>2, CreatedMirrored DEF Sole
  <2>3. CASE conn[s].pc \in Made
    <3>1. ~Admit(s) /\ ~CreateUser(s) /\ conn[s].pc \notin Fallen
      BY <2>3 DEF Admit, CreateUser, At, Made, Fallen
    <3>2. conn'[s].exp = conn[s].exp
      BY <1>2, <3>1, RequestProgress
    <3>3. panel[s].st = "active"
      BY <2>1, <2>3 DEF ServedInv, Served, Made
    <3>4. panel'[s].exp = panel[s].exp \/ \E h \in Grant : Ext(h, s) /\ panel'[s].exp = Epoch(h)
      <4>1. ASSUME NEW c \in Call, c.who = s, Known(c), panel'[s] = Applied(c, panel[s])
            PROVE  \/ panel'[s].exp = panel[s].exp
                   \/ \E h \in Grant : Ext(h, s) /\ panel'[s].exp = Epoch(h)
        <5>1. c.do = "expiry" /\ Carries(c)
          BY <2>1, <3>1, <4>1 DEF Known
        <5>2. PICK h \in Grant : Ext(h, s) /\ Epoch(h) = c.exp
          BY <4>1, <5>1 DEF Carries
        <5>3. panel'[s].exp = panel[s].exp \/ panel'[s].exp = c.exp
          BY <3>3, <4>1, <5>1 DEF Applied, AfterExpiry
        <5> QED
          BY <5>2, <5>3
      <4> QED
        BY <4>1, PanelMoves DEF MirrorInv
    <3>5. ASSUME \A g \in Grant : ~Ext(g, s)' PROVE panel'[s].exp = conn'[s].exp
      <4>1. \A g \in Grant : ~Ext(g, s)
        BY <3>5, ExtMoves DEF MirrorInv
      <4> QED
        BY <2>1, <2>3, <3>2, <3>4, <4>1 DEF MirrorInv, Mirrored
    <3>6. ASSUME NEW g \in Grant, Sole(g, s)', Told(g)'
          PROVE  Epoch(g)' <= now' \/ panel'[s].exp = Epoch(g)'
      <4>1. Sole(g, s) /\ Epoch(g)' = Epoch(g)
        BY <3>6, SoleMoves, FreshUntold DEF MirrorInv
      <4>2. panel'[s].exp = panel[s].exp \/ panel'[s].exp = Epoch(g)
        BY <3>4, <4>1 DEF Sole
      <4>3. Epoch(g) <= now \/ panel'[s].exp = Epoch(g)
        <5>1. CASE Told(g)
          BY <2>1, <2>3, <4>1, <4>2, <5>1 DEF MirrorInv, Mirrored
        <5>2. CASE ~Told(g)
          BY <3>6, <4>1, <5>2, NewlyTold DEF MirrorInv, Sole
        <5> QED
          BY <5>1, <5>2
      <4>4. Epoch(g) <= now => Epoch(g) <= now'
        <5>1. Epoch(g) \in Nat /\ now \in Nat
          BY IdFacts DEF Epoch, IInv, TypeOK, DatabaseType, OpRow
        <5> QED
          BY <5>1, ClockGrows
      <4> QED
        BY <4>1, <4>3, <4>4
    <3> QED
      BY <3>5, <3>6
  <2> QED
    BY <1>2, <2>1, <2>2, <2>3 DEF RequestStep, Made
<1> QED
  BY <1>1, <1>2 DEF Mirrored

-----------------------------------------------------------------------------
(* The invariant, and what follows from it.                                *)

LEMMA MirrorStep == IInv /\ LimitInv /\ ServedInv /\ MirrorInv /\ Next => MirrorInv'
<1> SUFFICES ASSUME IInv, LimitInv, ServedInv, MirrorInv, Next PROVE MirrorInv'
  OBVIOUS
<1>1. ExtensionsPaid' /\ LimboKnown'
  BY PaidRows, LimboStays DEF MirrorInv
<1>2. \A s \in Session : Booked(s)' /\ Mirrored(s)'
  BY BookedStep, MirroredStep DEF MirrorInv
<1> QED
  BY <1>1, <1>2 DEF MirrorInv

LEMMA MirrorInitially == Init => MirrorInv
<1> SUFFICES ASSUME Init PROVE MirrorInv
  OBVIOUS
<1>1. /\ \A o \in OpId : ~Exists(o) /\ op[o].st = "none"
      /\ \A g \in Grant : push[g] = "idle"
      /\ \A w \in Worker : drainer[w].at = "first"
      /\ limbo = {} /\ \A s \in Session : conn[s].pc = "idle" /\ panel[s].st = "absent"
  BY DEF Init, DatabaseInit, PanelInit, DrainerInit, ConnInit, PushInit, NoConn, Absent, NoOp,
         Exists, Between
<1>2. \A g \in Grant : ~Told(g) /\ \A s \in Session : ~Ext(g, s)
  BY <1>1, IdFacts DEF Told, ToldDrainer, Ext
<1> QED
  BY <1>1, <1>2, IdFacts DEF MirrorInv, ExtensionsPaid, LimboKnown, Booked, Mirrored, Sole,
                             Displacing, Made

LEMMA MirrorInvariant == Spec => []MirrorInv
<1>1. MirrorInv /\ UNCHANGED vars => MirrorInv'
  <2> SUFFICES ASSUME MirrorInv, UNCHANGED vars PROVE MirrorInv'
    OBVIOUS
  <2>1. /\ op' = op /\ conn' = conn /\ limbo' = limbo /\ panel' = panel /\ session' = session
        /\ grant' = grant /\ push' = push /\ drainer' = drainer /\ now' = now
    BY DEF vars, dbVars, panelVars
  <2>2. \A g \in Grant : Extend(g)' = Extend(g)
    BY DEF Extend
  <2>3. \A g \in Grant : (Told(g)' <=> Told(g)) /\ Epoch(g)' = Epoch(g)
    BY <2>1, <2>2 DEF Told, ToldDrainer, Epoch
  <2>4. \A g \in Grant, s \in Session : Ext(g, s)' <=> Ext(g, s)
    BY <2>1, <2>2 DEF Ext, Exists
  <2>5. \A g \in Grant, s \in Session : Sole(g, s)' <=> Sole(g, s)
    BY <2>4 DEF Sole
  <2>6. ExtensionsPaid'
    BY <2>1, <2>2 DEF MirrorInv, ExtensionsPaid, Exists
  <2>7. LimboKnown'
    BY <2>1, <2>2 DEF MirrorInv, LimboKnown, Carries, Ext, Exists, Epoch
  <2>8. \A s \in Session : Booked(s)' /\ Mirrored(s)'
    BY <2>1, <2>3, <2>4, <2>5 DEF MirrorInv, Booked, Mirrored, IsClosed
  <2> QED
    BY <2>6, <2>7, <2>8 DEF MirrorInv
<1> QED
  BY <1>1, MirrorInitially, MirrorStep, ServedInvariant, LimitInvariant, InvariantHolds, PTL DEF Spec

(* When a live session was extended at most once and its rows have         *)
(* succeeded, the panel shows the expiry of the ledger: neither an         *)
(* abandoned createUser nor a push or a replay that crosses another leaves *)
(* an older one behind, and no success is recorded that did not happen.    *)
THEOREM SoleExtensionIsMirrored == Spec => []SoleExtensionMirrored
<1>1. IInv /\ MirrorInv => SoleExtensionMirrored
  <2> SUFFICES ASSUME IInv, MirrorInv, NEW s \in Session, Quiet(s),
                      \A o, p \in OpId : op[o].of = s /\ op[p].of = s => o = p
               PROVE  panel[s].exp = session[s].exp
    BY DEF SoleExtensionMirrored
  <2>1. /\ ~IsClosed(s) /\ conn[s].pc = "done" /\ session[s].exp > now
        /\ \A o \in OpId : op[o].of = s => op[o].st = "succeeded"
    BY DEF Quiet, IsLive, IsClosed, Live, Closed
  <2>2. Booked(s) /\ Mirrored(s)
    BY DEF MirrorInv
  <2>3. CASE \A g \in Grant : ~Ext(g, s)
    BY <2>1, <2>2, <2>3 DEF Booked, Mirrored, Made
  <2>4. ASSUME NEW g \in Grant, Ext(g, s) PROVE panel[s].exp = session[s].exp
    <3>1. Sole(g, s)
      <4>1. \A h \in Grant : Ext(h, s) => Extend(h) = Extend(g)
        BY <2>4, IdFacts DEF Ext
      <4> QED
        BY <2>4, <4>1 DEF Sole, Extend
    <3>2. Told(g)
      BY <2>1, <2>4, IdFacts DEF Told, Ext
    <3>3. session[s].exp = Epoch(g)
      BY <2>1, <2>2, <3>1 DEF Booked, Made
    <3>4. ~(Epoch(g) <= now)
      BY <2>1, <3>3 DEF IInv, TypeOK, DatabaseType, SessionRow
    <3> QED
      BY <2>1, <2>2, <3>1, <3>2, <3>3, <3>4 DEF Mirrored, Made
  <2> QED
    BY <2>3, <2>4
<1> QED
  BY <1>1, MirrorInvariant, InvariantHolds, PTL
=============================================================================
