----------------------------- MODULE Connection -----------------------------
(***************************************************************************)
(* POST /connect: the guard of attest/attested.guard.ts and                *)
(* ConnectionService.connect.  One request per session id; the request's   *)
(* caller and device are UserOf and DeviceOf.                              *)
(***************************************************************************)
EXTENDS PanelApi

VARIABLE conn  \* where each connect request stands

ConnPc == {"idle", "guarded", "planned", "displacing", "disabled", "deleted", "created",
           "failing", "failed_row", "failed_op", "done", "error", "cut"}
NoConn == [pc |-> "idle", tier |-> "free", exp |-> 0, max |-> 0, todo |-> {}, cur |-> None]
ConnRow == [pc : ConnPc, tier : Tier, exp : Nat, max : Nat,
            todo : SUBSET Session, cur : Session \cup {None}]

ConnType == conn \in [Session -> ConnRow]
ConnInit == conn = [s \in Session |-> NoConn]

At(s, pc) == conn[s].pc = pc
Goto(s, pc) == conn' = [conn EXCEPT ![s].pc = pc]

\* canActivate reads the ban; nothing after it does.
AttestedGuard(s) ==
  /\ At(s, "idle")
  /\ ~user[UserOf[s]].banned
  /\ Goto(s, "guarded")
  /\ UNCHANGED <<dbVars, spent, panelVars>>

\* The subscription is read outside the transaction that acts on it.
ResolveTierAndExpiry(s) ==
  LET u == UserOf[s]
      tier == IF Premium(u) THEN "premium" ELSE "free"
  IN
  /\ At(s, "guarded")
  /\ conn' = [conn EXCEPT ![s] =
       [pc |-> "planned", tier |-> tier, todo |-> {}, cur |-> None,
        exp |-> IF tier = "premium" THEN user[u].paid ELSE now + FreeTTL,
        max |-> IF tier = "premium" THEN PremiumMax ELSE FreeMax]]
  /\ UNCHANGED <<dbVars, spent, panelVars>>

\* Mutant: no room is made for the session about to be inserted.
DisplacedTooFew(V, u, max) ==
  LET over == Cardinality(LiveOf(u)) - max IN
  /\ V \subseteq LiveOf(u)
  /\ Cardinality(V) = IF over > 0 THEN over ELSE 0
  /\ \A v \in V, x \in LiveOf(u) \ V : session[v].born <= session[x].born

\* Live sessions over the limit, oldest first, as many as make room for one.
Displaced(V, u, max) ==
  LET over == Cardinality(LiveOf(u)) - max + 1 IN
  /\ V \subseteq LiveOf(u)
  /\ Cardinality(V) = IF over > 0 THEN over ELSE 0
  /\ \A v \in V, x \in LiveOf(u) \ V : session[v].born <= session[x].born

\* The order among eligible nodes is by load, which the panel decides.
PickNode(n, tier) ==
  /\ node[n].up /\ node[n].enabled /\ node[n].streak < 3
  /\ tier = "free" => n \notin PremiumNodes

\* Mutant: no unique index.
AnyDevice(s, V) == TRUE

\* The unique index on the device of live sessions.
DeviceFree(s, V) ==
  \A x \in Session \ V : IsLive(x) => DeviceOf[x] # DeviceOf[s]

\* The grant a free session is provisioned with: same expiry, bound to it.
ConnectGrant(s, exp) ==
  [st |-> "pending", owner |-> UserOf[s], sess |-> s, need |-> AdsNeeded,
   got |-> 0, minutes |-> GrantTime, exp |-> exp]

\* Phase A: one serializable transaction, no panel call.
Admit(s) ==
  LET c == conn[s] IN
  /\ At(s, "planned")
  /\ \E V \in SUBSET LiveOf(UserOf[s]), n \in Node :
       /\ Displaced(V, UserOf[s], c.max)
       /\ PickNode(n, c.tier)
       /\ DeviceFree(s, V)
       /\ session' = [CloseAs(V, "revoked") EXCEPT ![s] =
            [st |-> IF c.tier = "premium" THEN "active" ELSE "provisioning",
             tier |-> c.tier, node |-> n, exp |-> c.exp, born |-> now]]
       /\ op' = EnqueueEnd(V, "revoke_user")
       /\ IF c.tier = "premium" THEN UNCHANGED grant
          ELSE \E g \in Grant : /\ grant[g].st = "none"
                                /\ grant' = [grant EXCEPT ![g] = ConnectGrant(s, c.exp)]
       /\ conn' = [conn EXCEPT ![s].pc = "displacing", ![s].todo = V]
  /\ UNCHANGED <<now, user, reward, node, spent, panelVars>>

\* no_node_capacity or a device that still has a live session: rolled back.
Refuse(s) ==
  LET c == conn[s] IN
  /\ At(s, "planned")
  /\ \E V \in SUBSET LiveOf(UserOf[s]) :
       /\ Displaced(V, UserOf[s], c.max)
       /\ (\A n \in Node : ~PickNode(n, c.tier)) \/ ~DeviceFree(s, V)
  /\ Goto(s, "error")
  /\ UNCHANGED <<dbVars, spent, panelVars>>

(* Phase B, first part: disable and delete the displaced users; an error   *)
(* leaves the row of that user to the drainer.                             *)
Displace(s, v) ==
  /\ At(s, "displacing") /\ v \in conn[s].todo
  /\ \E r \in Answer :
       /\ PanelCall(Request("disable", v, 0), r)
       /\ conn' = [conn EXCEPT ![s].pc = IF r = "ok" THEN "disabled" ELSE "displacing",
                               ![s].cur = IF r = "ok" THEN v ELSE None,
                               ![s].todo = @ \ {v}]
  /\ UNCHANGED dbVars

DisplaceDelete(s) ==
  /\ At(s, "disabled")
  /\ \E r \in Answer :
       /\ PanelCall(Request("delete", conn[s].cur, 0), r)
       /\ Goto(s, IF r = "ok" THEN "deleted" ELSE "displacing")
  /\ UNCHANGED dbVars

\* update ... where op = 'revoke_user' and status = 'pending' and username = ...
DisplaceRecord(s) ==
  LET o == End(conn[s].cur) IN
  /\ At(s, "deleted")
  /\ op' = IF op[o].kind = "revoke_user" /\ op[o].st = "pending"
           THEN [op EXCEPT ![o].st = "succeeded", ![o].due = FALSE] ELSE op
  /\ Goto(s, "displacing")
  /\ UNCHANGED <<now, user, session, grant, reward, node, spent, panelVars>>

\* Phase B, second part: createUser, and a GET that checks the expiry.
CreateUser(s) ==
  /\ At(s, "displacing") /\ conn[s].todo = {}
  /\ \E r \in Answer :
       /\ PanelCall(Request("create", s, conn[s].exp), r)
       /\ Goto(s, IF r = "ok" THEN "created" ELSE "failing")
  /\ UNCHANGED dbVars

CheckUser(s) ==
  /\ At(s, "created")
  /\ \E r \in Answer :
       /\ PanelRead(r, ReadBack(s, conn[s].exp))
       /\ Goto(s, IF r = "ok" THEN "done" ELSE "failing")
  /\ UNCHANGED <<dbVars, panelVars>>

\* failSession: three statements, each committed on its own.
FailSession(s) ==
  /\ At(s, "failing")
  /\ session' = CloseAs({s}, "failed")
  /\ Goto(s, "failed_row")
  /\ UNCHANGED <<now, user, grant, reward, op, node, spent, panelVars>>

FailEnqueue(s) ==
  /\ At(s, "failed_row")
  /\ op' = [op EXCEPT ![Fail(s)] = NewOp("delete_user", s, 0)]
  /\ Goto(s, "failed_op")
  /\ UNCHANGED <<now, user, session, grant, reward, node, spent, panelVars>>

\* The streak only matters up to the breaker's threshold: it is capped there.
FailPenalise(s) ==
  /\ At(s, "failed_op")
  /\ node' = [node EXCEPT ![session[s].node].streak = IF @ < 3 THEN @ + 1 ELSE @]
  /\ Goto(s, "error")
  /\ UNCHANGED <<now, user, session, grant, reward, op, spent, panelVars>>

(* The process restarts under the request, or (in failSession, which       *)
(* swallows it) the database refuses a statement.                          *)
ConnCrash(s) ==
  /\ conn[s].pc \notin {"idle", "done", "error", "cut"}
  /\ Spend("crash", MaxCrash)
  /\ Goto(s, "cut")
  /\ UNCHANGED <<dbVars, panelVars>>

ConnNext(s) ==
  \/ AttestedGuard(s) \/ ResolveTierAndExpiry(s) \/ Admit(s) \/ Refuse(s)
  \/ \E v \in Session : Displace(s, v)
  \/ DisplaceDelete(s) \/ DisplaceRecord(s)
  \/ CreateUser(s) \/ CheckUser(s)
  \/ FailSession(s) \/ FailEnqueue(s) \/ FailPenalise(s) \/ ConnCrash(s)
=============================================================================
