------------------------------- MODULE Backend -------------------------------
(***************************************************************************)
(* The backend as a whole: connect requests, ad rewards, the drainers, the *)
(* reaper and the operator over one database and one panel.                *)
(***************************************************************************)
EXTENDS OutboxDrainer, Connection, AdRewards, Maintenance

vars == <<dbVars, spent, panelVars, drainer, conn, push>>

Init ==
  /\ DatabaseInit /\ PanelInit
  /\ DrainerInit /\ ConnInit /\ PushInit

ConnectStep == \E s \in Session : ConnNext(s) /\ UNCHANGED <<drainer, push>>
AdStep == AdNext /\ UNCHANGED <<drainer, conn>>
DrainStep == \E w \in Worker : DrainerNext(w) /\ UNCHANGED <<conn, push>>
ReapStep == /\ \E S \in SUBSET Overdue : Reap(S)
            /\ UNCHANGED <<panelVars, drainer, conn, push>>
AdminStep == AdminNext /\ UNCHANGED <<panelVars, drainer, conn, push>>
TimeStep == /\ Tick \/ \E o \in OpId : Elapse(o)
            /\ UNCHANGED <<panelVars, drainer, conn, push>>
LandStep == \E c \in limbo : Land(c) /\ UNCHANGED <<drainer, conn, push>>

Next ==
  \/ ConnectStep \/ AdStep \/ DrainStep \/ ReapStep
  \/ AdminStep \/ TimeStep \/ LandStep

Spec == Init /\ [][Next]_vars

TypeOK ==
  DatabaseType /\ PanelType /\ DrainerType /\ ConnType /\ PushType

-----------------------------------------------------------------------------
\* Safety.

IsClosed(s) == session[s].st \in Closed
HasUser(s) == panel[s].st # "absent"
Cleanup(s) == {End(s), Fail(s)}
Outstanding(o) == op[o].st \in {"pending", "in_flight", "failed"}

(* The expiry on the panel is a mirror that may lag behind the ledger but  *)
(* never runs ahead of it: no late, repeated, reordered or abandoned call  *)
(* (createUser, inline push, drainer replay) gives a user more time than   *)
(* vpn_sessions.expires_at.                                                *)
PanelNeverAhead ==
  \A s \in Session : HasUser(s) => panel[s].exp <= session[s].exp

(* A session that connect has answered and that nobody closed has its user *)
(* on the panel, enabled: no drainer, inline revoke or abandoned call ever *)
(* disables or deletes the user of a live session.                         *)
LiveUserServed ==
  \A s \in Session : IsLive(s) /\ conn[s].pc = "done" => panel[s].st = "active"

(* A cleanup row exists only for a closed session, so the drainer is never *)
(* told to take a live user down; and the rows of the reaper and of the    *)
(* revocations commit with the status they follow from.                    *)
CleanupMatchesStatus ==
  \A s \in Session :
    /\ \A o \in Cleanup(s) : op[o].st # "none" => IsClosed(s)
    /\ session[s].st \in {"revoked", "expired"} => op[End(s)].st # "none"

(* Whoever closes a session, its panel user is gone or an outbox row still *)
(* answers for it (a dead row is reported to the operator).  What is left  *)
(* out is exactly: a user created after its session had closed ("late"),   *)
(* and a failSession cut between its first two statements.                 *)
ClosedUserAccounted ==
  \A s \in Session :
    IsClosed(s) /\ HasUser(s) /\ s \notin late =>
      \/ \E o \in Cleanup(s) : Outstanding(o) \/ op[o].st = "dead"
      \/ conn[s].pc = "failed_row"
      \/ conn[s].pc = "cut" /\ session[s].st = "failed"

(* Connects that race each other, the reaper, revocations and changes of   *)
(* the user's plan never leave a user with more live sessions than the     *)
(* largest plan allows, nor a device with two.                             *)
ConcurrencyLimit ==
  /\ \A u \in User : Cardinality(LiveOf(u)) <= PremiumMax
  /\ \A s, x \in Session :
       IsLive(s) /\ IsLive(x) /\ DeviceOf[s] = DeviceOf[x] => s = x

(* A free session has access beyond its provisioning window only if a      *)
(* grant bound to it was consumed for which AdMob confirmed as many        *)
(* distinct ads as it asks for: redelivered callbacks, callbacks after the *)
(* window and repeated verify calls buy nothing.                           *)
FreeAccessIsPaid ==
  \A s \in Session :
    /\ session[s].tier = "free"
    /\ session[s].st = "active" \/ session[s].exp > session[s].born + FreeTTL
    => \E g \in Grant :
         /\ grant[g].st = "consumed" /\ grant[g].sess = s /\ grant[g].minutes > 0
         /\ Cardinality({t \in Txn : reward[t] = g}) >= AdsNeeded

(* When one extension at most was bought, and every row of the session has *)
(* succeeded, the panel shows the expiry of the ledger.  (With two         *)
(* extensions it need not: see MirrorConverges.)                           *)
Quiet(s) ==
  /\ IsLive(s) /\ conn[s].pc = "done" /\ session[s].exp > now
  /\ \A o \in OpId : op[o].of = s => op[o].st = "succeeded"
  /\ \A c \in limbo : c.who # s
  /\ \A g \in Grant : grant[g].sess = s => push[g] \in {"idle", "done"}
  /\ \A w \in Worker : drainer[w].cur # None => op[drainer[w].cur].of # s

SoleExtensionMirrored ==
  \A s \in Session :
    Quiet(s) /\ (\A o, p \in OpId : op[o].of = s /\ op[p].of = s => o = p)
    => panel[s].exp = session[s].exp

-----------------------------------------------------------------------------
\* What no step does.

(* A closed session stays closed and its expiry is final, although         *)
(* failSession overwrites the status and verify updates the row late.      *)
ClosedFinal ==
  \A s \in Session : IsClosed(s) =>
    session'[s].st \in Closed /\ session'[s].exp = session[s].exp

ClosedStaysClosed == [][ClosedFinal]_vars

(* A consumed grant is never touched again: neither spent a second time    *)
(* nor re-bound nor re-opened by a late callback.                          *)
SpentForGood ==
  \A g \in Grant : grant[g].st = "consumed" => grant'[g] = grant[g]

ConsumedOnce == [][SpentForGood]_vars

(* The expiry of a session only moves in a step that consumes a grant      *)
(* bound to it, forward, by no more than the grant's minutes and not past  *)
(* the cap.                                                                *)
Bought ==
  \A s \in Session :
    session[s].st # "none" /\ session'[s].exp # session[s].exp =>
    /\ \E g \in Grant :
         /\ grant[g].st # "consumed" /\ grant'[g].st = "consumed"
         /\ grant'[g].sess = s
         /\ session'[s].exp <= BaseOf(s) + grant[g].minutes
    /\ session[s].exp < session'[s].exp /\ session'[s].exp <= CapOf(s)

TimeIsBought == [][Bought]_vars

(* Once a cleanup row has succeeded or died it is settled: no drainer that *)
(* comes back after its lease lapsed re-opens it.                          *)
CleanupSettlesOnce ==
  [][\A s \in Session : \A o \in Cleanup(s) :
       op[o].st \in {"succeeded", "dead"} => op'[o] = op[o]]_vars

-----------------------------------------------------------------------------
(* The tables implement the contract of sessions: a session is open while  *)
(* its status is a live one, and a grant is used once it was consumed for  *)
(* time.  Every other step, of whatever component, changes none of that.   *)
Life(s) ==
  IF session[s].st = "none" THEN "none" ELSE IF IsLive(s) THEN "open" ELSE "closed"

Contract == INSTANCE SessionContract WITH
  Limit <- PremiumMax,
  life <- [s \in Session |-> Life(s)],
  until <- [s \in Session |-> session[s].exp],
  used <- {g \in Grant : grant[g].st = "consumed" /\ grant[g].minutes > 0}

KeepsContract == Contract!Spec

-----------------------------------------------------------------------------
(* Statements of the repository the code does not meet.                    *)

(* 0002_time_based_rewards.sql:82: the panel expiry is kept convergent.    *)
MirrorConverges ==
  \A s \in Session : Quiet(s) => panel[s].exp = session[s].exp

(* phase1-panel-contract.md:67: a revoke is never fire-and-forget.         *)
ClosedUserReclaimable ==
  \A s \in Session :
    IsClosed(s) /\ HasUser(s) /\ conn[s].pc \in {"done", "error"}
    => \E o \in Cleanup(s) : Outstanding(o) \/ op[o].st = "dead"

-----------------------------------------------------------------------------
(* Fairness: the drainers tick every five seconds, the reaper every        *)
(* minute, time passes for leases and backoffs, and an API process carries *)
(* its requests through unless it is cut off.  Nothing forces a client, an *)
(* operator or the panel's handling of an abandoned call.                  *)
Fairness ==
  /\ \A w \in Worker : WF_vars(Claim(w) /\ UNCHANGED <<conn, push>>)
  /\ \A w \in Worker : WF_vars(\E o \in OpId : Dispatch(w, o) /\ UNCHANGED <<conn, push>>)
  /\ \A w \in Worker : WF_vars((DispatchSecond(w) \/ Record(w)) /\ UNCHANGED <<conn, push>>)
  /\ \A o \in OpId : WF_vars(Elapse(o) /\ UNCHANGED <<panelVars, drainer, conn, push>>)
  /\ WF_vars(ReapStep)
  /\ \A g \in Grant :
       WF_vars((PushExpiry(g) \/ PushReadBack(g) \/ PushRecord(g)) /\ UNCHANGED <<drainer, conn>>)

FairSpec == Spec /\ Fairness

(* Every row of the outbox is eventually carried out or given up for good, *)
(* whatever instances crash and leases lapse on the way.                   *)
OutboxSettles ==
  \A o \in OpId : <>[](op[o].st \in {"none", "succeeded", "dead"})

(* The user of a closed session is eventually taken off the panel, save in *)
(* the cases ClosedUserAccounted names.                                    *)
ClosedUserReclaimed ==
  \A s \in Session :
    IsClosed(s) ~> \/ ~HasUser(s) \/ s \in late
                   \/ \E o \in Cleanup(s) : op[o].st = "dead"
                   \/ conn[s].pc \in {"cut", "failed_row"}

(* A session past its expiry is eventually closed, or was extended.        *)
OverdueReaped ==
  \A s \in Session :
    IsLive(s) /\ session[s].exp <= now ~> ~IsLive(s) \/ session[s].exp > now
=============================================================================
