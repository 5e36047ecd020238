------------------------------ MODULE Database ------------------------------
(***************************************************************************)
(* The PostgreSQL tables the backend's handlers share (db/schema.sql and   *)
(* db/migrations), and the statements several handlers have in common.     *)
(* Columns that no guard reads and no property mentions (close reasons,    *)
(* timestamps kept for audit, credentials, payload keys) are left out.     *)
(*                                                                         *)
(* Time is a coarse clock.  A row id is a model value drawn from a fixed   *)
(* pool, so the size of the pool bounds how often a table is inserted to.  *)
(***************************************************************************)
EXTENDS Integers, FiniteSets

CONSTANTS
  User, Session, Grant, Txn, Node,  \* users, and the pools of row ids
  None,                             \* SQL null
  UserOf, DeviceOf,                 \* caller and device of each connect request
  PremiumNodes,                     \* nodes of the premium tier
  FreeTTL, GrantTime, TokenWindow, SessionCap, SubTime, \* durations, in ticks
  AdsNeeded,                        \* verified ads that fulfil a connect/extend grant
  FreeMax, PremiumMax,              \* plans.max_concurrent_sessions
  Horizon                           \* bound: the clock stops here

ASSUME NoneAssumption == None \notin User \cup Session \cup Grant \cup Node

ASSUME ParamAssumption ==
  /\ DOMAIN UserOf = Session /\ DOMAIN DeviceOf = Session
  /\ \A s \in Session : UserOf[s] \in User
  /\ PremiumNodes \subseteq Node
  /\ {FreeTTL, GrantTime, TokenWindow, SessionCap, SubTime, AdsNeeded} \subseteq Nat \ {0}
  /\ FreeMax \in Nat \ {0} /\ PremiumMax \in Nat \ {0} /\ FreeMax <= PremiumMax
  /\ Horizon \in Nat

VARIABLES
  now,      \* the clock of the database and of the API processes
  user,     \* users and their internal subscription
  session,  \* vpn_sessions
  grant,    \* ad_reward_grants
  reward,   \* ad_rewards: the grant each AdMob transaction was stored for
  op,       \* panel_operations, the outbox
  node,     \* nodes
  spent     \* how much of each bound on faults, crashes and commands is used

dbVars == <<now, user, session, grant, reward, op, node>>

-----------------------------------------------------------------------------
\* Column types.

Tier == {"free", "premium"}
Live == {"provisioning", "active", "limited"}
Closed == {"expired", "revoked", "failed"}
NoSession == [st |-> "none", tier |-> "free", node |-> None, exp |-> 0, born |-> 0]
SessionRow == [st : Live \cup Closed \cup {"none"}, tier : Tier,
               node : Node \cup {None}, exp : Nat, born : Nat]

NoGrant == [st |-> "none", owner |-> None, sess |-> None,
            need |-> 0, got |-> 0, minutes |-> 0, exp |-> 0]
GrantRow == [st : {"none", "pending", "fulfilled", "consumed"},
             owner : User \cup {None}, sess : Session \cup {None},
             need : Nat, got : Nat, minutes : Nat, exp : Nat]

(* A session enqueues at most one cleanup op when it is closed ("end") and *)
(* at most one when its provisioning fails ("fail"); a grant enqueues at   *)
(* most one extend op.  That pair names the row.                           *)
OpId == ({"end", "fail"} \X Session) \cup ({"extend"} \X Grant)
End(s) == <<"end", s>>
Fail(s) == <<"fail", s>>
Extend(g) == <<"extend", g>>

OpKind == {"revoke_user", "delete_user", "extend_user"}
NoOp == [st |-> "none", kind |-> "delete_user", of |-> None,
         epoch |-> 0, tries |-> 0, due |-> FALSE]
OpRow == [st : {"none", "pending", "in_flight", "failed", "succeeded", "dead"},
          kind : OpKind, of : Session \cup {None}, epoch : Nat,
          tries : Nat, due : BOOLEAN]

UserRow == [banned : BOOLEAN, paid : Nat]
NodeRow == [up : BOOLEAN, enabled : BOOLEAN, streak : Nat]
SpentRow == [fault : Nat, crash : Nat, admin : Nat]

DatabaseType ==
  /\ now \in Nat
  /\ user \in [User -> UserRow]
  /\ session \in [Session -> SessionRow]
  /\ grant \in [Grant -> GrantRow]
  /\ reward \in [Txn -> Grant \cup {None}]
  /\ op \in [OpId -> OpRow]
  /\ node \in [Node -> NodeRow]
  /\ spent \in SpentRow

DatabaseInit ==
  /\ now = 0
  /\ user = [u \in User |-> [banned |-> FALSE, paid |-> 0]]
  /\ session = [s \in Session |-> NoSession]
  /\ grant = [g \in Grant |-> NoGrant]
  /\ reward = [t \in Txn |-> None]
  /\ op = [o \in OpId |-> NoOp]
  /\ node = [n \in Node |-> [up |-> TRUE, enabled |-> TRUE, streak |-> 0]]
  /\ spent = [fault |-> 0, crash |-> 0, admin |-> 0]

-----------------------------------------------------------------------------
\* Statements shared by the handlers.

IsLive(s) == session[s].st \in Live
LiveOf(u) == {s \in Session : UserOf[s] = u /\ IsLive(s)}
Premium(u) == user[u].paid > now

\* insert into panel_operations ... values (..., 'pending', now())
NewOp(kind, s, epoch) ==
  [st |-> "pending", kind |-> kind, of |-> s,
   epoch |-> epoch, tries |-> 0, due |-> TRUE]

\* update vpn_sessions set status = st where id = any(S)
CloseAs(S, st) ==
  [s \in Session |-> IF s \in S THEN [session[s] EXCEPT !.st = st] ELSE session[s]]

\* Mutant: sessions still provisioning are closed without a cleanup row.
EnqueueActiveOnly(S, kind) ==
  [o \in OpId |-> IF \E s \in S : o = End(s) /\ session[s].st = "active"
                  THEN NewOp(kind, o[2], 0) ELSE op[o]]

\* one cleanup row per session just closed
EnqueueEnd(S, kind) ==
  [o \in OpId |-> IF \E s \in S : o = End(s) THEN NewOp(kind, o[2], 0) ELSE op[o]]

\* Mutant: the revokes are enqueued but the sessions stay live.
RevokeUsersOnly(S) ==
  /\ session' = session
  /\ op' = EnqueueEnd(S, "revoke_user")

\* Mark every session of S revoked and enqueue its revoke, in one transaction.
RevokeAll(S) ==
  /\ session' = CloseAs(S, "revoked")
  /\ op' = EnqueueEnd(S, "revoke_user")

Spend(what, bound) ==
  /\ spent[what] < bound
  /\ spent' = [spent EXCEPT ![what] = @ + 1]

\* Time passes.
Tick ==
  /\ now < Horizon
  /\ now' = now + 1
  /\ UNCHANGED <<user, session, grant, reward, op, node, spent>>

(* Time passes for one outbox row: next_attempt_at, set by a claim (the    *)
(* lease) or by a failed attempt (the backoff), is reached.                *)
Elapse(o) ==
  /\ op[o].st \in {"in_flight", "failed"} /\ ~op[o].due
  /\ op' = [op EXCEPT ![o].due = TRUE]
  /\ UNCHANGED <<now, user, session, grant, reward, node, spent>>
=============================================================================
