---------------------------- MODULE Maintenance ----------------------------
(***************************************************************************)
(* What changes the tables from outside the app's own requests: the        *)
(* reaper, the node sync and the operator's commands of AdminService.      *)
(* Each is one transaction (node sync: one statement per node) and makes   *)
(* no panel call; the drainer carries out the rows it enqueues.            *)
(***************************************************************************)
EXTENDS Database

CONSTANT MaxAdmin  \* bound: operator commands and node status changes

ASSUME AdminAssumption == MaxAdmin \in Nat

Command == Spend("admin", MaxAdmin)

\* Mutant: sessions that were never activated are forgotten.
OverdueActive == {s \in Session : session[s].st \in {"active", "limited"} /\ session[s].exp <= now}

Overdue == {s \in Session : IsLive(s) /\ session[s].exp <= now}

\* One sweep; rows another transaction has locked are skipped.
Reap(S) ==
  /\ S \subseteq Overdue /\ S # {}
  /\ session' = CloseAs(S, "expired")
  /\ op' = EnqueueEnd(S, "delete_user")
  /\ UNCHANGED <<now, user, grant, reward, node, spent>>

\* The panel reports node n on- or offline; is_active is the operator's.
NodeSync(n, online) ==
  /\ Command
  /\ node' = [node EXCEPT ![n].up = online,
                          ![n].streak = IF online THEN 0 ELSE @]
  /\ UNCHANGED <<now, user, session, grant, reward, op>>

(* PATCH user: a ban flag (or none), then a tier (or none).  Premium is    *)
(* granted or prolonged for a fixed term; free ends it at once.            *)
MutateUser(u, ban, tier) ==
  /\ Command
  /\ user' = [user EXCEPT
       ![u].banned = IF ban = None THEN @ ELSE ban = "ban",
       ![u].paid = CASE tier = "premium" -> now + SubTime
                     [] tier = "free" -> 0
                     [] OTHER -> @]
  /\ IF ban = "ban" THEN RevokeAll(LiveOf(u)) ELSE UNCHANGED <<session, op>>
  /\ UNCHANGED <<now, grant, reward, node>>

KickSession(s) ==
  /\ Command
  /\ IsLive(s)
  /\ RevokeAll({s})
  /\ UNCHANGED <<now, user, grant, reward, node>>

PanicRevokeFreeSessions ==
  /\ Command
  /\ RevokeAll({s \in Session : IsLive(s) /\ session[s].tier = "free"})
  /\ UNCHANGED <<now, user, grant, reward, node>>

SetNodeActive(n, enabled) ==
  /\ Command
  /\ node' = [node EXCEPT ![n].enabled = enabled]
  /\ UNCHANGED <<now, user, session, grant, reward, op>>

ForceMigrateNode(n) ==
  /\ Command
  /\ node' = [node EXCEPT ![n].enabled = FALSE]
  /\ RevokeAll({s \in Session : IsLive(s) /\ session[s].node = n})
  /\ UNCHANGED <<now, user, grant, reward>>

AdminNext ==
  \/ \E u \in User, ban \in {"ban", "unban", None}, tier \in Tier \cup {None} :
       MutateUser(u, ban, tier)
  \/ \E s \in Session : KickSession(s)
  \/ PanicRevokeFreeSessions
  \/ \E n \in Node, b \in BOOLEAN : SetNodeActive(n, b) \/ NodeSync(n, b)
  \/ \E n \in Node : ForceMigrateNode(n)
=============================================================================
