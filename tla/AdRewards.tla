----------------------------- MODULE AdRewards -----------------------------
(***************************************************************************)
(* ads/ads.service.ts: a grant is minted, AdMob's signed callbacks count   *)
(* the ads watched for it, and verify-ad-reward spends it on one session:  *)
(* the new expiry is committed with an extend row in the outbox, and then  *)
(* pushed to the panel inline.                                             *)
(***************************************************************************)
EXTENDS PanelApi

VARIABLE push  \* the inline panel push of the request that consumed a grant

PushPc == {"idle", "pushing", "readback", "ok", "error", "done"}
PushType == push \in [Grant -> PushPc]
PushInit == push = [g \in Grant |-> "idle"]

\* rulesFor: what each purpose asks for and gives.
Rules == {[need |-> AdsNeeded, minutes |-> GrantTime],   \* connect, extend
          [need |-> 1, minutes |-> 0]}                   \* disconnect

RequestAdToken(u, s) ==
  /\ \E g \in Grant, rule \in Rules :
       /\ grant[g].st = "none"
       /\ grant' = [grant EXCEPT ![g] =
            [st |-> "pending", owner |-> u, sess |-> s, need |-> rule.need,
             got |-> 0, minutes |-> rule.minutes, exp |-> now + TokenWindow]]
  /\ UNCHANGED <<now, user, session, reward, op, node, spent, panelVars, push>>

\* Mutant: the status is not looked at.
WindowOpen(g) == grant[g].exp > now

GrantOpen(g) == grant[g].st = "pending" /\ grant[g].exp > now

\* Mutant: a redelivered callback counts again.
EveryDelivery(t) == TRUE

\* on conflict (network, transaction_id) do nothing
FirstDelivery(t) == reward[t] = None

(* A signed callback.  One whose transaction is already stored, one with   *)
(* the closing-ad sentinel and one with an unknown nonce change nothing.   *)
RecordVerifiedReward(t, g) ==
  /\ grant[g].st # "none"
  /\ FirstDelivery(t)
  /\ reward' = [reward EXCEPT ![t] = g]
  /\ grant' = IF ~GrantOpen(g) THEN grant
              ELSE [grant EXCEPT ![g].got = @ + 1,
                                 ![g].st = IF grant[g].got + 1 >= grant[g].need
                                           THEN "fulfilled" ELSE @]
  /\ UNCHANGED <<now, user, session, op, node, spent, panelVars, push>>

Later(a, b) == IF a > b THEN a ELSE b
Earlier(a, b) == IF a < b THEN a ELSE b

CapOf(s) == session[s].born + SessionCap
BaseOf(s) == Later(now, session[s].exp)

Spendable(g) ==
  /\ grant[g].st \notin {"none", "consumed"}
  /\ grant[g].exp > now
  /\ grant[g].got >= grant[g].need

\* Mutant: the session's status is not looked at.
OwnedOnly(g, s) == UserOf[s] = grant[g].owner /\ session[s].st # "none"

Fundable(g, s) == UserOf[s] = grant[g].owner /\ IsLive(s)

(* The checks of the transaction.  Every failed check throws, and so rolls *)
(* back, the one on the window included although it first marks the grant  *)
(* expired; a consumed grant is answered from what it bought.              *)
CanVerify(g, s) ==
  /\ Spendable(g)
  /\ grant[g].sess \in {None, s}
  /\ Fundable(g, s)
  /\ grant[g].minutes > 0 => BaseOf(s) < CapOf(s)

\* Mutant: the lifetime cap is checked but not applied.
Uncapped(g, s) == BaseOf(s) + grant[g].minutes

NewExpiry(g, s) == Earlier(BaseOf(s) + grant[g].minutes, CapOf(s))

\* The expire_epoch of the outbox row, which the inline push sends as well.
ExpireEpoch(g, s) == NewExpiry(g, s)

VerifyAdReward(g, s) ==
  /\ CanVerify(g, s)
  /\ grant' = [grant EXCEPT ![g].st = "consumed", ![g].sess = s]
  /\ IF grant[g].minutes = 0
     THEN UNCHANGED <<session, op, push>>
     ELSE /\ session' = [session EXCEPT
               ![s].exp = NewExpiry(g, s),
               ![s].st = IF @ = "provisioning" THEN "active" ELSE @]
          /\ op' = [op EXCEPT ![Extend(g)] = NewOp("extend_user", s, ExpireEpoch(g, s))]
          /\ push' = [push EXCEPT ![g] = "pushing"]
  /\ UNCHANGED <<now, user, reward, node, spent, panelVars>>

PushExpiry(g) ==
  /\ push[g] = "pushing"
  /\ \E r \in Answer :
       /\ PanelCall(CallOf(Extend(g)), r)
       /\ push' = [push EXCEPT ![g] =
            IF r # "ok" THEN "error"
            ELSE IF TwoCalls("extend_user") THEN "readback" ELSE "ok"]
  /\ UNCHANGED dbVars

PushReadBack(g) ==
  /\ push[g] = "readback"
  /\ \E r \in Answer :
       /\ PanelRead(r, ReadBack(op[Extend(g)].of, op[Extend(g)].epoch))
       /\ push' = [push EXCEPT ![g] = IF r = "ok" THEN "ok" ELSE "error"]
  /\ UNCHANGED <<dbVars, panelVars>>

\* Mutant: a failed push is written off as done.
AlwaysSynced(r) == "succeeded"

\* Mutant: the status of the response is written instead of the row's.
PanelSync(r) == IF r = "ok" THEN "synced" ELSE "pending"

PushOutcome(r) == IF r = "ok" THEN "succeeded" ELSE "failed"

\* The outcome is written whatever the drainer has made of the row meanwhile.
PushRecord(g) ==
  /\ push[g] \in {"ok", "error"}
  /\ op' = [op EXCEPT ![Extend(g)].st = PushOutcome(push[g]),
                      ![Extend(g)].due = FALSE]
  /\ push' = [push EXCEPT ![g] = "done"]
  /\ UNCHANGED <<now, user, session, grant, reward, node, spent, panelVars>>

\* The process restarts under the request.
PushCrash(g) ==
  /\ push[g] \in {"pushing", "readback", "ok", "error"}
  /\ Spend("crash", MaxCrash)
  /\ push' = [push EXCEPT ![g] = "done"]
  /\ UNCHANGED <<dbVars, panelVars>>

AdNext ==
  \/ \E u \in User, s \in Session \cup {None} : RequestAdToken(u, s)
  \/ \E t \in Txn, g \in Grant : RecordVerifiedReward(t, g)
  \/ \E g \in Grant, s \in Session : VerifyAdReward(g, s)
  \/ \E g \in Grant : PushExpiry(g) \/ PushReadBack(g) \/ PushRecord(g) \/ PushCrash(g)
=============================================================================
