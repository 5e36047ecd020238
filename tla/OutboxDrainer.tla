--------------------------- MODULE OutboxDrainer ---------------------------
(***************************************************************************)
(* workers/outbox-drainer.worker.ts: each backend instance runs a drainer. *)
(* A tick claims a batch of due rows in a short transaction (attempts + 1, *)
(* in_flight, a lease), then calls the panel for one row after the other   *)
(* with no lock held, and writes each outcome where the row is in_flight.  *)
(***************************************************************************)
EXTENDS PanelApi

CONSTANTS
  Worker,       \* the backend instances
  Batch,        \* OUTBOX_BATCH
  MaxAttempts   \* OUTBOX_MAX_ATTEMPTS

ASSUME DrainerAssumption ==
  /\ None \notin Worker
  /\ Batch \in Nat \ {0} /\ MaxAttempts \in Nat \ {0}

VARIABLE drainer  \* the tick each instance is in

(* got[o]: the attempts the claim returned for row o, 0 when o is not (or  *)
(* no longer) in the batch; cur: the row being dispatched; at: its next    *)
(* panel call, or the outcome still to be written.                         *)
Between == [got |-> [o \in OpId |-> 0], cur |-> None, at |-> "first"]
Tick_ == [got : [OpId -> Nat], cur : OpId \cup {None},
          at : {"first", "second"} \cup Answer]

DrainerType == drainer \in [Worker -> Tick_]
DrainerInit == drainer = [w \in Worker |-> Between]

\* Mutant: the row of an instance that crashed is never reclaimed.
NoReclaim == {o \in OpId : op[o].st \in {"pending", "failed"} /\ op[o].due}

\* Mutant: only fresh rows are claimed, a failed attempt is never repeated.
NoRetry == {o \in OpId : op[o].st \in {"pending", "in_flight"} /\ op[o].due}

Claimable ==
  {o \in OpId : op[o].st \in {"pending", "failed", "in_flight"} /\ op[o].due}

\* A row another instance has locked is skipped, so any part may be claimed.
Claim(w) ==
  /\ drainer[w] = Between
  /\ \E S \in SUBSET Claimable :
       /\ S # {} /\ Cardinality(S) <= Batch
       /\ op' = [o \in OpId |-> IF o \in S
                  THEN [op[o] EXCEPT !.st = "in_flight", !.tries = @ + 1, !.due = FALSE]
                  ELSE op[o]]
       /\ drainer' = [drainer EXCEPT ![w].got =
                       [o \in OpId |-> IF o \in S THEN op[o].tries + 1 ELSE 0]]
  /\ UNCHANGED <<now, user, session, grant, reward, node, spent, panelVars>>

Dispatch(w, o) ==
  /\ drainer[w].cur = None /\ drainer[w].got[o] > 0
  /\ \E r \in Answer :
       /\ PanelCall(CallOf(o), r)
       /\ drainer' = [drainer EXCEPT
            ![w].cur = o,
            ![w].at = IF r = "ok" /\ TwoCalls(op[o].kind) THEN "second" ELSE r]
  /\ UNCHANGED dbVars

DispatchSecond(w) ==
  LET o == drainer[w].cur IN
  /\ drainer[w].at = "second"
  /\ \E r \in Answer :
       /\ IF op[o].kind = "revoke_user"
          THEN PanelCall(Request("delete", op[o].of, 0), r)
          ELSE PanelRead(r, ReadBack(op[o].of, op[o].epoch)) /\ UNCHANGED panelVars
       /\ drainer' = [drainer EXCEPT ![w].at = r]
  /\ UNCHANGED dbVars

\* The status an attempt ends in; the backoff starts when it is "failed".
Outcome(r, tries) ==
  CASE r = "ok" -> "succeeded"
    [] r = "final" \/ (r = "retry" /\ tries >= MaxAttempts) -> "dead"
    [] OTHER -> "failed"

\* Mutant: the outcome is written without looking at the row.
WriteAnyway(o) == TRUE

\* where id = ... and status = 'in_flight'
StillInFlight(o) == op[o].st = "in_flight"

Record(w) ==
  LET o == drainer[w].cur
      d == drainer[w]
  IN
  /\ d.at \in Answer
  /\ op' = IF StillInFlight(o)
           THEN [op EXCEPT ![o].st = Outcome(d.at, d.got[o]), ![o].due = FALSE]
           ELSE op
  /\ drainer' = [drainer EXCEPT ![w] =
                  [got |-> [d.got EXCEPT ![o] = 0], cur |-> None, at |-> "first"]]
  /\ UNCHANGED <<now, user, session, grant, reward, node, spent, panelVars>>

\* The instance restarts; its rows stay in_flight until their lease lapses.
DrainerCrash(w) ==
  /\ drainer[w] # Between
  /\ Spend("crash", MaxCrash)
  /\ drainer' = [drainer EXCEPT ![w] = Between]
  /\ UNCHANGED <<dbVars, panelVars>>

DrainerNext(w) ==
  \/ Claim(w) \/ DispatchSecond(w) \/ Record(w) \/ DrainerCrash(w)
  \/ \E o \in OpId : Dispatch(w, o)
=============================================================================
