---------------------------- MODULE BackendProofs ----------------------------
(***************************************************************************)
(* For any number of users, sessions, grants, nodes and drainers, any      *)
(* durations and any number of faults and crashes: the panel is never      *)
(* ahead of the ledger, a cleanup row always has a closed session, and a   *)
(* closed session stays closed.                                            *)
(*                                                                         *)
(* The inductive invariant says what each half-finished piece of work (a   *)
(* connect request, a batch of a drainer, an inline push, an abandoned     *)
(* panel call) still holds that is true of the tables.  A step is shown to *)
(* preserve it in two halves: what it does to the tables and to the panel  *)
(* (LedgerStep, PanelStep), and what it leaves the work in progress with.  *)
(***************************************************************************)
EXTENDS Backend, TLAPS

Exists(o) == op[o].st # "none"

(* A row names a session and carries no expiry beyond that session's.      *)
RowsBounded ==
  \A o \in OpId : Exists(o) =>
    op[o].of \in Session /\ op[o].epoch <= session[op[o].of].exp

(* No abandoned call carries an expiry beyond its session's.               *)
LimboBounded == \A c \in limbo : c.exp <= session[c.who].exp

(* What drainers and inline pushes work on is a row.                       *)
BatchesExist ==
  \A w \in Worker :
    /\ \A o \in OpId : drainer[w].got[o] > 0 => Exists(o)
    /\ drainer[w].at # "first" => drainer[w].cur \in OpId /\ Exists(drainer[w].cur)

PushesExist == \A g \in Grant : push[g] # "idle" => Exists(Extend(g))

(* Before its transaction a connect request has no session; after it, the  *)
(* expiry it sends to the panel is at most the session's.                  *)
Placed(s, c) ==
  /\ c.pc \in {"idle", "guarded", "planned"} => session[s] = NoSession
  /\ c.pc \in {"displacing", "disabled", "deleted", "created"} => c.exp <= session[s].exp
  /\ c.pc \in {"disabled", "deleted"} => c.cur \in Session
  /\ c.pc \in {"failed_row", "failed_op"} => IsClosed(s)

RequestsPlaced == \A s \in Session : Placed(s, conn[s])

WorkInProgress == BatchesExist /\ PushesExist /\ RequestsPlaced

IInv ==
  /\ TypeOK
  /\ RowsBounded /\ LimboBounded /\ WorkInProgress
  /\ PanelNeverAhead /\ CleanupMatchesStatus

-----------------------------------------------------------------------------
(* What every step does to the tables: expiries only grow, closed sessions *)
(* are final, a row is kept or is new and bounded, and cleanup rows come   *)
(* with the closing of their session.                                      *)
ExpiryGrows == \A s \in Session : session[s].exp <= session'[s].exp

RowsKept ==
  \A o \in OpId :
    /\ Exists(o) => Exists(o)'
    /\ Exists(o)' => \/ Exists(o) /\ op'[o].of = op[o].of /\ op'[o].epoch = op[o].epoch
                     \/ op'[o].of \in Session /\ op'[o].epoch <= session'[op'[o].of].exp

CleanupJustified ==
  \A s \in Session :
    /\ \A o \in Cleanup(s) : Exists(o)' /\ ~Exists(o) => IsClosed(s)'
    /\ session'[s].st \in {"revoked", "expired"} => session'[s].st = session[s].st \/ Exists(End(s))'

LedgerStep == ExpiryGrows /\ ClosedFinal /\ RowsKept /\ CleanupJustified

(* What every step does to the panel: an expiry is kept or bounded.        *)
PanelStep ==
  /\ \A s \in Session : HasUser(s)' =>
       \/ HasUser(s) /\ panel'[s].exp = panel[s].exp
       \/ panel'[s].exp <= session[s].exp
  /\ \A c \in limbo' : c \in limbo \/ c.exp <= session[c.who].exp

(* The two halves of a step make the invariant hold after it.              *)
LEMMA StepPreserves ==
  ASSUME IInv, TypeOK', LedgerStep, PanelStep, WorkInProgress'
  PROVE  IInv'
<1> USE DEF IInv
<1>1. \A s \in Session : session[s].exp \in Nat /\ session'[s].exp \in Nat
  BY DEF TypeOK, DatabaseType, SessionRow
<1>2. \A o \in OpId : op[o].epoch \in Nat
  BY DEF TypeOK, DatabaseType, OpRow
<1>3. RowsBounded'
  BY <1>1, <1>2 DEF LedgerStep, ExpiryGrows, RowsKept, RowsBounded, Exists
<1>4. LimboBounded'
  BY <1>1 DEF LedgerStep, ExpiryGrows, PanelStep, LimboBounded, TypeOK, PanelType, Call
<1>5. PanelNeverAhead'
  BY <1>1 DEF LedgerStep, ExpiryGrows, PanelStep, PanelNeverAhead, HasUser,
              TypeOK, PanelType, PanelUser
<1>6. \A s \in Session : Cleanup(s) \subseteq OpId
  BY DEF Cleanup, End, Fail, OpId
<1>7. CleanupMatchesStatus'
  <2>1. ASSUME NEW s \in Session, NEW o \in Cleanup(s), op'[o].st # "none"
        PROVE  IsClosed(s)'
    BY <2>1, <1>6 DEF LedgerStep, CleanupJustified, ClosedFinal, CleanupMatchesStatus,
                      Exists, IsClosed
  <2>2. ASSUME NEW s \in Session, session'[s].st \in {"revoked", "expired"}
        PROVE  op'[End(s)].st # "none"
    <3>1. End(s) \in OpId
      BY <1>6 DEF Cleanup
    <3> QED
      BY <2>2, <3>1 DEF LedgerStep, CleanupJustified, RowsKept, CleanupMatchesStatus, Exists
  <2>3. \A s \in Session : Cleanup(s)' = Cleanup(s) /\ End(s)' = End(s)
    BY DEF Cleanup, End, Fail
  <2> QED
    BY <2>1, <2>2, <2>3 DEF CleanupMatchesStatus
<1> QED
  BY <1>3, <1>4, <1>5, <1>7

(* A step that leaves the tables of sessions and rows alone.               *)
LEMMA SameLedger ==
  ASSUME TypeOK, UNCHANGED <<session, op>>
  PROVE  LedgerStep
<1>1. \A s \in Session : session[s].exp \in Nat
  BY DEF TypeOK, DatabaseType, SessionRow
<1> QED
  BY <1>1 DEF LedgerStep, ExpiryGrows, ClosedFinal, RowsKept, CleanupJustified, Exists, IsClosed

(* A step that leaves the panel alone.                                     *)
LEMMA SamePanel ==
  ASSUME UNCHANGED panelVars
  PROVE  PanelStep
BY DEF panelVars, PanelStep, HasUser

-----------------------------------------------------------------------------
(* The panel calls.                                                        *)

LEMMA SpendType ==
  ASSUME spent \in SpentRow, NEW what \in {"fault", "crash", "admin"}, NEW bound, Spend(what, bound)
  PROVE  spent' \in SpentRow
BY DEF Spend, SpentRow

(* A call applies to the panel user it names, with an expiry no larger     *)
(* than the call's or than the user's own.                                 *)
LEMMA ApplyStep ==
  ASSUME TypeOK, NEW c \in Call, c.exp <= session[c.who].exp, Apply(c), limbo' \subseteq limbo
  PROVE  PanelType' /\ PanelStep
<1> USE DEF TypeOK, PanelType
<1> DEFINE u == panel[c.who]
<1>1. u \in PanelUser /\ c.who \in Session /\ c.exp \in Nat
  BY DEF Call
<1>2. /\ Applied(c, u) \in PanelUser
      /\ Applied(c, u).st # "absent" =>
           Applied(c, u).exp = c.exp \/ (u.st # "absent" /\ Applied(c, u).exp = u.exp)
  <2>1. CASE Applied(c, u) = [st |-> "active", exp |-> c.exp]
    BY <1>1, <2>1 DEF PanelUser
  <2>2. CASE Applied(c, u) = AfterExpiry(u, c.exp)
    BY <1>1, <2>2 DEF PanelUser, AfterExpiry
  <2>3. CASE Applied(c, u) = [u EXCEPT !.st = "disabled"] /\ u.st # "absent"
    BY <1>1, <2>3 DEF PanelUser
  <2>4. CASE Applied(c, u) = Absent
    BY <2>4 DEF PanelUser, Absent
  <2>5. CASE Applied(c, u) = u
    BY <1>1, <2>5
  <2> QED
    BY <2>1, <2>2, <2>3, <2>4, <2>5 DEF Applied
<1>3. /\ panel'[c.who] = Applied(c, u)
      /\ \A s \in Session : s # c.who => panel'[s] = panel[s]
      /\ panel' \in [Session -> PanelUser]
  BY <1>1, <1>2 DEF Apply
<1> HIDE DEF u
<1>4. PanelType'
  BY <1>1, <1>3 DEF Apply
<1>5. PanelStep
  <2>1. ASSUME NEW s \in Session, panel'[s].st # "absent"
        PROVE  \/ panel[s].st # "absent" /\ panel'[s].exp = panel[s].exp
               \/ panel'[s].exp <= session[s].exp
    BY <1>2, <1>3, <2>1 DEF u
  <2> QED
    BY <2>1 DEF PanelStep, HasUser
<1> QED
  BY <1>4, <1>5

LEMMA CallStep ==
  ASSUME TypeOK, NEW c \in Call, c.exp <= session[c.who].exp, NEW r, PanelCall(c, r)
  PROVE  PanelType' /\ PanelStep /\ spent' \in SpentRow
<1> USE DEF TypeOK, DatabaseType
<1>1. Fault => spent' \in SpentRow
  BY SpendType DEF Fault
<1>2. CASE Apply(c) /\ UNCHANGED limbo /\ (UNCHANGED spent \/ Fault)
  BY <1>1, <1>2, ApplyStep
<1>3. CASE UNCHANGED panelVars /\ Fault
  BY <1>1, <1>3, SamePanel DEF panelVars, PanelType
<1>4. CASE limbo' = limbo \cup {c} /\ UNCHANGED <<panel, late>> /\ Fault
  <2>1. PanelType'
    BY <1>4 DEF PanelType
  <2>2. PanelStep
    BY <1>4 DEF PanelStep, HasUser
  <2> QED
    BY <2>1, <2>2, <1>1, <1>4
<1> QED
  BY <1>2, <1>3, <1>4 DEF PanelCall

LEMMA ReadStep ==
  ASSUME TypeOK, NEW r, NEW expected, PanelRead(r, expected)
  PROVE  spent' \in SpentRow
BY SpendType DEF PanelRead, Fault, TypeOK, DatabaseType

(* The calls that work in progress makes are bounded.                      *)
LEMMA RequestBounded ==
  ASSUME TypeOK, NEW do \in {"create", "expiry", "disable", "delete"}, NEW s \in Session,
         NEW exp \in Nat, exp <= session[s].exp
  PROVE  /\ Request(do, s, exp) \in Call
         /\ Request(do, s, exp).exp <= session[Request(do, s, exp).who].exp
BY DEF Request, Call

LEMMA ZeroBounded ==
  ASSUME TypeOK, NEW s \in Session
  PROVE  0 <= session[s].exp
BY DEF TypeOK, DatabaseType, SessionRow

LEMMA CallOfBounded ==
  ASSUME IInv, NEW o \in OpId, Exists(o)
  PROVE  CallOf(o) \in Call /\ CallOf(o).exp <= session[CallOf(o).who].exp
<1>1. op[o].of \in Session /\ op[o].epoch \in Nat /\ op[o].epoch <= session[op[o].of].exp
  BY DEF IInv, RowsBounded, TypeOK, DatabaseType, OpRow
<1>2. TypeOK
  BY DEF IInv
<1>3. \E do \in {"create", "expiry", "disable", "delete"} :
        CallOf(o) = Request(do, op[o].of, op[o].epoch)
  BY DEF CallOf
<1> QED
  BY <1>1, <1>2, <1>3, RequestBounded

-----------------------------------------------------------------------------
(* What the work in progress keeps when a step does not touch it.          *)

(* Rows that only move on: same session, same expiry, none added.          *)
LEMMA RowProgress ==
  ASSUME TypeOK, UNCHANGED session,
         \A o \in OpId : /\ op'[o].of = op[o].of /\ op'[o].epoch = op[o].epoch
                         /\ (Exists(o)' <=> Exists(o))
  PROVE  LedgerStep
<1>1. \A s \in Session : session[s].exp \in Nat
  BY DEF TypeOK, DatabaseType, SessionRow
<1>2. \A s \in Session : Cleanup(s) \subseteq OpId
  BY DEF Cleanup, End, Fail, OpId
<1> QED
  BY <1>1, <1>2 DEF LedgerStep, ExpiryGrows, ClosedFinal, RowsKept, CleanupJustified,
                    Exists, IsClosed

LEMMA BatchesKept ==
  ASSUME IInv, RowsKept, UNCHANGED drainer
  PROVE  BatchesExist'
BY DEF IInv, WorkInProgress, BatchesExist, RowsKept, Exists

LEMMA PushesKept ==
  ASSUME IInv, RowsKept, UNCHANGED push
  PROVE  PushesExist'
<1>1. \A g \in Grant : Extend(g) \in OpId
  BY DEF Extend, OpId
<1> QED
  BY <1>1 DEF IInv, WorkInProgress, PushesExist, RowsKept, Exists, Extend

LEMMA RequestsKept ==
  ASSUME IInv, TypeOK', ExpiryGrows, ClosedFinal, UNCHANGED conn,
         \A s \in Session : session[s] = NoSession => session'[s] = session[s]
  PROVE  RequestsPlaced'
<1>1. \A s \in Session :
        conn[s].exp \in Nat /\ session[s].exp \in Nat /\ session'[s].exp \in Nat
  BY DEF IInv, TypeOK, DatabaseType, SessionRow, ConnType, ConnRow
<1> QED
  BY <1>1 DEF IInv, WorkInProgress, RequestsPlaced, Placed, ExpiryGrows, ClosedFinal, IsClosed

-----------------------------------------------------------------------------
(* The drainers.                                                           *)

LEMMA TickType == Between \in Tick_
BY DEF Between, Tick_, Answer

LEMMA ClaimInv ==
  ASSUME IInv, NEW w \in Worker, Claim(w), UNCHANGED <<conn, push>>
  PROVE  IInv' /\ LedgerStep
<1> USE DEF IInv
<1>1. PICK S \in SUBSET Claimable :
        /\ op' = [o \in OpId |-> IF o \in S
                   THEN [op[o] EXCEPT !.st = "in_flight", !.tries = @ + 1, !.due = FALSE]
                   ELSE op[o]]
        /\ drainer' = [drainer EXCEPT ![w].got =
                        [o \in OpId |-> IF o \in S THEN op[o].tries + 1 ELSE 0]]
  BY DEF Claim
<1>2. UNCHANGED <<now, user, session, grant, reward, node, spent, panelVars>>
  BY DEF Claim
<1>3. \A o \in S : o \in OpId /\ Exists(o)
  BY <1>1 DEF Claimable, Exists
<1>4. /\ op' \in [OpId -> OpRow]
      /\ \A o \in OpId : /\ op'[o].of = op[o].of /\ op'[o].epoch = op[o].epoch
                         /\ (Exists(o)' <=> Exists(o))
  <2>0. \A r \in OpRow : [r EXCEPT !.st = "in_flight", !.tries = @ + 1, !.due = FALSE] \in OpRow
    <3>1. \A r \in OpRow, n \in Nat :
            [r EXCEPT !.st = "in_flight", !.tries = n, !.due = FALSE] \in OpRow
      BY DEF OpRow
    <3>2. \A r \in OpRow : r.tries + 1 \in Nat
      BY DEF OpRow
    <3> QED
      BY <3>1, <3>2
  <2>1. op' \in [OpId -> OpRow]
    BY <1>1, <2>0 DEF TypeOK, DatabaseType
  <2>2. ASSUME NEW o \in OpId
        PROVE  op'[o].of = op[o].of /\ op'[o].epoch = op[o].epoch /\ (Exists(o)' <=> Exists(o))
    BY <1>1, <1>3 DEF TypeOK, DatabaseType, OpRow, Exists
  <2> QED
    BY <2>1, <2>2
<1>5. /\ drainer'[w].at = "first"
      /\ \A o \in OpId : drainer'[w].got[o] > 0 => o \in S
      /\ \A x \in Worker : x # w => drainer'[x] = drainer[x]
      /\ DrainerType'
  <2> DEFINE G == [o \in OpId |-> IF o \in S THEN op[o].tries + 1 ELSE 0]
  <2>1. G \in [OpId -> Nat] /\ \A o \in OpId : G[o] > 0 => o \in S
    BY DEF TypeOK, DatabaseType, OpRow
  <2>2. drainer' = [drainer EXCEPT ![w].got = G]
    BY <1>1
  <2>3. drainer[w] = Between
    BY DEF Claim
  <2> HIDE DEF G
  <2> QED
    BY <2>1, <2>2, <2>3 DEF TypeOK, DrainerType, Tick_, Between
<1>6. TypeOK'
  BY <1>2, <1>4, <1>5 DEF TypeOK, DatabaseType, PanelType, ConnType, PushType, panelVars
<1>7. LedgerStep /\ PanelStep
  <2>1. LedgerStep
    BY <1>2, <1>4, RowProgress DEF Exists
  <2> QED
    BY <2>1, <1>2, SamePanel
<1>8. BatchesExist'
  BY <1>3, <1>4, <1>5 DEF WorkInProgress, BatchesExist, Exists
<1>9. PushesExist' /\ RequestsPlaced'
  BY <1>2, <1>6, <1>7, PushesKept, RequestsKept DEF LedgerStep
<1> QED
  BY <1>6, <1>7, <1>8, <1>9, StepPreserves DEF WorkInProgress

(* A step of drainer w that leaves the rows alone.                         *)
LEMMA DrainerOnly ==
  ASSUME IInv, NEW w \in Worker, UNCHANGED <<dbVars, conn, push>>,
         PanelType', PanelStep, spent' \in SpentRow, DrainerType',
         \A x \in Worker : x # w => drainer'[x] = drainer[x],
         \A o \in OpId : drainer'[w].got[o] > 0 => drainer[w].got[o] > 0,
         drainer'[w].at # "first" => drainer'[w].cur \in OpId /\ Exists(drainer'[w].cur)
  PROVE  IInv' /\ LedgerStep
<1> USE DEF IInv
<1>1. TypeOK'
  BY DEF TypeOK, DatabaseType, ConnType, PushType, dbVars
<1>2. LedgerStep
  BY SameLedger DEF dbVars
<1>3. BatchesExist'
  BY DEF WorkInProgress, BatchesExist, Exists, dbVars
<1>4. PushesExist' /\ RequestsPlaced'
  BY <1>1, <1>2, PushesKept, RequestsKept DEF LedgerStep, dbVars
<1> QED
  BY <1>1, <1>2, <1>3, <1>4, StepPreserves DEF WorkInProgress

LEMMA DispatchInv ==
  ASSUME IInv, NEW w \in Worker, NEW o \in OpId, Dispatch(w, o), UNCHANGED <<conn, push>>
  PROVE  IInv' /\ LedgerStep
<1>1. Exists(o) /\ TypeOK
  BY DEF Dispatch, IInv, WorkInProgress, BatchesExist
<1>2. PICK r \in Answer :
        /\ PanelCall(CallOf(o), r)
        /\ drainer' = [drainer EXCEPT
             ![w].cur = o,
             ![w].at = IF r = "ok" /\ TwoCalls(op[o].kind) THEN "second" ELSE r]
  BY DEF Dispatch
<1>3. PanelType' /\ PanelStep /\ spent' \in SpentRow
  BY <1>1, <1>2, CallOfBounded, CallStep
<1>4. /\ drainer'[w].got = drainer[w].got
      /\ drainer'[w].cur = o
      /\ \A x \in Worker : x # w => drainer'[x] = drainer[x]
      /\ DrainerType'
  BY <1>1, <1>2 DEF TypeOK, DrainerType, Tick_
<1> QED
  BY <1>1, <1>3, <1>4, DrainerOnly DEF Dispatch

LEMMA DispatchSecondInv ==
  ASSUME IInv, NEW w \in Worker, DispatchSecond(w), UNCHANGED <<conn, push>>
  PROVE  IInv' /\ LedgerStep
<1> DEFINE o == drainer[w].cur
<1>1. o \in OpId /\ Exists(o) /\ TypeOK /\ op[o].of \in Session
  BY DEF DispatchSecond, IInv, WorkInProgress, BatchesExist, RowsBounded
<1>2. PICK r \in Answer :
        /\ IF op[o].kind = "revoke_user"
           THEN PanelCall(Request("delete", op[o].of, 0), r)
           ELSE PanelRead(r, ReadBack(op[o].of, op[o].epoch)) /\ UNCHANGED panelVars
        /\ drainer' = [drainer EXCEPT ![w].at = r]
  BY DEF DispatchSecond
<1>3. PanelType' /\ PanelStep /\ spent' \in SpentRow
  <2>1. CASE op[o].kind = "revoke_user"
    BY <1>1, <1>2, <2>1, ZeroBounded, RequestBounded, CallStep
  <2>2. CASE op[o].kind # "revoke_user"
    BY <1>1, <1>2, <2>2, ReadStep, SamePanel DEF TypeOK, PanelType, panelVars
  <2> QED
    BY <2>1, <2>2
<1>4. /\ drainer'[w].got = drainer[w].got
      /\ drainer'[w].cur = drainer[w].cur
      /\ \A x \in Worker : x # w => drainer'[x] = drainer[x]
      /\ DrainerType'
  BY <1>1, <1>2 DEF TypeOK, DrainerType, Tick_
<1>5. UNCHANGED dbVars
  BY DEF DispatchSecond
<1>6. Exists(drainer'[w].cur) /\ drainer'[w].cur \in OpId
  BY <1>1, <1>4
<1> HIDE DEF o
<1> QED
  BY <1>3, <1>4, <1>5, <1>6, DrainerOnly

LEMMA DrainerCrashInv ==
  ASSUME IInv, NEW w \in Worker, DrainerCrash(w), UNCHANGED <<conn, push>>
  PROVE  IInv' /\ LedgerStep
<1>1. spent' \in SpentRow /\ PanelType' /\ PanelStep
  BY SpendType, SamePanel
     DEF DrainerCrash, IInv, TypeOK, DatabaseType, PanelType, panelVars
<1>2. /\ drainer'[w] = Between
      /\ \A x \in Worker : x # w => drainer'[x] = drainer[x]
      /\ DrainerType'
  BY TickType DEF DrainerCrash, IInv, TypeOK, DrainerType
<1> QED
  BY <1>1, <1>2, DrainerOnly DEF DrainerCrash, Between

(* A function stays in its set when one value is replaced by another of    *)
(* its range, and a row of the outbox that is settled keeps what it says.  *)
LEMMA Replaced ==
  ASSUME NEW S, NEW T, NEW f \in [S -> T], NEW x \in S, NEW t \in T
  PROVE  [f EXCEPT ![x] = t] \in [S -> T]
OBVIOUS

LEMMA RowSettled ==
  ASSUME op \in [OpId -> OpRow], NEW o \in OpId, Exists(o),
         NEW v \in {"succeeded", "dead", "failed"},
         op' = [op EXCEPT ![o].st = v, ![o].due = FALSE]
  PROVE  /\ op' \in [OpId -> OpRow]
         /\ \A x \in OpId : /\ op'[x].of = op[x].of /\ op'[x].epoch = op[x].epoch
                            /\ (Exists(x)' <=> Exists(x))
<1> DEFINE row == [op[o] EXCEPT !.st = v, !.due = FALSE]
<1>1. /\ row \in OpRow /\ row.of = op[o].of /\ row.epoch = op[o].epoch
      /\ row.st # "none"
  <2>1. op[o] \in OpRow
    OBVIOUS
  <2> QED
    BY <2>1 DEF OpRow
<1>2. op' = [op EXCEPT ![o] = row]
  OBVIOUS
<1> HIDE DEF row
<1>3. op' \in [OpId -> OpRow]
  BY <1>1, <1>2, Replaced
<1>4. op'[o] = row /\ \A x \in OpId \ {o} : op'[x] = op[x]
  BY <1>2
<1> QED
  BY <1>1, <1>3, <1>4 DEF Exists

LEMMA RecordInv ==
  ASSUME IInv, NEW w \in Worker, Record(w), UNCHANGED <<conn, push>>
  PROVE  IInv' /\ LedgerStep
<1> USE DEF IInv
<1> DEFINE o == drainer[w].cur
           d == drainer[w]
<1>1. /\ o \in OpId /\ Exists(o)
      /\ UNCHANGED <<now, user, session, grant, reward, node, spent, panelVars>>
  BY DEF Record, Answer, WorkInProgress, BatchesExist
<1>2. /\ op' \in [OpId -> OpRow]
      /\ \A x \in OpId : /\ op'[x].of = op[x].of /\ op'[x].epoch = op[x].epoch
                         /\ (Exists(x)' <=> Exists(x))
  <2>1. \A tries \in Nat : Outcome(d.at, tries) \in {"succeeded", "dead", "failed"}
    BY DEF Outcome
  <2>2. d.got[o] \in Nat
    BY <1>1 DEF TypeOK, DrainerType, Tick_
  <2>3. CASE ~StillInFlight(o)
    BY <2>3 DEF Record, TypeOK, DatabaseType, Exists
  <2>4. CASE StillInFlight(o)
    <3>1. op' = [op EXCEPT ![o].st = Outcome(d.at, d.got[o]), ![o].due = FALSE]
      BY <2>4 DEF Record
    <3> QED
      BY <1>1, <2>1, <2>2, <3>1, RowSettled DEF TypeOK, DatabaseType
  <2> QED
    BY <2>3, <2>4
<1>3. /\ drainer'[w].at = "first"
      /\ \A x \in OpId : drainer'[w].got[x] > 0 => drainer[w].got[x] > 0
      /\ \A x \in Worker : x # w => drainer'[x] = drainer[x]
      /\ DrainerType'
  BY <1>1 DEF Record, TypeOK, DrainerType, Tick_
<1>4. TypeOK'
  BY <1>1, <1>2, <1>3 DEF TypeOK, DatabaseType, PanelType, ConnType, PushType, panelVars
<1>5. LedgerStep /\ PanelStep
  BY <1>1, <1>2, RowProgress, SamePanel DEF Exists
<1>6. BatchesExist'
  BY <1>2, <1>3 DEF WorkInProgress, BatchesExist, Exists
<1>7. PushesExist' /\ RequestsPlaced'
  BY <1>1, <1>4, <1>5, PushesKept, RequestsKept DEF LedgerStep
<1> QED
  BY <1>4, <1>5, <1>6, <1>7, StepPreserves DEF WorkInProgress

-----------------------------------------------------------------------------
(* Closing sessions with a cleanup row each.                               *)

LEMMA IdFacts ==
  /\ \A s \in Session : End(s) \in OpId /\ Fail(s) \in OpId /\ End(s)[2] = s
  /\ \A s, x \in Session : (End(s) = End(x) => s = x) /\ End(s) # Fail(x)
  /\ \A g \in Grant : Extend(g) \in OpId
  /\ \A g \in Grant, s \in Session : Extend(g) # End(s) /\ Extend(g) # Fail(s)
BY DEF End, Fail, Extend, OpId

LEMMA NewOpType ==
  ASSUME NEW kind \in OpKind, NEW s \in Session, NEW epoch \in Nat
  PROVE  /\ NewOp(kind, s, epoch) \in OpRow
         /\ NewOp(kind, s, epoch).st = "pending"
         /\ NewOp(kind, s, epoch).of = s
         /\ NewOp(kind, s, epoch).epoch = epoch
BY DEF NewOp, OpRow

LEMMA EnqueueFacts ==
  ASSUME TypeOK, NEW S \in SUBSET Session, NEW kind \in OpKind, op' = EnqueueEnd(S, kind)
  PROVE  /\ op' \in [OpId -> OpRow]
         /\ \A s \in S : op'[End(s)] = NewOp(kind, s, 0)
         /\ \A o \in OpId : (\A s \in S : o # End(s)) => op'[o] = op[o]
<1>1. op' = [o \in OpId |-> IF \E s \in S : o = End(s) THEN NewOp(kind, o[2], 0) ELSE op[o]]
  BY DEF EnqueueEnd
<1>2. \A s \in S : End(s) \in OpId /\ End(s)[2] = s
  BY IdFacts
<1>3. ASSUME NEW o \in OpId
      PROVE  (IF \E s \in S : o = End(s) THEN NewOp(kind, o[2], 0) ELSE op[o]) \in OpRow
  <2>1. ASSUME NEW s \in S, o = End(s) PROVE NewOp(kind, o[2], 0) \in OpRow
    BY <1>2, <2>1, NewOpType
  <2>2. op[o] \in OpRow
    BY DEF TypeOK, DatabaseType
  <2> QED
    BY <2>1, <2>2
<1>4. op' \in [OpId -> OpRow]
  BY <1>1, <1>3
<1>5. \A s \in S : op'[End(s)] = NewOp(kind, s, 0)
  BY <1>1, <1>2
<1> QED
  BY <1>1, <1>4, <1>5

\* A session that is closed keeps the rest of its row.
LEMMA ClosedRow ==
  ASSUME NEW row \in SessionRow, NEW st
  PROVE  [row EXCEPT !.st = st].st = st /\ [row EXCEPT !.st = st].exp = row.exp
BY DEF SessionRow

(* The sessions of S are closed; any other is kept, or had no row before.  *)
LEMMA CloseStep ==
  ASSUME IInv, NEW S \in SUBSET Session, NEW kind \in OpKind, NEW st \in {"revoked", "expired"},
         op' = EnqueueEnd(S, kind), session' \in [Session -> SessionRow],
         \A x \in S : session'[x] = [session[x] EXCEPT !.st = st],
         \A x \in Session \ S :
           session'[x] = session[x] \/ (session[x] = NoSession /\ session'[x].st \in Live)
  PROVE  op' \in [OpId -> OpRow] /\ LedgerStep
<1> USE DEF IInv
<1>1. /\ op' \in [OpId -> OpRow]
      /\ \A s \in S : op'[End(s)] = NewOp(kind, s, 0)
      /\ \A o \in OpId : (\A s \in S : o # End(s)) => op'[o] = op[o]
  BY EnqueueFacts
<1>2. \A x \in Session : session[x].exp \in Nat /\ session'[x].exp \in Nat
  BY DEF TypeOK, DatabaseType, SessionRow
<1>3. \A x \in S : session'[x].st = st /\ session'[x].exp = session[x].exp
  <2>1. \A x \in S : session[x] \in SessionRow
    BY DEF TypeOK, DatabaseType
  <2> SUFFICES ASSUME NEW x \in S
               PROVE  session'[x].st = st /\ session'[x].exp = session[x].exp
    OBVIOUS
  <2>2. session'[x] = [session[x] EXCEPT !.st = st]
    OBVIOUS
  <2> QED
    BY <2>1, <2>2, ClosedRow
<1>4. ExpiryGrows
  BY <1>2, <1>3 DEF ExpiryGrows, NoSession
<1>5. ClosedFinal
  BY <1>3 DEF ClosedFinal, IsClosed, NoSession, Closed
<1>6. RowsKept
  <2>1. ASSUME NEW x \in S
        PROVE  Exists(End(x))' /\ op'[End(x)].of \in Session
               /\ op'[End(x)].epoch <= session'[op'[End(x)].of].exp
    <3>1. op'[End(x)] = NewOp(kind, x, 0)
      BY <1>1
    <3>2. End(x)' = End(x)
      BY DEF End
    <3> QED
      BY <1>2, <3>1, <3>2, NewOpType DEF Exists
  <2>2. \A o \in OpId : op'[o] = op[o] \/ \E x \in S : o = End(x)
    BY <1>1
  <2>3. ASSUME NEW o \in OpId
        PROVE  /\ Exists(o) => Exists(o)'
               /\ Exists(o)' => \/ Exists(o) /\ op'[o].of = op[o].of /\ op'[o].epoch = op[o].epoch
                                \/ op'[o].of \in Session /\ op'[o].epoch <= session'[op'[o].of].exp
    <3>1. CASE op'[o] = op[o]
      BY <3>1 DEF Exists
    <3>2. ASSUME NEW x \in S, o = End(x)
          PROVE  Exists(o)' /\ op'[o].of \in Session /\ op'[o].epoch <= session'[op'[o].of].exp
      BY <2>1, <3>2 DEF Exists, End
    <3> QED
      BY <2>2, <3>1, <3>2
  <2> QED
    BY <2>3 DEF RowsKept
<1>7. CleanupJustified
  <2>1. ASSUME NEW s \in Session, NEW o \in Cleanup(s), op'[o].st # "none", op[o].st = "none"
        PROVE  session'[s].st \in Closed
    <3>1. o \in OpId /\ op'[o] # op[o]
      BY <2>1, IdFacts DEF Cleanup
    <3>2. PICK x \in S : o = End(x)
      BY <1>1, <3>1
    <3>3. s = x
      BY <2>1, <3>2, IdFacts DEF Cleanup
    <3> QED
      BY <1>3, <3>3 DEF Closed
  <2>2. ASSUME NEW s \in Session, session'[s].st \in {"revoked", "expired"}
        PROVE  session'[s].st = session[s].st \/ op'[End(s)].st # "none"
    <3>1. CASE s \in S
      BY <1>1, <3>1, NewOpType
    <3>2. CASE s \notin S
      BY <2>2, <3>2 DEF Live
    <3> QED
      BY <3>1, <3>2
  <2>3. \A s \in Session : End(s)' = End(s)
    BY DEF End
  <2> QED
    BY <2>1, <2>2, <2>3 DEF CleanupJustified, Exists, IsClosed
<1> QED
  BY <1>1, <1>4, <1>5, <1>6, <1>7 DEF LedgerStep

LEMMA CloseAsStep ==
  ASSUME IInv, NEW S, \A s \in S : s \in Session /\ IsLive(s),
         NEW kind \in OpKind, NEW st \in {"revoked", "expired"},
         session' = CloseAs(S, st), op' = EnqueueEnd(S, kind)
  PROVE  /\ session' \in [Session -> SessionRow] /\ op' \in [OpId -> OpRow]
         /\ LedgerStep
         /\ \A s \in Session : session[s] = NoSession => session'[s] = session[s]
<1>1. session' = [s \in Session |-> IF s \in S THEN [session[s] EXCEPT !.st = st] ELSE session[s]]
  BY DEF CloseAs
<1>2. session \in [Session -> SessionRow]
  BY DEF IInv, TypeOK, DatabaseType
<1>3. session' \in [Session -> SessionRow]
  BY <1>1, <1>2 DEF SessionRow, Closed
<1>4. \A s \in Session : session[s] = NoSession => s \notin S
  BY DEF IsLive, NoSession, Live
<1>5. S \in SUBSET Session
  OBVIOUS
<1>6. op' \in [OpId -> OpRow] /\ LedgerStep
  BY <1>1, <1>3, <1>5, CloseStep
<1> QED
  BY <1>1, <1>3, <1>4, <1>6

-----------------------------------------------------------------------------
(* The reaper, the operator, the node sync, time and abandoned calls.      *)

(* A step on the tables that leaves all work in progress and the panel     *)
(* alone, and does not give a request a session.                           *)
LEMMA TablesOnly ==
  ASSUME IInv, DatabaseType', LedgerStep, UNCHANGED <<panelVars, drainer, conn, push>>,
         \A s \in Session : session[s] = NoSession => session'[s] = session[s]
  PROVE  IInv'
<1> USE DEF IInv
<1>1. TypeOK'
  BY DEF TypeOK, PanelType, DrainerType, ConnType, PushType, panelVars
<1>2. PanelStep
  BY SamePanel
<1>3. WorkInProgress'
  BY <1>1, BatchesKept, PushesKept, RequestsKept DEF WorkInProgress, LedgerStep
<1> QED
  BY <1>1, <1>2, <1>3, StepPreserves

LEMMA ReapInv ==
  ASSUME IInv, NEW S, Reap(S), UNCHANGED <<panelVars, drainer, conn, push>>
  PROVE  IInv' /\ LedgerStep
<1>1. \A s \in S : s \in Session /\ IsLive(s)
  BY DEF Reap, Overdue
<1>2. "delete_user" \in OpKind
  BY DEF OpKind
<1>3. /\ session' \in [Session -> SessionRow] /\ op' \in [OpId -> OpRow]
      /\ LedgerStep
      /\ \A s \in Session : session[s] = NoSession => session'[s] = session[s]
  BY <1>1, <1>2, CloseAsStep DEF Reap
<1>4. DatabaseType'
  BY <1>3 DEF Reap, IInv, TypeOK, DatabaseType
<1> QED
  BY <1>3, <1>4, TablesOnly

(* Sessions revoked by the operator, with whatever else the command does   *)
(* to users and nodes.                                                     *)
LEMMA RevokeInv ==
  ASSUME IInv, NEW S, \A s \in S : s \in Session /\ IsLive(s), RevokeAll(S), Command,
         user' \in [User -> UserRow], node' \in [Node -> NodeRow],
         UNCHANGED <<now, grant, reward, panelVars, drainer, conn, push>>
  PROVE  IInv' /\ LedgerStep
<1>1. "revoke_user" \in OpKind
  BY DEF OpKind
<1>2. /\ session' \in [Session -> SessionRow] /\ op' \in [OpId -> OpRow]
      /\ LedgerStep
      /\ \A s \in Session : session[s] = NoSession => session'[s] = session[s]
  BY <1>1, CloseAsStep DEF RevokeAll
<1>3. spent' \in SpentRow
  BY SpendType DEF Command, IInv, TypeOK, DatabaseType
<1>4. DatabaseType'
  BY <1>2, <1>3 DEF IInv, TypeOK, DatabaseType
<1> QED
  BY <1>2, <1>4, TablesOnly

(* A command that closes no session.                                       *)
LEMMA PlainInv ==
  ASSUME IInv, Command, user' \in [User -> UserRow], node' \in [Node -> NodeRow],
         UNCHANGED <<now, session, grant, reward, op, panelVars, drainer, conn, push>>
  PROVE  IInv' /\ LedgerStep
<1>1. spent' \in SpentRow
  BY SpendType DEF Command, IInv, TypeOK, DatabaseType
<1>2. DatabaseType'
  BY <1>1 DEF IInv, TypeOK, DatabaseType
<1>3. LedgerStep
  BY SameLedger DEF IInv
<1> QED
  BY <1>2, <1>3, TablesOnly

LEMMA AdminInv ==
  ASSUME IInv, AdminStep
  PROVE  IInv' /\ LedgerStep
<1> USE DEF AdminStep
<1>0. /\ user \in [User -> UserRow] /\ node \in [Node -> NodeRow] /\ now \in Nat
      /\ \A u \in User : user[u] \in UserRow
      /\ \A u \in User : \A s \in LiveOf(u) : s \in Session /\ IsLive(s)
  BY DEF IInv, TypeOK, DatabaseType, LiveOf
<1>1. ASSUME NEW u \in User, NEW ban \in {"ban", "unban", None}, NEW tier \in Tier \cup {None},
             MutateUser(u, ban, tier)
      PROVE  IInv' /\ LedgerStep
  <2> DEFINE paid == CASE tier = "premium" -> now + SubTime
                       [] tier = "free" -> 0
                       [] OTHER -> user[u].paid
             banned == IF ban = None THEN user[u].banned ELSE ban = "ban"
  <2>1. paid \in Nat
    BY <1>0, ParamAssumption DEF ParamAssumption, UserRow
  <2>2. banned \in BOOLEAN
    BY <1>0 DEF UserRow
  <2>3. user' = [user EXCEPT ![u].banned = banned, ![u].paid = paid]
    BY <1>1 DEF MutateUser
  <2> HIDE DEF paid, banned
  <2>4. user' \in [User -> UserRow]
    BY <1>0, <2>1, <2>2, <2>3 DEF UserRow
  <2>5. CASE ban = "ban"
    BY <1>0, <1>1, <2>4, <2>5, RevokeInv DEF MutateUser
  <2>6. CASE ban # "ban"
    BY <1>0, <1>1, <2>4, <2>6, PlainInv DEF MutateUser
  <2> QED
    BY <2>5, <2>6
<1>2. ASSUME NEW s \in Session, KickSession(s)
      PROVE  IInv' /\ LedgerStep
  BY <1>0, <1>2, RevokeInv DEF KickSession
<1>3. ASSUME PanicRevokeFreeSessions
      PROVE  IInv' /\ LedgerStep
  BY <1>0, <1>3, RevokeInv DEF PanicRevokeFreeSessions
<1>4. ASSUME NEW n \in Node, NEW b \in BOOLEAN, SetNodeActive(n, b) \/ NodeSync(n, b)
      PROVE  IInv' /\ LedgerStep
  <2>1. node' \in [Node -> NodeRow]
    BY <1>0, <1>4 DEF SetNodeActive, NodeSync, NodeRow
  <2> QED
    BY <1>0, <1>4, <2>1, PlainInv DEF SetNodeActive, NodeSync
<1>5. ASSUME NEW n \in Node, ForceMigrateNode(n)
      PROVE  IInv' /\ LedgerStep
  <2>1. node' \in [Node -> NodeRow]
    BY <1>0, <1>5 DEF ForceMigrateNode, NodeRow
  <2> QED
    BY <1>0, <1>5, <2>1, RevokeInv DEF ForceMigrateNode
<1> QED
  BY <1>1, <1>2, <1>3, <1>4, <1>5 DEF AdminNext

LEMMA TimeInv ==
  ASSUME IInv, TimeStep
  PROVE  IInv' /\ LedgerStep
<1>1. CASE Tick
  <2>1. DatabaseType'
    BY <1>1 DEF Tick, IInv, TypeOK, DatabaseType
  <2>2. LedgerStep
    BY <1>1, SameLedger DEF Tick, IInv
  <2> QED
    BY <1>1, <2>1, <2>2, TablesOnly DEF Tick, TimeStep
<1>2. ASSUME NEW o \in OpId, Elapse(o) PROVE IInv' /\ LedgerStep
  <2>1. /\ op' \in [OpId -> OpRow]
        /\ \A x \in OpId : /\ op'[x].of = op[x].of /\ op'[x].epoch = op[x].epoch
                           /\ (Exists(x)' <=> Exists(x))
    BY <1>2 DEF Elapse, IInv, TypeOK, DatabaseType, OpRow, Exists
  <2>2. DatabaseType'
    BY <1>2, <2>1 DEF Elapse, IInv, TypeOK, DatabaseType
  <2>3. LedgerStep
    BY <1>2, <2>1, RowProgress DEF Elapse, IInv, Exists
  <2> QED
    BY <1>2, <2>2, <2>3, TablesOnly DEF Elapse, TimeStep
<1> QED
  BY <1>1, <1>2 DEF TimeStep

LEMMA LandInv ==
  ASSUME IInv, LandStep
  PROVE  IInv' /\ LedgerStep
<1> USE DEF IInv
<1>1. PICK c \in limbo : Land(c) /\ UNCHANGED <<drainer, conn, push>>
  BY DEF LandStep
<1>2. c \in Call /\ c.exp <= session[c.who].exp /\ limbo' = limbo \ {c}
  BY <1>1 DEF Land, TypeOK, PanelType, LimboBounded
<1>3. PanelType' /\ PanelStep
  <2>1. CASE Apply(c)
    BY <1>2, <2>1, ApplyStep
  <2>2. CASE UNCHANGED <<panel, late>>
    BY <1>2, <2>2 DEF TypeOK, PanelType, PanelStep, HasUser
  <2> QED
    BY <1>1, <2>1, <2>2 DEF Land
<1>4. UNCHANGED <<now, user, session, grant, reward, op, node, spent, drainer, conn, push>>
  BY <1>1 DEF Land, dbVars
<1>5. TypeOK'
  BY <1>3, <1>4 DEF TypeOK, DatabaseType, DrainerType, ConnType, PushType
<1>6. LedgerStep
  BY <1>4, SameLedger
<1>7. WorkInProgress'
  BY <1>4, <1>5, <1>6, BatchesKept, PushesKept, RequestsKept DEF WorkInProgress, LedgerStep
<1> QED
  BY <1>3, <1>5, <1>6, <1>7, StepPreserves

-----------------------------------------------------------------------------
(* Connect requests.                                                       *)

(* A step of request s that leaves the tables alone.                       *)
LEMMA RequestOnly ==
  ASSUME IInv, NEW s \in Session, UNCHANGED <<dbVars, drainer, push>>,
         PanelType', PanelStep, spent' \in SpentRow, ConnType',
         \A x \in Session : x # s => conn'[x] = conn[x],
         Placed(s, conn'[s])
  PROVE  IInv' /\ LedgerStep
<1> USE DEF IInv
<1>1. TypeOK'
  BY DEF TypeOK, DatabaseType, DrainerType, PushType, dbVars
<1>2. LedgerStep
  BY SameLedger DEF dbVars
<1>3. RequestsPlaced'
  BY DEF WorkInProgress, RequestsPlaced, Placed, IsClosed, dbVars
<1>4. BatchesExist' /\ PushesExist'
  BY <1>2, BatchesKept, PushesKept DEF LedgerStep
<1> QED
  BY <1>1, <1>2, <1>3, <1>4, StepPreserves DEF WorkInProgress

(* A step of request s that only moves it on.                              *)
LEMMA GotoFacts ==
  ASSUME TypeOK, NEW s \in Session, NEW pc \in ConnPc, Goto(s, pc)
  PROVE  /\ ConnType'
         /\ \A x \in Session : x # s => conn'[x] = conn[x]
         /\ conn'[s] = [conn[s] EXCEPT !.pc = pc]
         /\ conn'[s].pc = pc /\ conn'[s].exp = conn[s].exp /\ conn'[s].cur = conn[s].cur
BY DEF Goto, TypeOK, ConnType, ConnRow

LEMMA ResolveInv ==
  ASSUME IInv, NEW s \in Session, ResolveTierAndExpiry(s), UNCHANGED <<drainer, push>>
  PROVE  IInv' /\ LedgerStep
<1> USE DEF IInv, TypeOK
<1> DEFINE u == UserOf[s]
           prem == Premium(u)
           c == [pc |-> "planned", tier |-> IF prem THEN "premium" ELSE "free",
                 todo |-> {}, cur |-> None,
                 exp |-> IF (IF prem THEN "premium" ELSE "free") = "premium"
                         THEN user[u].paid ELSE now + FreeTTL,
                 max |-> IF (IF prem THEN "premium" ELSE "free") = "premium"
                         THEN PremiumMax ELSE FreeMax]
<1>1. /\ At(s, "guarded") /\ conn' = [conn EXCEPT ![s] = c]
      /\ UNCHANGED <<dbVars, spent, panelVars>>
  BY DEF ResolveTierAndExpiry
<1>2. u \in User /\ user[u].paid \in Nat /\ now + FreeTTL \in Nat
  BY ParamAssumption DEF ParamAssumption, DatabaseType, UserRow
<1>3. PremiumMax \in Nat /\ FreeMax \in Nat
  BY ParamAssumption DEF ParamAssumption
<1>4. c \in ConnRow
  BY <1>2, <1>3 DEF ConnRow, ConnPc, Tier
<1>5. c.pc = "planned"
  OBVIOUS
<1> HIDE DEF c
<1>6. ConnType' /\ \A x \in Session : x # s => conn'[x] = conn[x]
  BY <1>1, <1>4 DEF ConnType
<1>7. Placed(s, conn'[s])
  BY <1>1, <1>4, <1>5 DEF ConnType, At, WorkInProgress, RequestsPlaced, Placed
<1>8. PanelType' /\ PanelStep /\ spent' \in SpentRow
  BY <1>1, SamePanel DEF PanelType, panelVars, DatabaseType
<1> QED
  BY <1>1, <1>6, <1>7, <1>8, RequestOnly

LEMMA GuardInv ==
  ASSUME IInv, NEW s \in Session, AttestedGuard(s), UNCHANGED <<drainer, push>>
  PROVE  IInv' /\ LedgerStep
<1> USE DEF IInv
<1>1. /\ At(s, "idle") /\ Goto(s, "guarded")
      /\ UNCHANGED <<dbVars, spent, panelVars>>
  BY DEF AttestedGuard
<1>2. /\ ConnType' /\ conn'[s].pc = "guarded"
      /\ \A x \in Session : x # s => conn'[x] = conn[x]
  BY <1>1, GotoFacts DEF ConnPc
<1>3. Placed(s, conn'[s])
  BY <1>1, <1>2 DEF At, WorkInProgress, RequestsPlaced, Placed
<1>4. PanelType' /\ PanelStep /\ spent' \in SpentRow
  BY <1>1, SamePanel DEF TypeOK, PanelType, panelVars, DatabaseType
<1> QED
  BY <1>1, <1>2, <1>3, <1>4, RequestOnly

LEMMA RefuseInv ==
  ASSUME IInv, NEW s \in Session, Refuse(s) \/ ConnCrash(s), UNCHANGED <<drainer, push>>
  PROVE  IInv' /\ LedgerStep
<1> USE DEF IInv
<1>1. /\ Goto(s, "error") \/ Goto(s, "cut")
      /\ UNCHANGED <<dbVars, panelVars>>
      /\ UNCHANGED spent \/ Spend("crash", MaxCrash)
  BY DEF Refuse, ConnCrash
<1>2. {"error", "cut"} \subseteq ConnPc
  BY DEF ConnPc
<1>3. ConnType' /\ \A x \in Session : x # s => conn'[x] = conn[x]
  BY <1>1, <1>2, GotoFacts
<1>4. conn'[s].pc \in {"error", "cut"}
  BY <1>1, <1>2, GotoFacts
<1>5. PanelType' /\ PanelStep /\ spent' \in SpentRow
  BY <1>1, SamePanel, SpendType DEF TypeOK, PanelType, panelVars, DatabaseType
<1>6. Placed(s, conn'[s])
  BY <1>4 DEF Placed
<1> QED
  BY <1>1, <1>3, <1>5, <1>6, RequestOnly

LEMMA DisplaceInv ==
  ASSUME IInv, NEW s \in Session, NEW v \in Session, Displace(s, v), UNCHANGED <<drainer, push>>
  PROVE  IInv' /\ LedgerStep
<1> USE DEF IInv
<1>1. PICK r \in Answer :
        /\ PanelCall(Request("disable", v, 0), r)
        /\ conn' = [conn EXCEPT ![s].pc = IF r = "ok" THEN "disabled" ELSE "displacing",
                                ![s].cur = IF r = "ok" THEN v ELSE None,
                                ![s].todo = @ \ {v}]
  BY DEF Displace
<1>2. PanelType' /\ PanelStep /\ spent' \in SpentRow
  BY <1>1, ZeroBounded, RequestBounded, CallStep
<1>3. conn[s] \in ConnRow /\ Placed(s, conn[s]) /\ conn[s].pc = "displacing"
  BY DEF Displace, At, TypeOK, ConnType, WorkInProgress, RequestsPlaced
<1> DEFINE c == [conn[s] EXCEPT !.pc = IF r = "ok" THEN "disabled" ELSE "displacing",
                                !.cur = IF r = "ok" THEN v ELSE None,
                                !.todo = @ \ {v}]
<1>4. c \in ConnRow
  BY <1>3 DEF ConnRow, ConnPc
<1>5. Placed(s, c)
  BY <1>3 DEF Placed, ConnRow
<1>6. conn' = [conn EXCEPT ![s] = c]
  BY <1>1 DEF TypeOK, ConnType
<1> HIDE DEF c
<1>7. ConnType' /\ conn'[s] = c /\ \A x \in Session : x # s => conn'[x] = conn[x]
  BY <1>4, <1>6 DEF TypeOK, ConnType
<1>8. UNCHANGED dbVars
  BY DEF Displace
<1> QED
  BY <1>2, <1>5, <1>7, <1>8, RequestOnly

LEMMA DisplaceDeleteInv ==
  ASSUME IInv, NEW s \in Session, DisplaceDelete(s), UNCHANGED <<drainer, push>>
  PROVE  IInv' /\ LedgerStep
<1> USE DEF IInv
<1>1. PICK r \in Answer :
        /\ PanelCall(Request("delete", conn[s].cur, 0), r)
        /\ Goto(s, IF r = "ok" THEN "deleted" ELSE "displacing")
  BY DEF DisplaceDelete
<1>2. Placed(s, conn[s]) /\ conn[s].pc = "disabled"
  BY DEF DisplaceDelete, At, WorkInProgress, RequestsPlaced
<1>3. conn[s].cur \in Session /\ conn[s].exp <= session[s].exp
  BY <1>2 DEF Placed
<1>4. PanelType' /\ PanelStep /\ spent' \in SpentRow
  BY <1>1, <1>3, ZeroBounded, RequestBounded, CallStep
<1> DEFINE pc == IF r = "ok" THEN "deleted" ELSE "displacing"
<1>5. pc \in ConnPc /\ pc \in {"deleted", "displacing"}
  BY DEF ConnPc
<1> HIDE DEF pc
<1>6. /\ ConnType' /\ \A x \in Session : x # s => conn'[x] = conn[x]
      /\ conn'[s].pc = pc /\ conn'[s].exp = conn[s].exp /\ conn'[s].cur = conn[s].cur
  BY <1>1, <1>5, GotoFacts DEF pc
<1>7. Placed(s, conn'[s])
  BY <1>3, <1>5, <1>6 DEF Placed
<1>8. UNCHANGED dbVars
  BY DEF DisplaceDelete
<1> QED
  BY <1>4, <1>6, <1>7, <1>8, RequestOnly

LEMMA CreateUserInv ==
  ASSUME IInv, NEW s \in Session, CreateUser(s), UNCHANGED <<drainer, push>>
  PROVE  IInv' /\ LedgerStep
<1> USE DEF IInv
<1>1. PICK r \in Answer :
        /\ PanelCall(Request("create", s, conn[s].exp), r)
        /\ Goto(s, IF r = "ok" THEN "created" ELSE "failing")
  BY DEF CreateUser
<1>2. conn[s].exp \in Nat /\ conn[s].exp <= session[s].exp
  BY DEF CreateUser, At, WorkInProgress, RequestsPlaced, Placed, TypeOK, ConnType, ConnRow
<1>3. PanelType' /\ PanelStep /\ spent' \in SpentRow
  BY <1>1, <1>2, RequestBounded, CallStep
<1> DEFINE pc == IF r = "ok" THEN "created" ELSE "failing"
<1>4. pc \in ConnPc /\ pc \in {"created", "failing"}
  BY DEF ConnPc
<1> HIDE DEF pc
<1>5. /\ ConnType' /\ \A x \in Session : x # s => conn'[x] = conn[x]
      /\ conn'[s].pc = pc /\ conn'[s].exp = conn[s].exp
  BY <1>1, <1>4, GotoFacts DEF pc
<1>6. Placed(s, conn'[s])
  BY <1>2, <1>4, <1>5 DEF Placed
<1>7. UNCHANGED dbVars
  BY DEF CreateUser
<1> QED
  BY <1>3, <1>5, <1>6, <1>7, RequestOnly

LEMMA CheckUserInv ==
  ASSUME IInv, NEW s \in Session, CheckUser(s), UNCHANGED <<drainer, push>>
  PROVE  IInv' /\ LedgerStep
<1> USE DEF IInv
<1>1. PICK r \in Answer :
        /\ PanelRead(r, ReadBack(s, conn[s].exp))
        /\ Goto(s, IF r = "ok" THEN "done" ELSE "failing")
  BY DEF CheckUser
<1>2. UNCHANGED <<dbVars, panelVars>>
  BY DEF CheckUser
<1>3. PanelType' /\ PanelStep /\ spent' \in SpentRow
  BY <1>1, <1>2, ReadStep, SamePanel DEF TypeOK, PanelType, panelVars
<1> DEFINE pc == IF r = "ok" THEN "done" ELSE "failing"
<1>4. pc \in ConnPc /\ pc \in {"done", "failing"}
  BY DEF ConnPc
<1> HIDE DEF pc
<1>5. /\ ConnType' /\ \A x \in Session : x # s => conn'[x] = conn[x]
      /\ conn'[s].pc = pc
  BY <1>1, <1>4, GotoFacts DEF pc
<1>6. Placed(s, conn'[s])
  BY <1>4, <1>5 DEF Placed
<1> QED
  BY <1>2, <1>3, <1>5, <1>6, RequestOnly

(* Phase A: the displaced sessions are closed with their rows, and the     *)
(* request gets a session whose expiry is the one it will send.            *)
LEMMA AdmitInv ==
  ASSUME IInv, NEW s \in Session, Admit(s), UNCHANGED <<drainer, push>>
  PROVE  IInv' /\ LedgerStep
<1> USE DEF IInv
<1> DEFINE c == conn[s]
           row(n) == [st |-> IF c.tier = "premium" THEN "active" ELSE "provisioning",
                      tier |-> c.tier, node |-> n, exp |-> c.exp, born |-> now]
<1>1. PICK V \in SUBSET LiveOf(UserOf[s]), n \in Node :
        /\ session' = [CloseAs(V, "revoked") EXCEPT ![s] = row(n)]
        /\ op' = EnqueueEnd(V, "revoke_user")
        /\ IF c.tier = "premium" THEN UNCHANGED grant
           ELSE \E g \in Grant : /\ grant[g].st = "none"
                                 /\ grant' = [grant EXCEPT ![g] = ConnectGrant(s, c.exp)]
        /\ conn' = [conn EXCEPT ![s].pc = "displacing", ![s].todo = V]
  BY DEF Admit
<1>2. /\ c \in ConnRow /\ c.pc = "planned" /\ session[s] = NoSession
      /\ UNCHANGED <<now, user, reward, node, spent, panelVars>>
  BY DEF Admit, At, TypeOK, ConnType, WorkInProgress, RequestsPlaced, Placed
<1>3. c.tier \in Tier /\ c.exp \in Nat /\ now \in Nat
  BY <1>2 DEF ConnRow, TypeOK, DatabaseType
<1>4. row(n) \in SessionRow /\ row(n).st \in Live /\ row(n).exp = c.exp
  BY <1>3 DEF SessionRow, Live
<1>5. V \in SUBSET Session /\ s \notin V
  BY <1>2 DEF LiveOf, IsLive, NoSession, Live
<1>6. /\ session' \in [Session -> SessionRow]
      /\ \A x \in V : session'[x] = [session[x] EXCEPT !.st = "revoked"]
      /\ \A x \in Session \ V : x # s => session'[x] = session[x]
      /\ session'[s] = row(n)
  <2>1. CloseAs(V, "revoked") \in [Session -> SessionRow]
    BY <1>5 DEF CloseAs, TypeOK, DatabaseType, SessionRow, Closed
  <2>2. \A x \in Session :
          CloseAs(V, "revoked")[x] = IF x \in V THEN [session[x] EXCEPT !.st = "revoked"]
                                     ELSE session[x]
    BY DEF CloseAs
  <2> QED
    BY <1>1, <1>4, <1>5, <2>1, <2>2
<1> HIDE DEF row
<1>7. "revoke_user" \in OpKind
  BY DEF OpKind
<1>8. op' \in [OpId -> OpRow] /\ LedgerStep
  BY <1>1, <1>2, <1>4, <1>5, <1>6, <1>7, CloseStep
<1>9. grant' \in [Grant -> GrantRow]
  <2>1. ConnectGrant(s, c.exp) \in GrantRow
    BY <1>3, ParamAssumption DEF ParamAssumption, ConnectGrant, GrantRow
  <2> QED
    BY <1>1, <2>1 DEF TypeOK, DatabaseType
<1>10. /\ ConnType' /\ \A x \in Session : x # s => conn'[x] = conn[x]
       /\ conn'[s].pc = "displacing" /\ conn'[s].exp = c.exp
  <2> DEFINE d == [c EXCEPT !.pc = "displacing", !.todo = V]
  <2>1. d \in ConnRow /\ d.pc = "displacing" /\ d.exp = c.exp
    BY <1>2, <1>5 DEF ConnRow, ConnPc
  <2>2. conn' = [conn EXCEPT ![s] = d]
    BY <1>1 DEF TypeOK, ConnType
  <2> HIDE DEF d
  <2> QED
    BY <2>1, <2>2 DEF TypeOK, ConnType
<1>11. TypeOK'
  BY <1>2, <1>6, <1>8, <1>9, <1>10 DEF TypeOK, DatabaseType, PanelType, DrainerType, PushType, panelVars
<1>12. RequestsPlaced'
  <2>1. Placed(s, conn[s])'
    BY <1>3, <1>4, <1>6, <1>10 DEF Placed
  <2>2. ASSUME NEW x \in Session, x # s PROVE Placed(x, conn[x])'
    <3>1. Placed(x, conn[x]) /\ conn'[x] = conn[x]
      BY <1>10, <2>2 DEF WorkInProgress, RequestsPlaced
    <3>2. session[x] = NoSession => session'[x] = session[x]
      BY <1>6, <2>2 DEF LiveOf, IsLive, NoSession, Live
    <3>3. session'[x].exp = session[x].exp /\ (IsClosed(x) => IsClosed(x)')
      <4>1. CASE x \in V
        <5>1. session[x] \in SessionRow /\ session'[x] = [session[x] EXCEPT !.st = "revoked"]
          BY <1>6, <4>1 DEF TypeOK, DatabaseType
        <5> QED
          BY <5>1, ClosedRow DEF IsClosed, Closed
      <4>2. CASE x \notin V
        BY <1>6, <2>2, <4>2 DEF IsClosed
      <4> QED
        BY <4>1, <4>2
    <3> QED
      BY <3>1, <3>2, <3>3 DEF Placed
  <2> QED
    BY <2>1, <2>2 DEF RequestsPlaced
<1>13. BatchesExist' /\ PushesExist' /\ PanelStep
  BY <1>2, <1>8, BatchesKept, PushesKept, SamePanel DEF LedgerStep
<1> QED
  BY <1>8, <1>11, <1>12, <1>13, StepPreserves DEF WorkInProgress

LEMMA DisplaceRecordInv ==
  ASSUME IInv, NEW s \in Session, DisplaceRecord(s), UNCHANGED <<drainer, push>>
  PROVE  IInv' /\ LedgerStep
<1> USE DEF IInv
<1> DEFINE o == End(conn[s].cur)
<1>1. /\ Placed(s, conn[s]) /\ conn[s].pc = "deleted" /\ Goto(s, "displacing")
      /\ UNCHANGED <<now, user, session, grant, reward, node, spent, panelVars>>
  BY DEF DisplaceRecord, At, WorkInProgress, RequestsPlaced
<1>2. o \in OpId /\ conn[s].exp <= session[s].exp
  BY <1>1, IdFacts DEF Placed
<1>3. /\ op' \in [OpId -> OpRow]
      /\ \A x \in OpId : /\ op'[x].of = op[x].of /\ op'[x].epoch = op[x].epoch
                         /\ (Exists(x)' <=> Exists(x))
  <2>1. CASE op' = [op EXCEPT ![o].st = "succeeded", ![o].due = FALSE] /\ op[o].st = "pending"
    BY <1>2, <2>1 DEF TypeOK, DatabaseType, OpRow, Exists
  <2>2. CASE op' = op
    BY <2>2 DEF TypeOK, DatabaseType, Exists
  <2> QED
    BY <2>1, <2>2 DEF DisplaceRecord
<1>4. /\ ConnType' /\ \A x \in Session : x # s => conn'[x] = conn[x]
      /\ conn'[s].pc = "displacing" /\ conn'[s].exp = conn[s].exp
  BY <1>1, GotoFacts DEF ConnPc
<1>5. TypeOK'
  BY <1>1, <1>3, <1>4 DEF TypeOK, DatabaseType, PanelType, DrainerType, PushType, panelVars
<1>6. LedgerStep /\ PanelStep
  BY <1>1, <1>3, RowProgress, SamePanel DEF Exists
<1>7. RequestsPlaced'
  BY <1>1, <1>2, <1>4 DEF WorkInProgress, RequestsPlaced, Placed, IsClosed
<1>8. BatchesExist' /\ PushesExist'
  BY <1>6, BatchesKept, PushesKept DEF LedgerStep
<1> QED
  BY <1>5, <1>6, <1>7, <1>8, StepPreserves DEF WorkInProgress

LEMMA FailSessionInv ==
  ASSUME IInv, NEW s \in Session, FailSession(s), UNCHANGED <<drainer, push>>
  PROVE  IInv' /\ LedgerStep
<1> USE DEF IInv
<1>1. /\ conn[s].pc = "failing" /\ Goto(s, "failed_row")
      /\ UNCHANGED <<now, user, grant, reward, op, node, spent, panelVars>>
      /\ session' = [x \in Session |-> IF x \in {s} THEN [session[x] EXCEPT !.st = "failed"]
                                       ELSE session[x]]
  BY DEF FailSession, At, CloseAs
<1>2. /\ session' \in [Session -> SessionRow]
      /\ session'[s].st = "failed" /\ \A x \in Session : session'[x].exp = session[x].exp
      /\ \A x \in Session : x # s => session'[x] = session[x]
  BY <1>1 DEF TypeOK, DatabaseType, SessionRow, Closed
<1>3. /\ ConnType' /\ \A x \in Session : x # s => conn'[x] = conn[x]
      /\ conn'[s].pc = "failed_row"
  BY <1>1, GotoFacts DEF ConnPc
<1>4. TypeOK'
  BY <1>1, <1>2, <1>3 DEF TypeOK, DatabaseType, PanelType, DrainerType, PushType, panelVars
<1>5. LedgerStep
  <2>1. \A x \in Session : session[x].exp \in Nat
    BY DEF TypeOK, DatabaseType, SessionRow
  <2>2. \A x \in Session : IsClosed(x) => session'[x].st \in Closed
    BY <1>2 DEF IsClosed, Closed
  <2>3. \A x \in Session : Cleanup(x) \subseteq OpId /\ End(x)' = End(x)
    BY DEF Cleanup, End, Fail, OpId
  <2>4. \A x \in Session : session'[x].st \in {"revoked", "expired"}
                          => session'[x].st = session[x].st
    BY <1>2
  <2> QED
    BY <1>1, <1>2, <2>1, <2>2, <2>3, <2>4
       DEF LedgerStep, ExpiryGrows, ClosedFinal, RowsKept, CleanupJustified, Exists
<1>6. RequestsPlaced'
  BY <1>2, <1>3 DEF WorkInProgress, RequestsPlaced, Placed, IsClosed, Closed
<1>7. BatchesExist' /\ PushesExist' /\ PanelStep
  BY <1>1, <1>5, BatchesKept, PushesKept, SamePanel DEF LedgerStep
<1> QED
  BY <1>4, <1>5, <1>6, <1>7, StepPreserves DEF WorkInProgress

(* The failed session is closed, so its cleanup row is justified.          *)
LEMMA FailEnqueueInv ==
  ASSUME IInv, NEW s \in Session, FailEnqueue(s), UNCHANGED <<drainer, push>>
  PROVE  IInv' /\ LedgerStep
<1> USE DEF IInv
<1>1. /\ Placed(s, conn[s]) /\ conn[s].pc = "failed_row" /\ Goto(s, "failed_op")
      /\ op' = [op EXCEPT ![Fail(s)] = NewOp("delete_user", s, 0)]
      /\ UNCHANGED <<now, user, session, grant, reward, node, spent, panelVars>>
  BY DEF FailEnqueue, At, WorkInProgress, RequestsPlaced
<1>2. IsClosed(s) /\ Fail(s) \in OpId
  BY <1>1, IdFacts DEF Placed
<1> DEFINE row == NewOp("delete_user", s, 0)
<1>3. row \in OpRow /\ row.st = "pending" /\ row.of = s /\ row.epoch = 0
  BY NewOpType DEF OpKind
<1> HIDE DEF row
<1>4. /\ op' \in [OpId -> OpRow] /\ op'[Fail(s)] = row
      /\ \A o \in OpId : o # Fail(s) => op'[o] = op[o]
  BY <1>1, <1>2, <1>3 DEF TypeOK, DatabaseType, row
<1>5. /\ ConnType' /\ \A x \in Session : x # s => conn'[x] = conn[x]
      /\ conn'[s].pc = "failed_op"
  BY <1>1, GotoFacts DEF ConnPc
<1>6. TypeOK'
  BY <1>1, <1>4, <1>5 DEF TypeOK, DatabaseType, PanelType, DrainerType, PushType, panelVars
<1>7. LedgerStep
  <2>1. \A x \in Session : session[x].exp \in Nat
    BY DEF TypeOK, DatabaseType, SessionRow
  <2>2. RowsKept
    BY <1>1, <1>3, <1>4, <2>1 DEF RowsKept, Exists
  <2>3. CleanupJustified
    <3>1. \A x \in Session : \A o \in Cleanup(x) : o \in OpId /\ (o = Fail(s) => x = s)
      BY DEF Cleanup, End, Fail, OpId
    <3>2. \A x \in Session, o \in OpId :
            o \in Cleanup(x) /\ op'[o].st # "none" /\ op[o].st = "none" => x = s
      BY <1>4, <3>1
    <3> QED
      BY <1>1, <1>2, <3>1, <3>2 DEF CleanupJustified, Exists, IsClosed
  <2> QED
    BY <1>1, <2>1, <2>2, <2>3 DEF LedgerStep, ExpiryGrows, ClosedFinal, IsClosed
<1>8. RequestsPlaced'
  BY <1>1, <1>2, <1>5 DEF WorkInProgress, RequestsPlaced, Placed, IsClosed
<1>9. BatchesExist' /\ PushesExist' /\ PanelStep
  BY <1>1, <1>7, BatchesKept, PushesKept, SamePanel DEF LedgerStep
<1> QED
  BY <1>6, <1>7, <1>8, <1>9, StepPreserves DEF WorkInProgress

LEMMA FailPenaliseInv ==
  ASSUME IInv, NEW s \in Session, FailPenalise(s), UNCHANGED <<drainer, push>>
  PROVE  IInv' /\ LedgerStep
<1> USE DEF IInv
<1>1. /\ Goto(s, "error")
      /\ node' = [node EXCEPT ![session[s].node].streak = IF @ < 3 THEN @ + 1 ELSE @]
      /\ UNCHANGED <<now, user, session, grant, reward, op, spent, panelVars>>
  BY DEF FailPenalise
<1>2. /\ ConnType' /\ \A x \in Session : x # s => conn'[x] = conn[x]
      /\ conn'[s].pc = "error"
  BY <1>1, GotoFacts DEF ConnPc
<1>3. node' \in [Node -> NodeRow]
  <2> DEFINE n == session[s].node
  <2>1. CASE n \in Node
    <3>1. node[n] \in NodeRow
      BY <2>1 DEF TypeOK, DatabaseType
    <3>2. (IF node[n].streak < 3 THEN node[n].streak + 1 ELSE node[n].streak) \in Nat
      BY <3>1 DEF NodeRow
    <3> QED
      BY <1>1, <2>1, <3>1, <3>2 DEF TypeOK, DatabaseType, NodeRow
  <2>2. CASE n \notin Node
    BY <1>1, <2>2 DEF TypeOK, DatabaseType
  <2> QED
    BY <2>1, <2>2
<1>4. TypeOK'
  BY <1>1, <1>2, <1>3 DEF TypeOK, DatabaseType, PanelType, DrainerType, PushType, panelVars
<1>5. LedgerStep /\ PanelStep
  BY <1>1, SameLedger, SamePanel
<1>6. RequestsPlaced'
  BY <1>1, <1>2 DEF WorkInProgress, RequestsPlaced, Placed, IsClosed
<1>7. BatchesExist' /\ PushesExist'
  BY <1>5, BatchesKept, PushesKept DEF LedgerStep
<1> QED
  BY <1>4, <1>5, <1>6, <1>7, StepPreserves DEF WorkInProgress

-----------------------------------------------------------------------------
(* Ad rewards.                                                             *)

(* A step on grants and rewards only.                                      *)
LEMMA GrantOnly ==
  ASSUME IInv, grant' \in [Grant -> GrantRow], reward' \in [Txn -> Grant \cup {None}],
         UNCHANGED <<now, user, session, op, node, spent, panelVars, drainer, conn, push>>
  PROVE  IInv' /\ LedgerStep
<1>1. DatabaseType'
  BY DEF IInv, TypeOK, DatabaseType
<1>2. LedgerStep
  BY SameLedger DEF IInv
<1> QED
  BY <1>1, <1>2, TablesOnly

LEMMA RequestAdTokenInv ==
  ASSUME IInv, NEW u \in User, NEW s \in Session \cup {None}, RequestAdToken(u, s),
         UNCHANGED <<drainer, conn>>
  PROVE  IInv' /\ LedgerStep
<1>1. PICK g \in Grant, rule \in Rules :
        grant' = [grant EXCEPT ![g] =
          [st |-> "pending", owner |-> u, sess |-> s, need |-> rule.need,
           got |-> 0, minutes |-> rule.minutes, exp |-> now + TokenWindow]]
  BY DEF RequestAdToken
<1>2. rule.need \in Nat /\ rule.minutes \in Nat /\ now + TokenWindow \in Nat
  BY ParamAssumption DEF ParamAssumption, Rules, IInv, TypeOK, DatabaseType
<1>3. grant' \in [Grant -> GrantRow]
  BY <1>1, <1>2 DEF IInv, TypeOK, DatabaseType, GrantRow
<1> QED
  BY <1>3, GrantOnly DEF RequestAdToken, IInv, TypeOK, DatabaseType

LEMMA RecordRewardInv ==
  ASSUME IInv, NEW t \in Txn, NEW g \in Grant, RecordVerifiedReward(t, g),
         UNCHANGED <<drainer, conn>>
  PROVE  IInv' /\ LedgerStep
<1>1. reward' \in [Txn -> Grant \cup {None}]
  BY DEF RecordVerifiedReward, IInv, TypeOK, DatabaseType
<1>2. grant[g] \in GrantRow /\ grant[g].got + 1 \in Nat
  BY DEF IInv, TypeOK, DatabaseType, GrantRow
<1> DEFINE row == [grant[g] EXCEPT !.got = @ + 1,
                                   !.st = IF grant[g].got + 1 >= grant[g].need
                                          THEN "fulfilled" ELSE @]
<1>3. row \in GrantRow
  BY <1>2 DEF GrantRow
<1>4. grant' = grant \/ grant' = [grant EXCEPT ![g] = row]
  BY DEF RecordVerifiedReward, IInv, TypeOK, DatabaseType
<1> HIDE DEF row
<1>5. grant' \in [Grant -> GrantRow]
  BY <1>3, <1>4 DEF IInv, TypeOK, DatabaseType
<1> QED
  BY <1>1, <1>5, GrantOnly DEF RecordVerifiedReward

(* What verify buys: a natural number not below the expiry it had, and     *)
(* beyond it exactly when the grant carries minutes.                       *)
LEMMA NewExpiryFacts ==
  ASSUME IInv, NEW g \in Grant, NEW s \in Session, CanVerify(g, s), grant[g].minutes # 0
  PROVE  /\ NewExpiry(g, s) \in Nat
         /\ session[s].exp < NewExpiry(g, s)
         /\ NewExpiry(g, s) <= CapOf(s)
         /\ NewExpiry(g, s) <= BaseOf(s) + grant[g].minutes
<1>1. /\ session[s].exp \in Nat /\ session[s].born \in Nat /\ now \in Nat
      /\ grant[g].minutes \in Nat \ {0}
  BY DEF IInv, TypeOK, DatabaseType, SessionRow, GrantRow
<1>2. SessionCap \in Nat \ {0}
  BY ParamAssumption DEF ParamAssumption
<1>3. BaseOf(s) \in Nat /\ BaseOf(s) >= session[s].exp /\ CapOf(s) \in Nat
  BY <1>1, <1>2 DEF BaseOf, Later, CapOf
<1>4. BaseOf(s) < CapOf(s)
  BY <1>1 DEF CanVerify
<1> QED
  BY <1>1, <1>3, <1>4 DEF NewExpiry, Earlier

LEMMA VerifyInv ==
  ASSUME IInv, NEW g \in Grant, NEW s \in Session, VerifyAdReward(g, s),
         UNCHANGED <<drainer, conn>>
  PROVE  IInv' /\ LedgerStep
<1> USE DEF IInv
<1>1. /\ CanVerify(g, s) /\ IsLive(s)
      /\ grant' = [grant EXCEPT ![g].st = "consumed", ![g].sess = s]
      /\ UNCHANGED <<now, user, reward, node, spent, panelVars>>
  BY DEF VerifyAdReward, CanVerify, Fundable
<1>2. grant' \in [Grant -> GrantRow] /\ reward' \in [Txn -> Grant \cup {None}]
  <2>1. grant \in [Grant -> GrantRow] /\ reward' \in [Txn -> Grant \cup {None}]
    BY <1>1 DEF TypeOK, DatabaseType
  <2>2. [grant[g] EXCEPT !.st = "consumed", !.sess = s] \in GrantRow
    <3>1. grant[g] \in GrantRow
      BY <2>1
    <3> QED
      BY <3>1 DEF GrantRow
  <2>3. grant' = [grant EXCEPT ![g] = [grant[g] EXCEPT !.st = "consumed", !.sess = s]]
    BY <1>1
  <2> QED
    BY <2>1, <2>2, <2>3, Replaced
<1>3. CASE grant[g].minutes = 0
  BY <1>1, <1>2, <1>3, GrantOnly DEF VerifyAdReward
<1>4. CASE grant[g].minutes # 0
  <2> DEFINE e == NewExpiry(g, s)
             row == NewOp("extend_user", s, e)
  <2>1. e \in Nat /\ session[s].exp < e
    BY <1>1, <1>4, NewExpiryFacts
  <2>2. /\ session' = [session EXCEPT
             ![s].exp = e, ![s].st = IF @ = "provisioning" THEN "active" ELSE @]
        /\ op' = [op EXCEPT ![Extend(g)] = row]
        /\ push' = [push EXCEPT ![g] = "pushing"]
    BY <1>4 DEF VerifyAdReward, ExpireEpoch
  <2> HIDE DEF e
  <2>3. row \in OpRow /\ row.st = "pending" /\ row.of = s /\ row.epoch = e
    BY <2>1, NewOpType DEF OpKind
  <2> HIDE DEF row
  <2>4. /\ session' \in [Session -> SessionRow]
        /\ session'[s].exp = e /\ session'[s].st \in Live
        /\ \A x \in Session : x # s => session'[x] = session[x]
    <3>1. session[s] \in SessionRow /\ session[s].st \in Live
      BY <1>1 DEF IsLive, TypeOK, DatabaseType
    <3> DEFINE new == [session[s] EXCEPT !.exp = e,
                         !.st = IF @ = "provisioning" THEN "active" ELSE @]
    <3>2. new \in SessionRow /\ new.exp = e /\ new.st \in Live
      BY <2>1, <3>1 DEF SessionRow, Live
    <3>3. session' = [session EXCEPT ![s] = new]
      BY <2>2 DEF TypeOK, DatabaseType
    <3> HIDE DEF new
    <3> QED
      BY <3>2, <3>3 DEF TypeOK, DatabaseType
  <2>5. /\ Extend(g) \in OpId /\ op' \in [OpId -> OpRow] /\ op'[Extend(g)] = row
        /\ \A o \in OpId : o # Extend(g) => op'[o] = op[o]
    BY <2>2, <2>3, IdFacts DEF TypeOK, DatabaseType
  <2>6. PushType' /\ \A x \in Grant : x # g => push'[x] = push[x]
    BY <2>2 DEF TypeOK, PushType, PushPc
  <2>7. TypeOK'
    BY <1>1, <1>2, <2>4, <2>5, <2>6 DEF TypeOK, DatabaseType, PanelType, DrainerType, ConnType, panelVars
  <2>8. LedgerStep
    <3>1. ExpiryGrows
      BY <2>1, <2>4 DEF ExpiryGrows, TypeOK, DatabaseType, SessionRow
    <3>2. \A x \in Session : IsClosed(x) => x # s
      BY <1>1 DEF IsClosed, IsLive, Live, Closed
    <3>3. ClosedFinal
      BY <2>4, <3>2 DEF ClosedFinal, IsClosed
    <3>4. RowsKept
      BY <2>1, <2>3, <2>4, <2>5 DEF RowsKept, Exists
    <3>5. \A x \in Session : Cleanup(x) \subseteq OpId /\ Extend(g) \notin Cleanup(x)
      BY IdFacts DEF Cleanup
    <3>6. \A x \in Session : session'[x].st \in {"revoked", "expired"}
                            => session'[x].st = session[x].st
      BY <2>4 DEF Live
    <3>7. CleanupJustified
      BY <2>5, <3>5, <3>6 DEF CleanupJustified, Exists
    <3> QED
      BY <3>1, <3>3, <3>4, <3>7 DEF LedgerStep
  <2>9. PushesExist'
    <3>1. \A x \in Grant : push'[x] # "idle" => op'[Extend(x)].st # "none"
      BY <2>3, <2>5, <2>6, IdFacts DEF WorkInProgress, PushesExist, Exists
    <3> QED
      BY <3>1 DEF PushesExist, Exists, Extend
  <2>10. RequestsPlaced'
    <3>1. \A x \in Session : session[x] = NoSession => session'[x] = session[x]
      BY <1>1, <2>4 DEF IsLive, NoSession, Live
    <3> QED
      BY <2>7, <2>8, <3>1, RequestsKept DEF LedgerStep
  <2>11. BatchesExist' /\ PanelStep
    BY <1>1, <2>8, BatchesKept, SamePanel DEF LedgerStep
  <2> QED
    BY <2>7, <2>8, <2>9, <2>10, <2>11, StepPreserves DEF WorkInProgress
<1> QED
  BY <1>3, <1>4

(* A step of the push of grant g that leaves the tables alone.             *)
LEMMA PushOnly ==
  ASSUME IInv, NEW g \in Grant, UNCHANGED <<dbVars, drainer, conn>>, push[g] # "idle",
         PanelType', PanelStep, spent' \in SpentRow, NEW pc \in PushPc,
         push' = [push EXCEPT ![g] = pc]
  PROVE  IInv' /\ LedgerStep
<1> USE DEF IInv
<1>1. TypeOK'
  BY DEF TypeOK, DatabaseType, DrainerType, ConnType, PushType, dbVars
<1>2. LedgerStep
  BY SameLedger DEF dbVars
<1>3. PushesExist'
  BY DEF WorkInProgress, PushesExist, Exists, Extend, TypeOK, PushType, dbVars
<1>4. BatchesExist' /\ RequestsPlaced'
  BY <1>1, <1>2, BatchesKept, RequestsKept DEF LedgerStep, dbVars
<1> QED
  BY <1>1, <1>2, <1>3, <1>4, StepPreserves DEF WorkInProgress

LEMMA PushExpiryInv ==
  ASSUME IInv, NEW g \in Grant, PushExpiry(g), UNCHANGED <<drainer, conn>>
  PROVE  IInv' /\ LedgerStep
<1>1. PICK r \in Answer :
        /\ PanelCall(CallOf(Extend(g)), r)
        /\ push' = [push EXCEPT ![g] =
             IF r # "ok" THEN "error"
             ELSE IF TwoCalls("extend_user") THEN "readback" ELSE "ok"]
  BY DEF PushExpiry
<1>2. Exists(Extend(g)) /\ Extend(g) \in OpId /\ TypeOK /\ push[g] # "idle"
  BY IdFacts DEF PushExpiry, IInv, WorkInProgress, PushesExist
<1>3. PanelType' /\ PanelStep /\ spent' \in SpentRow
  BY <1>1, <1>2, CallOfBounded, CallStep
<1>4. {"error", "readback", "ok"} \subseteq PushPc
  BY DEF PushPc
<1>5. UNCHANGED dbVars
  BY DEF PushExpiry
<1> QED
  BY <1>1, <1>2, <1>3, <1>4, <1>5, PushOnly

LEMMA PushReadBackInv ==
  ASSUME IInv, NEW g \in Grant, PushReadBack(g) \/ PushCrash(g), UNCHANGED <<drainer, conn>>
  PROVE  IInv' /\ LedgerStep
<1>1. /\ UNCHANGED <<dbVars, panelVars>> /\ push[g] # "idle" /\ TypeOK
      /\ \E pc \in PushPc : push' = [push EXCEPT ![g] = pc]
  BY DEF PushReadBack, PushCrash, PushPc, IInv
<1>2. spent' \in SpentRow
  BY <1>1, ReadStep, SpendType DEF PushReadBack, PushCrash, TypeOK, DatabaseType
<1>3. PanelType' /\ PanelStep
  BY <1>1, SamePanel DEF TypeOK, PanelType, panelVars
<1> QED
  BY <1>1, <1>2, <1>3, PushOnly

LEMMA PushRecordInv ==
  ASSUME IInv, NEW g \in Grant, PushRecord(g), UNCHANGED <<drainer, conn>>
  PROVE  IInv' /\ LedgerStep
<1> USE DEF IInv
<1>1. /\ push[g] # "idle" /\ push' = [push EXCEPT ![g] = "done"]
      /\ op' = [op EXCEPT ![Extend(g)].st = PushOutcome(push[g]), ![Extend(g)].due = FALSE]
      /\ UNCHANGED <<now, user, session, grant, reward, node, spent, panelVars>>
  BY DEF PushRecord
<1>2. Exists(Extend(g)) /\ Extend(g) \in OpId
  BY <1>1, IdFacts DEF WorkInProgress, PushesExist
<1>3. PushOutcome(push[g]) \in {"succeeded", "failed"}
  BY DEF PushOutcome
<1>4. /\ op' \in [OpId -> OpRow]
      /\ \A x \in OpId : /\ op'[x].of = op[x].of /\ op'[x].epoch = op[x].epoch
                         /\ (Exists(x)' <=> Exists(x))
  BY <1>1, <1>2, <1>3, RowSettled DEF TypeOK, DatabaseType
<1>5. TypeOK'
  BY <1>1, <1>4 DEF TypeOK, DatabaseType, PanelType, DrainerType, ConnType, PushType, PushPc, panelVars
<1>6. LedgerStep /\ PanelStep
  BY <1>1, <1>4, RowProgress, SamePanel DEF Exists
<1>7. PushesExist'
  <2>1. \A x \in Grant : push'[x] # "idle" => push[x] # "idle" /\ Extend(x) \in OpId
    BY <1>1, IdFacts DEF TypeOK, PushType
  <2> QED
    BY <1>4, <2>1 DEF WorkInProgress, PushesExist, Exists, Extend
<1>8. BatchesExist' /\ RequestsPlaced'
  BY <1>1, <1>5, <1>6, BatchesKept, RequestsKept DEF LedgerStep
<1> QED
  BY <1>5, <1>6, <1>7, <1>8, StepPreserves DEF WorkInProgress

-----------------------------------------------------------------------------
(* The theorems.                                                           *)

LEMMA InitInv == Init => IInv
<1> SUFFICES ASSUME Init PROVE IInv
  OBVIOUS
<1> USE DEF Init
<1>1. /\ \A s \in Session : session[s] = NoSession
      /\ \A o \in OpId : op[o] = NoOp
      /\ limbo = {}
      /\ \A s \in Session : panel[s] = Absent /\ conn[s] = NoConn
      /\ \A g \in Grant : push[g] = "idle"
      /\ \A w \in Worker : drainer[w] = Between
  BY DEF DatabaseInit, PanelInit, DrainerInit, ConnInit, PushInit
<1>2. DatabaseType
  <2>1. NoSession \in SessionRow
    BY DEF NoSession, SessionRow, Tier
  <2>2. NoGrant \in GrantRow
    BY DEF NoGrant, GrantRow
  <2>3. NoOp \in OpRow
    BY DEF NoOp, OpRow, OpKind
  <2> QED
    BY <2>1, <2>2, <2>3 DEF DatabaseInit, DatabaseType, UserRow, NodeRow, SpentRow
<1>3. PanelType /\ DrainerType
  BY TickType DEF PanelInit, PanelType, Absent, PanelUser, DrainerInit, DrainerType
<1>4. ConnType /\ PushType
  BY DEF ConnInit, ConnType, NoConn, ConnRow, ConnPc, Tier, PushInit, PushType, PushPc
<1>5. \A o \in OpId : ~Exists(o)
  BY <1>1 DEF Exists, NoOp
<1>6. WorkInProgress
  BY <1>1 DEF WorkInProgress, BatchesExist, PushesExist, RequestsPlaced, Placed, Between, NoConn
<1>7. PanelNeverAhead
  BY <1>1 DEF PanelNeverAhead, HasUser, Absent
<1>8. CleanupMatchesStatus
  <2>1. \A s \in Session : Cleanup(s) \subseteq OpId
    BY IdFacts DEF Cleanup
  <2> QED
    BY <1>1, <1>5, <2>1 DEF CleanupMatchesStatus, Exists, NoSession
<1> QED
  BY <1>1, <1>2, <1>3, <1>4, <1>5, <1>6, <1>7, <1>8 DEF IInv, TypeOK, RowsBounded, LimboBounded

LEMMA NextInv == IInv /\ Next => IInv' /\ LedgerStep
<1> SUFFICES ASSUME IInv, Next PROVE IInv' /\ LedgerStep
  OBVIOUS
<1>1. ASSUME NEW s \in Session, ConnNext(s), UNCHANGED <<drainer, push>>
      PROVE  IInv' /\ LedgerStep
  BY <1>1, GuardInv, ResolveInv, AdmitInv, RefuseInv, DisplaceInv, DisplaceDeleteInv, DisplaceRecordInv,
     CreateUserInv, CheckUserInv, FailSessionInv, FailEnqueueInv, FailPenaliseInv DEF ConnNext
<1>2. CASE AdStep
  BY <1>2, RequestAdTokenInv, RecordRewardInv, VerifyInv, PushExpiryInv, PushReadBackInv,
     PushRecordInv DEF AdStep, AdNext
<1>3. ASSUME NEW w \in Worker, DrainerNext(w), UNCHANGED <<conn, push>>
      PROVE  IInv' /\ LedgerStep
  BY <1>3, ClaimInv, DispatchInv, DispatchSecondInv, RecordInv, DrainerCrashInv DEF DrainerNext
<1>4. CASE ReapStep
  BY <1>4, ReapInv DEF ReapStep
<1>5. CASE AdminStep
  BY <1>5, AdminInv
<1>6. CASE TimeStep
  BY <1>6, TimeInv
<1>7. CASE LandStep
  BY <1>7, LandInv
<1> QED
  BY <1>1, <1>2, <1>3, <1>4, <1>5, <1>6, <1>7 DEF Next, ConnectStep, DrainStep

LEMMA StutterInv == IInv /\ UNCHANGED vars => IInv'
<1> SUFFICES ASSUME IInv, UNCHANGED vars PROVE IInv'
  OBVIOUS
<1>1. UNCHANGED <<panelVars, drainer, conn, push, session, op>>
  BY DEF vars, dbVars
<1>2. DatabaseType'
  BY DEF vars, dbVars, IInv, TypeOK, DatabaseType
<1>3. LedgerStep
  BY <1>1, SameLedger DEF IInv
<1> QED
  BY <1>1, <1>2, <1>3, TablesOnly

(* The inductive invariant holds in every reachable state of the backend.  *)
THEOREM InvariantHolds == Spec => []IInv
BY InitInv, NextInv, StutterInv, PTL DEF Spec

(* Every table, panel user and piece of work in progress stays in its      *)
(* type: no handler writes a status or an id the schema does not have.     *)
THEOREM TypeCorrect == Spec => []TypeOK
<1>1. IInv => TypeOK
  BY DEF IInv
<1> QED
  BY <1>1, InvariantHolds, PTL

(* No late, repeated, reordered or abandoned panel call gives a user more  *)
(* time than vpn_sessions.expires_at.                                      *)
THEOREM NeverAhead == Spec => []PanelNeverAhead
<1>1. IInv => PanelNeverAhead
  BY DEF IInv
<1> QED
  BY <1>1, InvariantHolds, PTL

(* A cleanup row has a closed session, and the sessions the reaper and the *)
(* revocations closed have their row.                                      *)
THEOREM CleanupJustifiedAlways == Spec => []CleanupMatchesStatus
<1>1. IInv => CleanupMatchesStatus
  BY DEF IInv
<1> QED
  BY <1>1, InvariantHolds, PTL

(* A closed session is never reopened and its expiry never moves again.    *)
THEOREM ClosedForGood == Spec => ClosedStaysClosed
<1>1. IInv /\ [Next]_vars => [ClosedFinal]_vars
  BY NextInv DEF LedgerStep
<1> QED
  BY <1>1, InvariantHolds, PTL DEF Spec, ClosedStaysClosed

-----------------------------------------------------------------------------
(* Grants and the time they buy.                                           *)

(* Only a connect, a mint, a callback and a verify write a grant.          *)
LEMMA GrantWriters ==
  ASSUME Next
  PROVE  \/ UNCHANGED grant
         \/ \E s \in Session : Admit(s)
         \/ \E u \in User, s \in Session \cup {None} : RequestAdToken(u, s)
         \/ \E t \in Txn, g \in Grant : RecordVerifiedReward(t, g)
         \/ \E g \in Grant, s \in Session : VerifyAdReward(g, s)
<1>1. ASSUME NEW s \in Session, ConnNext(s) PROVE UNCHANGED grant \/ Admit(s)
  BY <1>1 DEF ConnNext, AttestedGuard, ResolveTierAndExpiry, Refuse, Displace, DisplaceDelete, DisplaceRecord,
              CreateUser, CheckUser, FailSession, FailEnqueue, FailPenalise, ConnCrash, dbVars
<1>2. ASSUME NEW g \in Grant, PushExpiry(g) \/ PushReadBack(g) \/ PushRecord(g) \/ PushCrash(g)
      PROVE  UNCHANGED grant
  BY <1>2 DEF PushExpiry, PushReadBack, PushRecord, PushCrash, dbVars
<1>3. ASSUME NEW w \in Worker, DrainerNext(w) PROVE UNCHANGED grant
  BY <1>3 DEF DrainerNext, Claim, Dispatch, DispatchSecond, Record, DrainerCrash, dbVars
<1>4. ReapStep \/ TimeStep \/ LandStep => UNCHANGED grant
  BY DEF ReapStep, Reap, TimeStep, Tick, Elapse, LandStep, Land, dbVars
<1>5. AdminStep => UNCHANGED grant
  BY DEF AdminStep, AdminNext, MutateUser, KickSession, PanicRevokeFreeSessions, SetNodeActive,
         NodeSync, ForceMigrateNode
<1> QED
  BY <1>1, <1>2, <1>3, <1>4, <1>5 DEF Next, ConnectStep, AdStep, AdNext, DrainStep

LEMMA SpentStep == IInv /\ Next => SpentForGood
<1> SUFFICES ASSUME IInv, Next, NEW g \in Grant, grant[g].st = "consumed"
             PROVE  grant'[g] = grant[g]
  BY DEF SpentForGood
<1> USE DEF IInv, TypeOK, DatabaseType
<1>1. ASSUME NEW s \in Session, Admit(s) PROVE grant'[g] = grant[g]
  <2>1. UNCHANGED grant \/ \E h \in Grant :
          grant[h].st = "none" /\ grant' = [grant EXCEPT ![h] = ConnectGrant(s, conn[s].exp)]
    BY <1>1 DEF Admit
  <2> QED
    BY <2>1
<1>2. ASSUME NEW u \in User, NEW s \in Session \cup {None}, RequestAdToken(u, s)
      PROVE  grant'[g] = grant[g]
  BY <1>2 DEF RequestAdToken
<1>3. ASSUME NEW t \in Txn, NEW h \in Grant, RecordVerifiedReward(t, h)
      PROVE  grant'[g] = grant[g]
  BY <1>3 DEF RecordVerifiedReward, GrantOpen
<1>4. ASSUME NEW h \in Grant, NEW s \in Session, VerifyAdReward(h, s)
      PROVE  grant'[g] = grant[g]
  BY <1>4 DEF VerifyAdReward, CanVerify, Spendable
<1> QED
  BY <1>1, <1>2, <1>3, <1>4, GrantWriters

(* A grant is spent at most once, and nothing re-opens or re-binds it.     *)
THEOREM SpentOnce == Spec => ConsumedOnce
<1>1. IInv /\ [Next]_vars => [SpentForGood]_vars
  BY SpentStep
<1> QED
  BY <1>1, InvariantHolds, PTL DEF Spec, ConsumedOnce

(* Only a connect that has no session yet and a verify move an expiry.     *)
LEMMA ExpiryWriters ==
  ASSUME IInv, Next, NEW s \in Session, session[s].st # "none", session'[s].exp # session[s].exp
  PROVE  \E g \in Grant : VerifyAdReward(g, s)
<1> USE DEF IInv, TypeOK, DatabaseType
<1>0. \A S, st : session' = CloseAs(S, st) => session'[s].exp = session[s].exp
  BY DEF CloseAs, SessionRow
<1>1. ASSUME NEW x \in Session, ConnNext(x) PROVE session'[s].exp = session[s].exp
  <2>1. CASE Admit(x)
    <3>1. x # s
      BY <2>1 DEF Admit, At, WorkInProgress, RequestsPlaced, Placed, NoSession
    <3>2. PICK V, row : session' = [CloseAs(V, "revoked") EXCEPT ![x] = row]
      BY <2>1 DEF Admit
    <3>3. session'[s] = CloseAs(V, "revoked")[s]
      BY <3>1, <3>2 DEF CloseAs
    <3> QED
      BY <3>3 DEF CloseAs, SessionRow
  <2>2. CASE FailSession(x)
    BY <1>0, <2>2 DEF FailSession
  <2>3. CASE ~Admit(x) /\ ~FailSession(x)
    BY <1>1, <2>3 DEF ConnNext, AttestedGuard, ResolveTierAndExpiry, Refuse, Displace, DisplaceDelete,
       DisplaceRecord, CreateUser, CheckUser, FailEnqueue, FailPenalise, ConnCrash, dbVars
  <2> QED
    BY <2>1, <2>2, <2>3
<1>2. ASSUME NEW w \in Worker, DrainerNext(w) PROVE UNCHANGED session
  BY <1>2 DEF DrainerNext, Claim, Dispatch, DispatchSecond, Record, DrainerCrash, dbVars
<1>3. ReapStep => session'[s].exp = session[s].exp
  BY <1>0 DEF ReapStep, Reap
<1>4. TimeStep \/ LandStep => UNCHANGED session
  BY DEF TimeStep, Tick, Elapse, LandStep, Land, dbVars
<1>5. AdminStep => session'[s].exp = session[s].exp
  BY <1>0 DEF AdminStep, AdminNext, MutateUser, KickSession, PanicRevokeFreeSessions,
              SetNodeActive, NodeSync, ForceMigrateNode, RevokeAll
<1>6. ASSUME AdNext PROVE \E g \in Grant : VerifyAdReward(g, s)
  <2>1. \A u, x : RequestAdToken(u, x) => UNCHANGED session
    BY DEF RequestAdToken
  <2>2. \A t, g : RecordVerifiedReward(t, g) => UNCHANGED session
    BY DEF RecordVerifiedReward
  <2>3. \A g : PushExpiry(g) \/ PushReadBack(g) \/ PushRecord(g) \/ PushCrash(g) => UNCHANGED session
    BY DEF PushExpiry, PushReadBack, PushRecord, PushCrash, dbVars
  <2>4. ASSUME NEW g \in Grant, NEW x \in Session, VerifyAdReward(g, x), x # s
        PROVE  session'[s] = session[s]
    BY <2>4 DEF VerifyAdReward
  <2> QED
    BY <1>6, <2>1, <2>2, <2>3, <2>4 DEF AdNext
<1> QED
  BY <1>1, <1>2, <1>3, <1>4, <1>5, <1>6 DEF Next, ConnectStep, AdStep, DrainStep

(* An expiry moves only when a grant bound to its session is consumed,     *)
(* forward, by at most the grant's minutes and not past the lifetime cap.  *)
THEOREM TimeIsPaidFor == Spec => TimeIsBought
<1>1. IInv /\ Next => Bought
  <2> SUFFICES ASSUME IInv, Next, NEW s \in Session, session[s].st # "none",
                      session'[s].exp # session[s].exp
               PROVE  /\ \E g \in Grant :
                           /\ grant[g].st # "consumed" /\ grant'[g].st = "consumed"
                           /\ grant'[g].sess = s
                           /\ session'[s].exp <= BaseOf(s) + grant[g].minutes
                      /\ session[s].exp < session'[s].exp /\ session'[s].exp <= CapOf(s)
    BY DEF Bought
  <2>1. PICK g \in Grant : VerifyAdReward(g, s)
    BY ExpiryWriters
  <2>2. /\ CanVerify(g, s) /\ grant[g].minutes # 0
        /\ session'[s].exp = NewExpiry(g, s)
    BY <2>1 DEF VerifyAdReward, IInv, TypeOK, DatabaseType, SessionRow
  <2>3. grant[g].st # "consumed" /\ grant'[g].st = "consumed" /\ grant'[g].sess = s
    BY <2>1 DEF VerifyAdReward, CanVerify, Spendable, IInv, TypeOK, DatabaseType, GrantRow
  <2> QED
    BY <2>2, <2>3, NewExpiryFacts
<1> QED
  BY <1>1, InvariantHolds, PTL DEF Spec, TimeIsBought
=============================================================================
