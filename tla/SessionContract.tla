-------------------------- MODULE SessionContract --------------------------
(***************************************************************************)
(* What the backend promises of its sessions, whatever goes on between the *)
(* API, the panel, the outbox and the workers: a session is opened once,   *)
(* within the limits of its user and device; it is closed for good; and    *)
(* while it is open its end moves only for a grant that was never used     *)
(* before, and only forward.                                               *)
(***************************************************************************)
EXTENDS Integers, FiniteSets

CONSTANTS
  Session, Grant,     \* names of sessions and grants
  UserOf, DeviceOf,   \* whose session it is, and on which device
  Limit               \* open sessions of one user

VARIABLES
  life,    \* none, open or closed
  until,   \* the end of each session
  used     \* grants that bought time

contractVars == <<life, until, used>>

OpenOf(u) == {s \in Session : life[s] = "open" /\ UserOf[s] = u}

Init ==
  /\ life = [s \in Session |-> "none"]
  /\ until = [s \in Session |-> 0]
  /\ used = {}

\* s opens in place of the sessions of X.
Open(s, X) ==
  /\ life[s] = "none" /\ X \subseteq OpenOf(UserOf[s])
  /\ Cardinality(OpenOf(UserOf[s]) \ X) < Limit
  /\ \A x \in Session \ X : life[x] = "open" => DeviceOf[x] # DeviceOf[s]
  /\ life' = [x \in Session |-> IF x = s THEN "open" ELSE IF x \in X THEN "closed" ELSE life[x]]
  /\ \A x \in Session \ {s} : until'[x] = until[x]
  /\ UNCHANGED used

Close(S) ==
  /\ \A s \in S : life[s] = "open"
  /\ life' = [s \in Session |-> IF s \in S THEN "closed" ELSE life[s]]
  /\ UNCHANGED <<until, used>>

Extend(g, s) ==
  /\ life[s] = "open" /\ g \notin used
  /\ used' = used \cup {g}
  /\ until'[s] > until[s]
  /\ \A x \in Session \ {s} : until'[x] = until[x]
  /\ UNCHANGED life

Next ==
  \/ \E s \in Session, X \in SUBSET Session : Open(s, X)
  \/ \E S \in SUBSET Session : Close(S)
  \/ \E g \in Grant, s \in Session : Extend(g, s)

Spec == Init /\ [][Next]_contractVars
=============================================================================
