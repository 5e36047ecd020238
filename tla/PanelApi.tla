------------------------------ MODULE PanelApi ------------------------------
(***************************************************************************)
(* The VPN panel (Rebecca or Remnawave, an external service) as the two    *)
(* panel clients see it, and one HTTP call to it.                          *)
(*                                                                         *)
(* A call is answered, or it fails in one of the ways fetchWithTimeout and *)
(* the status checks of the clients tell apart: refused without effect,    *)
(* applied with the answer lost, or abandoned by the eight-second timeout  *)
(* while the panel may still apply it later (it then sits in limbo).       *)
(***************************************************************************)
EXTENDS Database

CONSTANTS
  Provider,   \* "rebecca" or "remnawave"
  MaxFault,   \* bound: how many calls may fail
  MaxLimbo,   \* bound: how many abandoned calls the panel still holds
  MaxCrash    \* bound: how often an instance or a request is cut off

ASSUME PanelAssumption ==
  /\ Provider \in {"rebecca", "remnawave"}
  /\ {MaxFault, MaxLimbo, MaxCrash} \subseteq Nat

VARIABLES
  panel,      \* the panel's users; one per session, named after it
  limbo,      \* abandoned calls that may still take effect
  late        \* history: sessions whose user was created after they had closed

panelVars == <<panel, limbo, late>>

Absent == [st |-> "absent", exp |-> 0]
PanelUser == [st : {"absent", "active", "disabled"}, exp : Nat]
Call == [do : {"create", "expiry", "disable", "delete"}, who : Session, exp : Nat]
Answer == {"ok", "retry", "final"}   \* PanelError.retryable splits the failures

PanelType ==
  /\ panel \in [Session -> PanelUser]
  /\ limbo \in SUBSET Call
  /\ late \in SUBSET Session

PanelInit ==
  /\ panel = [s \in Session |-> Absent]
  /\ limbo = {} /\ late = {}

Request(do, s, exp) == [do |-> do, who |-> s, exp |-> exp]

(* Remnawave refuses an expiry in the past, so its client does not send    *)
(* one; and its client re-activates the user whenever it does send one.    *)
Skipped(c) == c.do = "expiry" /\ Provider = "remnawave" /\ c.exp <= now

AfterExpiry(u, exp) ==
  [st |-> IF Provider = "remnawave" THEN "active" ELSE u.st, exp |-> exp]

\* What the panel makes of user u when it applies c.
Applied(c, u) ==
  CASE c.do = "create" /\ u.st = "absent" -> [st |-> "active", exp |-> c.exp]
    [] c.do = "expiry" /\ u.st # "absent" /\ ~Skipped(c) -> AfterExpiry(u, c.exp)
    [] c.do = "disable" /\ u.st # "absent" -> [u EXCEPT !.st = "disabled"]
    [] c.do = "delete" -> Absent
    [] OTHER -> u

Apply(c) ==
  /\ panel' = [panel EXCEPT ![c.who] = Applied(c, @)]
  /\ late' = IF c.do = "create" /\ ~IsLive(c.who) THEN late \cup {c.who} ELSE late

\* 404 is success for disable and delete, and "vanished" for an expiry.
Verdict(c) == IF c.do = "expiry" /\ panel[c.who].st = "absent" THEN "retry" ELSE "ok"

Fault == Spend("fault", MaxFault)

\* One call c, and the answer r its caller gets.
PanelCall(c, r) ==
  \/ /\ r = Verdict(c) /\ Apply(c)
     /\ UNCHANGED <<limbo, spent>>
  \/ /\ r \in {"retry", "final"} /\ Fault              \* refused
     /\ UNCHANGED panelVars
  \/ /\ r = "retry" /\ Fault /\ Apply(c)               \* the answer is lost
     /\ UNCHANGED limbo
  \/ /\ r = "retry" /\ Fault                           \* abandoned
     /\ Cardinality(limbo) < MaxLimbo
     /\ limbo' = limbo \cup {c}
     /\ UNCHANGED <<panel, late>>

\* A call that only reads: GET of the user.
PanelRead(r, expected) ==
  \/ r = expected /\ UNCHANGED spent
  \/ r \in {"retry", "final"} /\ Fault

\* The panel applies an abandoned call, or never gets to it.
Land(c) ==
  /\ limbo' = limbo \ {c}
  /\ Apply(c) \/ UNCHANGED <<panel, late>>
  /\ UNCHANGED <<dbVars, spent>>

(* How often an op calls the panel: revoke disables and then deletes;      *)
(* Rebecca's setUserExpiry writes and then reads back, and treats another  *)
(* expiry than the one written as an error no retry can cure.              *)
CallOf(o) ==
  Request(CASE op[o].kind = "extend_user" -> "expiry"
            [] op[o].kind = "revoke_user" -> "disable"
            [] OTHER -> "delete",
          op[o].of, op[o].epoch)

\* Mutant: a revoke is done once the user is disabled.
RevokeOnlyDisables(kind) == kind = "extend_user" /\ Provider = "rebecca"

TwoCalls(kind) == kind = "revoke_user" \/ (kind = "extend_user" /\ Provider = "rebecca")

ReadBack(s, epoch) ==
  CASE panel[s].st = "absent" -> "retry"
    [] panel[s].st # "absent" /\ panel[s].exp # epoch -> "final"
    [] OTHER -> "ok"
=============================================================================
