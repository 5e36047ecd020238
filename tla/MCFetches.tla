----------------------------- MODULE MCFetches -----------------------------
(***************************************************************************)
(* Fetches for TLC.  The two halves share nothing but the restarts, so a   *)
(* behaviour exercises one of them; the proofs are about both at once.     *)
(***************************************************************************)
EXTENDS Fetches

VARIABLE half

MCInit == FetchesInit /\ half \in {"calls", "callbacks"}

MCNext ==
  /\ \/ half = "calls" /\ CallStep
     \/ half = "callbacks" /\ CallbackStep
     \/ Restart
  /\ UNCHANGED half

MCSpec == MCInit /\ [][MCNext]_<<fetchVars, half>> /\ Fairness
=============================================================================
