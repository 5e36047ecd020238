------------------------------ MODULE Fetches ------------------------------
(***************************************************************************)
(* One backend process with the two secrets it caches: the admin token of  *)
(* the panel and the keys of AdMob.  A restart loses both, with every call *)
(* and callback that is under way.                                         *)
(***************************************************************************)
EXTENDS PanelAuth, SsvIntake

fetchVars == <<authVars, intakeVars>>

FetchesInit == AuthInit /\ IntakeInit

CallStep == AuthNext /\ UNCHANGED intakeVars
CallbackStep == IntakeNext /\ UNCHANGED authVars
Restart == AuthRestart /\ IntakeRestart

FetchesNext == CallStep \/ CallbackStep \/ Restart

FetchesSpec == FetchesInit /\ [][FetchesNext]_fetchVars

FetchesTypeOK == AuthType /\ IntakeType

-----------------------------------------------------------------------------
(* Fairness: a fetch ends by its answer or its timeout, and so does a call *)
(* to the panel; what has its answer runs on.                              *)
Fairness ==
  /\ WF_fetchVars((LoginSettles \/ LoginRefused \/ LoginFails) /\ UNCHANGED intakeVars)
  /\ WF_fetchVars((\E pc \in {"keyless", "again"} : FetchFails(pc)) /\ UNCHANGED authVars)
  /\ \A r \in Req : WF_fetchVars(CallNext(r) /\ UNCHANGED intakeVars)

(* Every call and every callback that waits for a shared fetch is let go,  *)
(* whoever began that fetch and however it ends, and a call that is        *)
(* rejected and repeated ends as well.                                     *)
WaitersAreLetGo ==
  /\ \A r \in Req : (call[r].pc \in Pending) ~> (call[r].pc \notin Pending)
  /\ \A c \in Callback : (cb[c].pc = "keying") ~> (cb[c].pc # "keying")
=============================================================================
