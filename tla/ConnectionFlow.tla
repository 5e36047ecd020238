--------------------------- MODULE ConnectionFlow ---------------------------
(***************************************************************************)
(* ConnectionFlowController (connection_flow.dart) and the engine it       *)
(* drives (singbox_vpn_engine.dart): /connect with its attestation, the    *)
(* rewarded ads, verify, OS consent, start, confirmation, and the teardown *)
(* every error ends in.  Each action is one resumption after an await.     *)
(*                                                                         *)
(* The actions constrain flow and news only; VpnApp joins them with what   *)
(* the ads and the platform do on the calls.                               *)
(***************************************************************************)
EXTENDS Attestation

CONSTANTS
  RequiredAds,  \* requiredAds of the grant
  MaxRetry      \* retries of verify (6 in the code)

ASSUME FlowAssumption == RequiredAds \in Nat /\ MaxRetry \in Nat

VARIABLES
  flow,       \* the controller
  status,     \* what the platform says of the tunnel
  news,       \* the settled state _confirmTunnelUp has been told
  restarted   \* the app was started again while the platform ran on

flowVars == <<flow, status, news, restarted>>

(* at is the phase, with starting split at its awaits into starting,       *)
(* asking (status) and watching (the stream); failing and cancelling stand *)
(* for the busy phase in which _settleError awaits the stop.               *)
Calm == {"idle", "failed", "connected"}
Stopping == {"failing", "cancelling", "disconnecting"}
Phase == Calm \cup Stopping
         \cup {"requestingGrant", "showingAds", "verifying", "preparing",
               "starting", "asking", "watching"}

FlowRow == [at : Phase, cur : Attempt \cup {None}, cancelled : BOOLEAN,
            watched : 0..RequiredAds, tries : 0..MaxRetry]

FlowType ==
  /\ flow \in FlowRow
  /\ status \in {"disconnected", "connecting", "connected", "disconnecting"}
  /\ news \in {"none", "connected", "error"}
  /\ restarted \in BOOLEAN

Idle == [at |-> "idle", cur |-> None, cancelled |-> FALSE, watched |-> 0, tries |-> 0]

FlowInit == flow = Idle /\ status = "disconnected" /\ news = "none" /\ restarted = FALSE

Go(at) == flow' = [flow EXCEPT !.at = at]

\* _settleError: the flag is read once, before the stop is awaited.
Fail == Go(IF flow.cancelled THEN "cancelling" ELSE "failing")

\* _throwIfCancelled after an await.
Checked(step) == IF flow.cancelled THEN Fail ELSE step

-----------------------------------------------------------------------------
\* The button is disabled while a flow is busy; connect() joins a running one.
Connect(a) ==
  /\ flow.at \in {"idle", "failed"}
  /\ BeginAttempt(a)
  /\ flow' = [Idle EXCEPT !.at = "requestingGrant", !.cur = a]
  /\ UNCHANGED news

\* cancel() at any await.
Cancel ==
  /\ flow.at \notin Calm /\ ~flow.cancelled
  /\ flow' = [flow EXCEPT !.cancelled = TRUE]
  /\ UNCHANGED news

\* The requests of the current attempt, until a cancel aborts them.
Requesting(a) ==
  flow.at = "requestingGrant" /\ flow.cur = a /\ ~flow.cancelled

\* Mutant: the loop shows one ad more.
AfterOneMore(n) == IF n > RequiredAds THEN "verifying" ELSE "showingAds"

\* The loop over requiredAds.
AfterAds(n) == IF n = RequiredAds THEN "verifying" ELSE "showingAds"

Granted ==
  /\ flow.at = "requestingGrant" /\ At(flow.cur, "granted")
  /\ Checked(Go(AfterAds(0)))

AdShown ==
  /\ flow.at = "showingAds"
  /\ Checked(flow' = [flow EXCEPT !.watched = @ + 1, !.at = AfterAds(flow.watched + 1)])
  /\ UNCHANGED news

\* An ad that was not completed.
AdMissed == flow.at = "showingAds" /\ Fail /\ UNCHANGED news

Verified == flow.at = "verifying" /\ Checked(Go("preparing"))

\* 409 ads_not_verified, and the backoff after it.
VerifyRetry ==
  /\ flow.at = "verifying" /\ flow.tries < MaxRetry
  /\ Checked(flow' = [flow EXCEPT !.tries = @ + 1])

Prepared == flow.at = "preparing" /\ Checked(Go("starting"))

(* A refusal, an error of the network, the end of the provisioning window, *)
(* consent denied.                                                         *)
StepFails ==
  /\ flow.at \in {"requestingGrant", "verifying", "preparing"}
  /\ Fail

\* vpn.start returned; it is not cancelled any more.
StartReturned == flow.at = "starting" /\ Go("asking")

StartFailed == flow.at = "starting" /\ Fail

\* _confirmTunnelUp: status first, then the stream.
AskStatus ==
  /\ flow.at = "asking"
  /\ Go(IF status = "connected" THEN "connected" ELSE "watching")

\* Mutant: the stream is awaited without a timeout.
NoTimeout == FALSE /\ Fail

\* No settled state within 15 seconds.
ConfirmTimeout == flow.at = "watching" /\ Fail

ToldConnected == flow.at = "watching" /\ news = "connected" /\ Go("connected")
ToldError == flow.at = "watching" /\ news = "error" /\ Fail

FlowStep ==
  /\ \/ Granted \/ Verified \/ VerifyRetry \/ Prepared \/ StepFails
     \/ AskStatus \/ ToldConnected \/ ToldError \/ ConfirmTimeout
  /\ news' = "none"

\* The stop of _stopQuietly or disconnect returned.
Stopped ==
  /\ flow.at \in Stopping
  /\ Go(IF flow.at = "failing" THEN "failed" ELSE "idle")

Disconnect ==
  /\ flow.at = "connected"
  /\ flow' = [flow EXCEPT !.at = "disconnecting", !.cancelled = TRUE]
  /\ UNCHANGED news

\* The app's process or activity ends; bound: once.
UiRestart ==
  /\ ~restarted /\ flow.at # "idle"
  /\ flow' = Idle /\ news' = "none" /\ restarted' = TRUE

-----------------------------------------------------------------------------
(* The platform emits a state: the stream keeps the first settled one for  *)
(* the flow that watches it.                                               *)
Heard(s) == IF flow.at = "watching" /\ news = "none" THEN s ELSE news

Emit(s) == status' = s /\ news' = (IF s = "connected" THEN Heard(s) ELSE news)

\* error, and disconnected right after it
EmitError == status' = "disconnected" /\ news' = Heard("error")

Resting == flow.at \in {"idle", "failed"}
=============================================================================
