------------------------------- MODULE VpnApp -------------------------------
(***************************************************************************)
(* The mobile app on one phone: the connection flow over its attestation,  *)
(* its ads and the tunnel of its platform.  The platform outlives the app. *)
(***************************************************************************)
EXTENDS AndroidTunnel, IosTunnel, RewardedAds

appVars == <<attestVars, flowVars, androidVars, iosVars, adVars>>

VpnAppInit == AttestInit /\ FlowInit /\ AndroidInit /\ IosInit /\ AdInit

Android == platform = "android" /\ UNCHANGED iosVars
Ios == platform = "ios" /\ UNCHANGED androidVars

AttestStep ==
  /\ \/ LapseNext
     \/ \E a \in Attempt :
          PhoneNext(a) \/ ServerNext(a) \/ (Requesting(a) /\ RequestNext(a))
  /\ UNCHANGED <<flowVars, androidVars, iosVars, adVars>>

\* The flow alone.
Alone ==
  /\ FlowStep \/ Cancel \/ Disconnect
  /\ UNCHANGED <<attestVars, status, restarted, androidVars, iosVars, adVars>>

Begin ==
  /\ \E a \in Attempt : Connect(a)
  /\ UNCHANGED <<status, restarted, androidVars, iosVars, adVars>>

StartCall ==
  /\ StartReturned
  /\ \/ Android /\ SendStart(flow.cur) /\ UNCHANGED <<status, news>>
     \/ Ios /\ StartTunnel(flow.cur)
  /\ UNCHANGED <<attestVars, restarted, adVars>>

\* Android finds the consent gone.
StartRefused ==
  /\ StartFailed
  /\ \/ Android /\ UNCHANGED <<androidVars, status, news>>
     \/ Ios /\ StartTunnelFails(flow.cur)
  /\ UNCHANGED <<attestVars, restarted, adVars>>

(* disconnect() starts the closing ad when the stop has returned, and does *)
(* not wait for it; bound: one closing ad at a time.                       *)
ClosingAd ==
  IF flow.at = "disconnecting" /\ view["closing"] = NoView
    THEN ShowRewarded("closing")
    ELSE UNCHANGED adVars

StopCall ==
  /\ Stopped
  /\ \/ Android /\ SendStop /\ UNCHANGED <<status, news>>
     \/ Ios /\ StopTunnel
  /\ ClosingAd
  /\ UNCHANGED <<attestVars, restarted>>

\* The flow asks for the ads of its grant and takes their results.
AdStep ==
  /\ \/ flow.at = "showingAds" /\ ShowRewarded("grant") /\ UNCHANGED <<flow, news>>
     \/ AdShown /\ Answered("grant", "shown")
     \/ AdMissed /\ Answered("grant", "failed")
     \/ AdNext /\ UNCHANGED <<flow, news>>
  /\ UNCHANGED <<attestVars, status, restarted, androidVars, iosVars>>

TunnelStep ==
  /\ (Android /\ AndroidNext) \/ (Ios /\ IosNext)
  /\ UNCHANGED <<attestVars, flow, restarted, adVars>>

\* The app ends, on iOS also between putConfig and startVPNTunnel.
AppRestart ==
  /\ UiRestart
  /\ slot' = NoAd /\ loading' = FALSE
  /\ view' = [v \in Viewer |-> NoView] /\ nonce' = [ad \in Ad |-> "none"]
  /\ orphaned' = IF flow.at = "starting" THEN orphaned \cup (keychain \cap {flow.cur})
                 ELSE orphaned
  /\ UNCHANGED <<attestVars, status, androidVars, ext, keychain>>

VpnAppNext ==
  \/ AttestStep \/ AdStep \/ Alone \/ Begin \/ StartCall \/ StartRefused
  \/ StopCall \/ TunnelStep \/ AppRestart

VpnAppSpec == VpnAppInit /\ [][VpnAppNext]_appVars

(* The calls to the platform return, putConfig is one of them, and the     *)
(* confirmation is bounded by its timeout; nothing bounds the user, an ad, *)
(* the consent dialog or the tunnel itself.                                *)
Confirm ==
  /\ flow.at \in {"asking", "watching"} /\ FlowStep
  /\ UNCHANGED <<attestVars, status, restarted, androidVars, iosVars, adVars>>

StorePut == Ios /\ PutConfig /\ UNCHANGED <<attestVars, flow, restarted, adVars>>

FairVpnApp ==
  /\ VpnAppSpec
  /\ WF_appVars(StartCall \/ StartRefused) /\ WF_appVars(StopCall)
  /\ WF_appVars(Confirm) /\ WF_appVars(StorePut)

VpnAppTypeOK == AttestType /\ FlowType /\ AndroidType /\ IosType /\ AdType

-----------------------------------------------------------------------------
(* A stop is final: when the flow rests and the platform has no command    *)
(* left, no service lives and no extension starts or runs, whatever a      *)
(* start that was under way, a revocation or an alarm did meanwhile; only  *)
(* an app started again may rest beside a tunnel it knows nothing of.      *)
StopIsFinal ==
  Resting /\ ~restarted /\ intents = <<>>
  => service = None /\ ext.pc \notin {"starting", "up"}

(* Once vpn.start is called the flow never hangs: whatever the platform    *)
(* does, or does not do, it ends connected, failed or idle.                *)
StartSettles ==
  flow.at \in {"starting", "asking", "watching"} \cup Stopping ~> flow.at \in Calm
=============================================================================
