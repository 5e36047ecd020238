----------------------------- MODULE VpnAppProofs -----------------------------
(***************************************************************************)
(* For any number of attempts, ads and retries, on either platform: what   *)
(* the app, the phone's attestation and the tunnel never do, in whatever   *)
(* order cancels, restarts, intents, threads and alarms run.               *)
(***************************************************************************)
EXTENDS VpnApp, TLAPS

(* Beside the types: a flow that left idle is of some attempt, so are the  *)
(* start intents and the threads they began, and the ad loop stays within  *)
(* its grant.                                                              *)
Orders == [act : {"start"}, of : Attempt] \cup {Stop}

AdsInGrant ==
  /\ flow.at = "requestingGrant" => flow.watched = 0
  /\ flow.at = "showingAds" => flow.watched < RequiredAds

FlowOK == flow \in FlowRow /\ (flow.at # "idle" => flow.cur \in Attempt) /\ AdsInGrant

-----------------------------------------------------------------------------
(* Types, component by component.                                          *)

(* A step of an attempt that only moves it on keeps its row.               *)
LEMMA Advanced ==
  ASSUME attempt \in [Attempt -> AttemptRow], NEW a \in Attempt, NEW row \in AttemptRow,
         attempt' = [attempt EXCEPT ![a] = row]
  PROVE  attempt' \in [Attempt -> AttemptRow]
OBVIOUS

LEMMA Gone ==
  ASSUME attempt \in [Attempt -> AttemptRow], NEW a \in Attempt,
         NEW pc \in {"asking", "proving", "attesting", "proved", "checking", "bound",
                     "admitted", "granted", "refused", "denied"},
         Goto(a, pc)
  PROVE  attempt' \in [Attempt -> AttemptRow]
<1>1. attempt[a] \in AttemptRow
  OBVIOUS
<1>2. [attempt[a] EXCEPT !.pc = pc] \in AttemptRow
  BY <1>1 DEF AttemptRow
<1>3. attempt' = [attempt EXCEPT ![a] = [attempt[a] EXCEPT !.pc = pc]]
  BY DEF Goto
<1> QED
  BY <1>2, <1>3, Advanced

LEMMA AttestTyped ==
  ASSUME AttestType,
         \/ LapseNext
         \/ \E a \in Attempt : BeginAttempt(a) \/ PhoneNext(a) \/ ServerNext(a) \/ RequestNext(a)
  PROVE  AttestType'
<1> USE DEF AttestType, Key
<1>1. CASE LapseNext
  BY <1>1 DEF LapseNext, LapseAttestation, LapseChallenge, DeviceRow
<1>2. ASSUME NEW a \in Attempt, BeginAttempt(a) PROVE AttestType'
  BY <1>2, Gone DEF BeginAttempt
<1>3. ASSUME NEW a \in Attempt, PhoneNext(a) PROVE AttestType'
  <2>1. CASE GenerateKey(a) \/ ProveFails(a)
    BY <2>1, Gone DEF GenerateKey, ProveFails
  <2>5. CASE ProveToken(a)
    <3>1. [attempt[a] EXCEPT !.pc = "proved", !.mode = "token"] \in AttemptRow
      BY DEF AttemptRow
    <3> QED
      BY <2>5, <3>1, Advanced DEF ProveToken
  <2>2. CASE AttestKey(a)
    <3>1. [attempt[a] EXCEPT !.pc = "proved", !.mode = "attest", !.key = a] \in AttemptRow
      BY DEF AttemptRow
    <3> QED
      BY <2>2, <3>1 DEF AttestKey
  <2>3. CASE AttestKeyFails(a) \/ KeyInvalid(a)
    BY <2>3, Gone DEF AttestKeyFails, KeyInvalid
  <2>4. CASE SignAssertion(a)
    BY <2>4 DEF SignAssertion, AttemptRow
  <2> QED
    BY <1>3, <2>1, <2>2, <2>3, <2>4, <2>5 DEF PhoneNext
<1>4. ASSUME NEW a \in Attempt, ServerNext(a) PROVE AttestType'
  <2>1. CASE MarkAttested(a)
    BY <2>1, Gone DEF MarkAttested, DeviceRow
  <2>2. CASE RegisterKey(a)
    <3>1. attempt[a].key \in Key \cup {None}
      BY DEF AttemptRow
    <3> QED
      BY <2>2, <3>1, Gone DEF RegisterKey, DeviceRow
  <2>3. CASE AcceptAssertion(a)
    <3>1. attempt[a].sign \in Nat
      BY DEF AttemptRow
    <3> QED
      BY <2>3, <3>1, Gone DEF AcceptAssertion, DeviceRow
  <2>4. CASE VerifyRejected(a)
    BY <2>4, Gone DEF VerifyRejected
  <2>5. CASE ConnectGranted(a) \/ ConnectFails(a)
    BY <2>5, Gone DEF ConnectGranted, ConnectFails
  <2> QED
    BY <1>4, <2>1, <2>2, <2>3, <2>4, <2>5 DEF ServerNext
<1>5. ASSUME NEW a \in Attempt, RequestNext(a) PROVE AttestType'
  <2>1. CASE CreateChallenge(a) \/ ConsumeChallenge(a)
    BY <2>1, Gone DEF CreateChallenge, ConsumeChallenge
  <2>2. CASE ChallengeRefused(a) \/ GuardPasses(a) \/ GuardDenies(a)
    BY <2>2, Gone DEF ChallengeRefused, GuardPasses, GuardDenies
  <2> QED
    BY <1>5, <2>1, <2>2 DEF RequestNext
<1> QED
  BY <1>1, <1>2, <1>3, <1>4, <1>5

(* A move of the flow that leaves its attempt and its counters.            *)
LEMMA GoTyped ==
  ASSUME FlowOK, NEW at \in Phase \ {"idle", "requestingGrant", "showingAds"},
         flow.cur \in Attempt, Go(at)
  PROVE  FlowOK'
BY DEF FlowOK, FlowRow, AdsInGrant, Go

LEMMA FailTyped ==
  ASSUME FlowOK, flow.at # "idle", Fail
  PROVE  FlowOK'
<1>1. PICK at \in {"cancelling", "failing"} : Go(at)
  BY DEF Fail
<1> QED
  BY <1>1, GoTyped DEF FlowOK, Phase, Stopping

LEMMA FlowTyped ==
  ASSUME FlowOK,
         \/ FlowStep \/ Cancel \/ Disconnect \/ StartReturned \/ StartFailed \/ Stopped
         \/ AdShown \/ AdMissed \/ UiRestart
         \/ \E a \in Attempt : Connect(a)
  PROVE  FlowOK'
<1> USE FlowAssumption
<1>0. {"verifying", "preparing", "starting", "asking", "watching", "connected", "failed"}
        \subseteq Phase \ {"idle", "requestingGrant", "showingAds"}
  BY DEF Phase, Calm
<1>1. CASE FlowStep
  <2>1. CASE Granted
    BY <2>1, FailTyped DEF Granted, Checked, AfterAds, Go, FlowOK, FlowRow, AdsInGrant, Phase
  <2>2. CASE Verified \/ Prepared
    BY <2>2, <1>0, FailTyped, GoTyped DEF Verified, Prepared, Checked, FlowOK
  <2>3. CASE VerifyRetry
    BY <2>3, FailTyped DEF VerifyRetry, Checked, FlowOK, FlowRow, AdsInGrant
  <2>4. CASE StepFails \/ ConfirmTimeout \/ ToldError
    BY <2>4, FailTyped DEF StepFails, ConfirmTimeout, ToldError
  <2>5. CASE AskStatus \/ ToldConnected
    BY <2>5, <1>0, GoTyped DEF AskStatus, ToldConnected, FlowOK
  <2> QED
    BY <1>1, <2>1, <2>2, <2>3, <2>4, <2>5 DEF FlowStep
<1>2. CASE Cancel
  BY <1>2 DEF Cancel, Calm, FlowOK, FlowRow, AdsInGrant
<1>3. CASE Disconnect
  BY <1>3 DEF Disconnect, FlowOK, FlowRow, AdsInGrant, Phase, Stopping
<1>4. CASE StartReturned
  BY <1>4, <1>0, GoTyped DEF StartReturned, FlowOK
<1>5. CASE StartFailed \/ AdMissed
  BY <1>5, FailTyped DEF StartFailed, AdMissed
<1>6. CASE Stopped
  BY <1>6 DEF Stopped, Stopping, Go, FlowOK, FlowRow, AdsInGrant, Phase, Calm
<1>7. CASE AdShown
  <2>1. CASE flow.cancelled
    BY <1>7, <2>1, FailTyped DEF AdShown, Checked
  <2>2. CASE ~flow.cancelled
    <3>1. flow.watched + 1 \in 0..RequiredAds /\ flow.at = "showingAds"
      BY <1>7 DEF AdShown, FlowOK, FlowRow, AdsInGrant
    <3>2. flow' = [flow EXCEPT !.watched = @ + 1, !.at = AfterAds(flow.watched + 1)]
      BY <1>7, <2>2 DEF AdShown, Checked
    <3>3. AfterAds(flow.watched + 1) \in Phase \ {"idle", "requestingGrant"}
      BY DEF AfterAds, Phase
    <3>4. AfterAds(flow.watched + 1) = "showingAds" => flow.watched + 1 < RequiredAds
      BY <3>1 DEF AfterAds
    <3> QED
      BY <3>1, <3>2, <3>3, <3>4 DEF FlowOK, FlowRow, AdsInGrant
  <2> QED
    BY <2>1, <2>2
<1>8. CASE UiRestart
  BY <1>8 DEF UiRestart, Idle, FlowOK, FlowRow, AdsInGrant, Phase, Calm
<1>9. ASSUME NEW a \in Attempt, Connect(a) PROVE FlowOK'
  <2>1. flow' = [at |-> "requestingGrant", cur |-> a, cancelled |-> FALSE, watched |-> 0, tries |-> 0]
    BY <1>9 DEF Connect, Idle
  <2> QED
    BY <2>1 DEF FlowOK, FlowRow, AdsInGrant, Phase
<1> QED
  BY <1>1, <1>2, <1>3, <1>4, <1>5, <1>6, <1>7, <1>8, <1>9

(* The intents, instances, threads, cores and alarms of Android.           *)
AndroidOK ==
  /\ AndroidType /\ intents \in Seq(Orders)
  /\ \A a \in Attempt : launch[a].pc # "none" => launch[a].home \in Attempt

LEMMA OrdersTyped == Orders \subseteq Intent
BY DEF Orders, Intent, Stop

LEMMA IntentsTyped ==
  ASSUME NEW q \in Seq(Orders)
  PROVE  q \in Seq(Intent)
BY OrdersTyped

LEMMA SendTyped ==
  ASSUME AndroidOK, SendStop \/ \E a \in Attempt : SendStart(a)
  PROVE  AndroidOK'
<1>1. PICK order \in Orders :
        intents' = Append(intents, order) /\ UNCHANGED <<service, inst, launch, cores, alarms>>
  BY DEF SendStop, SendStart, Orders
<1>2. intents' \in Seq(Orders)
  BY <1>1 DEF AndroidOK
<1> QED
  BY <1>1, <1>2, IntentsTyped DEF AndroidOK, AndroidType

LEMMA StopSelfTyped ==
  ASSUME AndroidOK, NEW i, StopSelf(i)
  PROVE  /\ service' \in Attempt \cup {None}
         /\ inst' \in [Attempt -> [box : Attempt \cup {None}, alarm : Attempt \cup {None}]]
         /\ cores' \subseteq Attempt /\ alarms' \subseteq Attempt
BY DEF AndroidOK, AndroidType, StopSelf, Teardown, NoFields

LEMMA AndroidTyped ==
  ASSUME AndroidOK, AndroidNext
  PROVE  AndroidOK'
<1> USE DEF AndroidOK
<1>1. CASE DeliverStart
  <2> DEFINE a == Head(intents).of
             i == IF service = None THEN a ELSE service
  <2>1. Head(intents) \in Orders /\ intents' \in Seq(Orders)
    BY <1>1 DEF DeliverStart
  <2>2. a \in Attempt
    BY <1>1, <2>1 DEF DeliverStart, Orders, Stop
  <2>3. i \in Attempt
    BY <2>2 DEF AndroidType
  <2>4. /\ service' = i /\ launch' = [launch EXCEPT ![a] = [pc |-> "starting", home |-> i]]
        /\ UNCHANGED <<inst, cores, alarms>>
    BY <1>1 DEF DeliverStart
  <2> HIDE DEF a, i
  <2> QED
    BY <2>1, <2>2, <2>3, <2>4, IntentsTyped DEF AndroidType
<1>2. CASE DeliverStop
  <2>1. intents' \in Seq(Orders) /\ launch' = launch
    BY <1>2 DEF DeliverStop
  <2>2. StopSelf(service) \/ UNCHANGED <<service, inst, cores, alarms>>
    BY <1>2 DEF DeliverStop
  <2> QED
    BY <2>1, <2>2, StopSelfTyped, IntentsTyped DEF AndroidType
<1>3. CASE Revoke
  BY <1>3, StopSelfTyped DEF Revoke, AndroidType
<1>4. ASSUME NEW a \in Attempt, AssignBox(a) PROVE AndroidOK'
  <2>1. launch[a].home \in Attempt
    BY <1>4 DEF AssignBox
  <2> QED
    BY <1>4, <2>1 DEF AssignBox, AndroidType
<1>5. ASSUME NEW a \in Attempt, Announce(a) PROVE AndroidOK'
  <2>1. /\ intents' = intents
        /\ launch' \in [Attempt -> [pc : {"none", "starting", "assigned", "done"},
                                    home : Attempt \cup {None}]]
        /\ \A b \in Attempt : launch'[b].pc # "none" => launch'[b].home \in Attempt
    BY <1>5 DEF Announce, AndroidType
  <2>2. CASE PostAlarm(a)
    BY <2>1, <2>2 DEF PostAlarm, AndroidType
  <2>3. CASE StopSelf(launch[a].home)
    BY <2>1, <2>3, StopSelfTyped DEF AndroidType
  <2> QED
    BY <1>5, <2>2, <2>3 DEF Announce
<1>6. ASSUME NEW a \in Attempt, StartThrows(a) PROVE AndroidOK'
  <2>1. /\ intents' = intents
        /\ launch' \in [Attempt -> [pc : {"none", "starting", "assigned", "done"},
                                    home : Attempt \cup {None}]]
        /\ \A b \in Attempt : launch'[b].pc # "none" => launch'[b].home \in Attempt
    BY <1>6 DEF StartThrows, AndroidType
  <2> QED
    BY <1>6, <2>1, StopSelfTyped DEF StartThrows, AndroidType
<1>7. ASSUME NEW a \in Attempt, AlarmFires(a) PROVE AndroidOK'
  BY <1>7 DEF AlarmFires, AndroidType, NoFields
<1> QED
  BY <1>1, <1>2, <1>3, <1>4, <1>5, <1>6, <1>7 DEF AndroidNext

(* The extension and the keychain of iOS.                                  *)
IosOK == IosType /\ (ext.pc # "off" => ext.of \in Attempt)

LEMMA IosTyped ==
  ASSUME IosOK, flow.at = "starting" => flow.cur \in Attempt,
         \/ IosNext \/ StopTunnel
         \/ \E a \in Attempt : StartTunnel(a) \/ StartTunnelFails(a)
  PROVE  IosOK'
<1> USE DEF IosOK, IosType
<1>1. CASE PutConfig
  BY <1>1 DEF PutConfig
<1>2. CASE TunnelUp
  BY <1>2 DEF TunnelUp
<1>3. CASE TunnelEnds
  BY <1>3 DEF TunnelEnds, Off
<1>4. CASE ExtensionDies
  BY <1>4 DEF ExtensionDies, Off
<1>5. CASE StopTunnel
  BY <1>5 DEF StopTunnel
<1>6. ASSUME NEW a \in Attempt, StartTunnel(a) \/ StartTunnelFails(a) PROVE IosOK'
  BY <1>6 DEF StartTunnel, StartTunnelFails
<1> QED
  BY <1>1, <1>2, <1>3, <1>4, <1>5, <1>6 DEF IosNext

(* What the platform tells the flow.                                       *)
ReportOK ==
  /\ status \in {"disconnected", "connecting", "connected", "disconnecting"}
  /\ news \in {"none", "connected", "error"}

LEMMA EmitTyped ==
  ASSUME ReportOK,
         EmitError \/ \E s \in {"disconnected", "connecting", "connected", "disconnecting"} : Emit(s)
  PROVE  ReportOK'
BY DEF ReportOK, EmitError, Emit, Heard

LEMMA ReportTyped ==
  ASSUME ReportOK,
         \/ AndroidNext \/ IosNext \/ StopTunnel
         \/ \E a \in Attempt : StartTunnel(a) \/ StartTunnelFails(a)
  PROVE  ReportOK'
<1> DEFINE Says == \/ EmitError \/ UNCHANGED <<status, news>>
                   \/ \E s \in {"disconnected", "connecting", "connected", "disconnecting"} : Emit(s)
<1>1. ASSUME DeliverStart \/ DeliverStop \/ Revoke PROVE Says
  BY <1>1 DEF DeliverStart, DeliverStop, Revoke
<1>2. ASSUME NEW a \in Attempt, AssignBox(a) \/ Announce(a) \/ StartThrows(a) \/ AlarmFires(a)
      PROVE  Says
  BY <1>2 DEF AssignBox, Announce, StartThrows, AlarmFires
<1>3. ASSUME IosNext \/ StopTunnel PROVE Says
  BY <1>3 DEF IosNext, PutConfig, TunnelUp, TunnelEnds, ExtensionDies, StopTunnel
<1>4. ASSUME NEW a \in Attempt, StartTunnel(a) \/ StartTunnelFails(a) PROVE Says
  BY <1>4 DEF StartTunnel, StartTunnelFails
<1>5. Says
  BY <1>1, <1>2, <1>3, <1>4 DEF AndroidNext
<1>6. CASE UNCHANGED <<status, news>>
  BY <1>6 DEF ReportOK
<1> QED
  BY <1>5, <1>6, EmitTyped

(* The ads: no ad is in the slot and in a view, or in two views.           *)
AdsApart ==
  /\ \A v \in Viewer :
       /\ view[v].ad # NoAd <=> view[v].pc \in {"binding", "showing"}
       /\ view[v].ad # NoAd => view[v].ad # slot
  /\ \A v, w \in Viewer : view[v].ad # NoAd /\ view[v].ad = view[w].ad => v = w

AdInv == AdType /\ AdsApart /\ NonceKept

LEMMA FreshIsFree ==
  ASSUME AdType
  PROVE  Fresh \in Ad /\ Fresh # slot /\ Fresh # NoAd /\ \A v \in Viewer : view[v].ad # Fresh
<1>1. PICK ad \in Ad : ad \notin {slot, view["grant"].ad, view["closing"].ad}
  BY AdAssumption DEF AdType, Viewer
<1>2. ad # slot /\ \A v \in Viewer : view[v].ad # ad
  BY <1>1 DEF Viewer
<1>3. Fresh \in Ad /\ Fresh # slot /\ \A v \in Viewer : view[v].ad # Fresh
  BY <1>2 DEF Fresh
<1> QED
  BY <1>3, AdAssumption

(* A view moves to pc with an ad, and the others stay.                     *)
Moved(v, pc, ad) ==
  /\ view'[v].pc = pc /\ view'[v].ad = ad
  /\ \A w \in Viewer \ {v} : view'[w].pc = view[w].pc /\ view'[w].ad = view[w].ad

LEMMA MovedTyped ==
  ASSUME AdType, NEW v \in Viewer,
         NEW pc \in {"none", "waiting", "binding", "showing", "shown", "failed"},
         NEW ad \in Ad \cup {NoAd},
         view' = [view EXCEPT ![v] = [pc |-> pc, ad |-> ad]]
  PROVE  /\ view' \in [Viewer -> [pc : {"none", "waiting", "binding", "showing", "shown", "failed"},
                                  ad : Ad \cup {NoAd}]]
         /\ Moved(v, pc, ad)
BY DEF AdType, Moved

LEMMA ShowKeeps ==
  ASSUME AdInv, NEW v \in Viewer, ShowRewarded(v)
  PROVE  AdInv'
<1>0. AdType /\ slot \in Ad \cup {NoAd} /\ NoAd \notin Ad
  BY AdAssumption DEF AdInv, AdType
<1>1. CASE slot # NoAd /\ Take(v) /\ UNCHANGED loading
  <2>1. AdType' /\ Moved(v, "binding", slot)
    BY <1>0, <1>1, MovedTyped DEF ShowRewarded, Take, AdType
  <2>2. slot' = NoAd /\ nonce' = nonce
    BY <1>1 DEF ShowRewarded, Take
  <2>3. AdsApart'
    BY <1>1, <2>1, <2>2 DEF AdInv, AdsApart, Moved
  <2>4. NonceKept'
    BY <2>1, <2>2 DEF AdInv, NonceKept, Moved
  <2> QED
    BY <2>1, <2>3, <2>4 DEF AdInv
<1>2. CASE slot = NoAd /\ loading' = TRUE /\ view' = [view EXCEPT ![v].pc = "waiting"] /\ UNCHANGED slot
  <2>1. view[v].pc = "none" /\ view[v].ad = NoAd /\ nonce' = nonce
    BY DEF ShowRewarded, AdInv, AdsApart
  <2>2. view' = [view EXCEPT ![v] = [pc |-> "waiting", ad |-> NoAd]]
    <3>1. [view[v] EXCEPT !.pc = "waiting"] = [pc |-> "waiting", ad |-> NoAd]
      BY <1>0, <2>1 DEF AdType
    <3> QED
      BY <1>2, <3>1
  <2>3. AdType' /\ Moved(v, "waiting", NoAd)
    BY <1>0, <1>2, <2>1, <2>2, MovedTyped DEF AdType
  <2>4. AdsApart'
    BY <1>2, <2>3 DEF AdInv, AdsApart, Moved
  <2>5. NonceKept'
    BY <2>1, <2>3 DEF AdInv, NonceKept, Moved
  <2> QED
    BY <2>3, <2>4, <2>5 DEF AdInv
<1> QED
  BY <1>1, <1>2 DEF ShowRewarded

LEMMA SettleKeeps ==
  ASSUME AdInv, NEW v \in Viewer, NEW to \in {"shown", "failed"}, Settle(v, to),
         UNCHANGED slot, loading' \in BOOLEAN
  PROVE  AdInv'
<1>0. AdType /\ NoAd \notin Ad
  BY AdAssumption DEF AdInv
<1>1. view' = [view EXCEPT ![v] = [pc |-> to, ad |-> NoAd]]
      /\ nonce' = IF view[v].ad = NoAd THEN nonce ELSE [nonce EXCEPT ![view[v].ad] = "none"]
  BY DEF Settle
<1>2. AdType' /\ Moved(v, to, NoAd)
  <2>1. nonce' \in [Ad -> Viewer \cup {"none"}]
    <3>1. nonce \in [Ad -> Viewer \cup {"none"}]
      BY <1>0 DEF AdType
    <3> DEFINE cleared == [nonce EXCEPT ![view[v].ad] = "none"]
    <3>2. cleared \in [Ad -> Viewer \cup {"none"}]
      BY <3>1
    <3>3. nonce' = nonce \/ nonce' = cleared
      BY <1>1
    <3> HIDE DEF cleared
    <3> QED
      BY <3>1, <3>2, <3>3
  <2> DEFINE Views == [Viewer -> [pc : {"none", "waiting", "binding", "showing", "shown", "failed"},
                                  ad : Ad \cup {NoAd}]]
  <2>2. view' \in Views /\ Moved(v, to, NoAd)
    BY <1>0, <1>1, MovedTyped
  <2>3. slot' \in Ad \cup {NoAd}
    BY <1>0 DEF AdType
  <2> QED
    BY <2>1, <2>2, <2>3 DEF AdType
<1>3. \A ad \in Ad : ad # view[v].ad => nonce'[ad] = nonce[ad]
  BY <1>0, <1>1 DEF AdType
<1>4. AdsApart'
  BY <1>2 DEF AdInv, AdsApart, Moved
<1>5. NonceKept'
  <2> SUFFICES ASSUME NEW w \in Viewer, view'[w].pc = "showing" PROVE nonce'[view'[w].ad] = w
    BY DEF NonceKept
  <2>1. w # v /\ view'[w].ad = view[w].ad /\ view[w].pc = "showing"
    BY <1>2 DEF Moved
  <2>2. view[w].ad # NoAd /\ view[w].ad # view[v].ad /\ view[w].ad \in Ad
    BY <1>0, <2>1 DEF AdInv, AdsApart, AdType
  <2> QED
    BY <1>3, <2>1, <2>2 DEF AdInv, NonceKept
<1> QED
  BY <1>2, <1>4, <1>5 DEF AdInv

LEMMA AdStepKeeps ==
  ASSUME AdInv, AdNext \/ \E v \in Viewer, pc \in {"shown", "failed"} : Answered(v, pc)
  PROVE  AdInv'
<1>0. AdType /\ NoAd \notin Ad
  BY AdAssumption DEF AdInv
<1>1. CASE Preload
  BY <1>1 DEF Preload, AdInv, AdType, AdsApart, NonceKept
<1>2. CASE Loaded
  <2>1. CASE Waiting = {}
    <3>1. slot' = Fresh /\ view' = view /\ nonce' = nonce /\ loading' = FALSE
      BY <1>2, <2>1 DEF Loaded
    <3> QED
      BY <1>0, <3>1, FreshIsFree DEF AdInv, AdType, AdsApart, NonceKept
  <2>2. CASE Waiting # {}
    <3>1. PICK first \in Waiting :
            view' = [v \in Viewer |->
                       IF v = first THEN [pc |-> "binding", ad |-> Fresh]
                       ELSE IF v \in Waiting THEN [pc |-> "failed", ad |-> NoAd]
                       ELSE view[v]]
      BY <1>2, <2>2 DEF Loaded
    <3>2. slot' = slot /\ nonce' = nonce /\ loading' = FALSE
      BY <1>2, <2>2 DEF Loaded
    <3>3. AdType'
      BY <1>0, <3>1, <3>2, FreshIsFree DEF AdType
    <3>4. \A v \in Viewer :
            \/ v = first /\ view'[v].pc = "binding" /\ view'[v].ad = Fresh
            \/ v # first /\ view'[v].pc = "failed" /\ view'[v].ad = NoAd
            \/ v # first /\ view'[v].pc = view[v].pc /\ view'[v].ad = view[v].ad
      BY <3>1
    <3>5. AdsApart'
      BY <1>0, <3>2, <3>4, FreshIsFree DEF AdInv, AdsApart
    <3>6. NonceKept'
      BY <3>2, <3>4 DEF AdInv, NonceKept
    <3> QED
      BY <3>3, <3>5, <3>6 DEF AdInv
  <2> QED
    BY <2>1, <2>2
<1>3. CASE LoadFails
  <2>1. slot' = slot /\ nonce' = nonce /\ loading' = FALSE
    BY <1>3 DEF LoadFails
  <2>2. AdType'
    BY <1>0, <1>3, <2>1 DEF LoadFails, AdType
  <2>3. \A v \in Viewer :
          \/ view[v].pc = "waiting" /\ view'[v].pc = "failed" /\ view'[v].ad = NoAd
          \/ view'[v].pc = view[v].pc /\ view'[v].ad = view[v].ad
    BY <1>3 DEF LoadFails, Waiting
  <2> QED
    BY <2>1, <2>2, <2>3 DEF AdInv, AdsApart, NonceKept
<1>4. ASSUME NEW v \in Viewer, Bind(v) PROVE AdInv'
  <2>1. /\ view[v].pc = "binding" /\ slot' = slot /\ loading' = loading
        /\ nonce' = [nonce EXCEPT ![view[v].ad] = v] /\ view' = [view EXCEPT ![v].pc = "showing"]
    BY <1>4 DEF Bind
  <2>2. view[v].ad \in Ad /\ nonce'[view[v].ad] = v
    BY <1>0, <2>1 DEF AdInv, AdsApart, AdType
  <2>3. [view[v] EXCEPT !.pc = "showing"] = [pc |-> "showing", ad |-> view[v].ad]
    BY <1>0 DEF AdType
  <2>4. view' = [view EXCEPT ![v] = [pc |-> "showing", ad |-> view[v].ad]]
    BY <2>1, <2>3
  <2>5. AdType' /\ Moved(v, "showing", view[v].ad)
    BY <1>0, <2>1, <2>2, <2>4, MovedTyped DEF AdType
  <2>6. AdsApart'
    BY <1>0, <2>1, <2>2, <2>5 DEF AdInv, AdsApart, Moved
  <2>7. \A w \in Viewer \ {v} : view[w].pc = "showing" => view[w].ad # view[v].ad /\ view[w].ad \in Ad
    BY <1>0, <2>1 DEF AdInv, AdsApart, AdType
  <2>8. \A ad \in Ad : ad # view[v].ad => nonce'[ad] = nonce[ad]
    BY <1>0, <2>1, <2>2 DEF AdType
  <2>9. NonceKept'
    BY <2>2, <2>5, <2>7, <2>8 DEF AdInv, NonceKept, Moved
  <2> QED
    BY <2>5, <2>6, <2>9 DEF AdInv
<1>5. ASSUME NEW v \in Viewer, Dismissed(v) PROVE AdInv'
  <2>1. loading' \in BOOLEAN
    BY <1>5 DEF Dismissed
  <2> QED
    BY <1>5, <2>1, SettleKeeps DEF Dismissed
<1>6. ASSUME NEW v \in Viewer, ShowFails(v) PROVE AdInv'
  BY <1>0, <1>6, SettleKeeps DEF ShowFails, AdType
<1>7. ASSUME NEW v \in Viewer, NEW pc \in {"shown", "failed"}, Answered(v, pc) PROVE AdInv'
  <2>1. AdType' /\ Moved(v, "none", NoAd)
    BY <1>0, <1>7, MovedTyped DEF Answered, NoView, AdType
  <2> QED
    BY <1>7, <2>1 DEF Answered, Moved, AdInv, AdsApart, NonceKept
<1> QED
  BY <1>1, <1>2, <1>3, <1>4, <1>5, <1>6, <1>7 DEF AdNext, Viewer

-----------------------------------------------------------------------------
(* The app on its phone.                                                   *)
AppInv ==
  /\ AttestType /\ FlowOK /\ ReportOK /\ restarted \in BOOLEAN
  /\ AndroidOK /\ IosOK /\ AdInv

LEMMA Rests ==
  ASSUME AppInv
  PROVE  /\ UNCHANGED attestVars => AttestType'
         /\ UNCHANGED flow => FlowOK'
         /\ UNCHANGED <<status, news>> => ReportOK'
         /\ UNCHANGED androidVars => AndroidOK'
         /\ UNCHANGED iosVars => IosOK'
         /\ UNCHANGED adVars => AdInv'
<1> USE DEF AppInv
<1>1. UNCHANGED attestVars => AttestType'
  BY DEF attestVars, AttestType
<1>2. UNCHANGED flow => FlowOK'
  BY DEF FlowOK, AdsInGrant
<1>3. UNCHANGED <<status, news>> => ReportOK'
  BY DEF ReportOK
<1>4. UNCHANGED androidVars => AndroidOK'
  BY DEF androidVars, AndroidOK, AndroidType
<1>5. UNCHANGED iosVars => IosOK'
  BY DEF iosVars, IosOK, IosType
<1>6. UNCHANGED adVars => AdInv'
  BY DEF adVars, AdInv, AdType, AdsApart, NonceKept
<1> QED
  BY <1>1, <1>2, <1>3, <1>4, <1>5, <1>6

LEMMA RestartKeeps ==
  ASSUME AppInv, AppRestart
  PROVE  AppInv'
<1>1. AttestType' /\ FlowOK' /\ AndroidOK'
  BY Rests, FlowTyped DEF AppRestart, AppInv
<1>2. ReportOK' /\ restarted' \in BOOLEAN
  BY DEF AppRestart, UiRestart, AppInv, ReportOK
<1>3. IosOK'
  BY DEF AppRestart, AppInv, IosOK, IosType
<1>4. AdInv'
  BY DEF AppRestart, NoView, AdInv, AdType, AdsApart, NonceKept
<1> QED
  BY <1>1, <1>2, <1>3, <1>4 DEF AppInv

LEMMA CallKeeps ==
  ASSUME AppInv, StartCall \/ StartRefused \/ StopCall
  PROVE  AppInv'
<1>1. flow.at # "idle" /\ (flow.at = "starting" => flow.cur \in Attempt) /\ flow.cur \in Attempt
  BY DEF AppInv, FlowOK, StartCall, StartReturned, StartRefused, StartFailed, StopCall, Stopped, Stopping
<1>2. CASE StartCall
  <2>1. AttestType' /\ FlowOK' /\ AdInv' /\ restarted' \in BOOLEAN
    BY <1>2, Rests, FlowTyped DEF StartCall, AppInv
  <2>2. CASE Android /\ SendStart(flow.cur) /\ UNCHANGED <<status, news>>
    BY <1>1, <2>1, <2>2, Rests, SendTyped DEF Android, AppInv
  <2>3. CASE Ios /\ StartTunnel(flow.cur)
    BY <1>1, <2>1, <2>3, Rests, IosTyped, ReportTyped DEF Ios, AppInv
  <2> QED
    BY <1>2, <2>2, <2>3 DEF StartCall
<1>3. CASE StartRefused
  <2>1. AttestType' /\ FlowOK' /\ AdInv' /\ restarted' \in BOOLEAN
    BY <1>3, Rests, FlowTyped DEF StartRefused, AppInv
  <2>2. CASE Android /\ UNCHANGED <<androidVars, status, news>>
    BY <2>1, <2>2, Rests DEF Android, AppInv
  <2>3. CASE Ios /\ StartTunnelFails(flow.cur)
    BY <1>1, <2>1, <2>3, Rests, IosTyped, ReportTyped DEF Ios, AppInv
  <2> QED
    BY <1>3, <2>2, <2>3 DEF StartRefused
<1>4. CASE StopCall
  <2>1. AttestType' /\ FlowOK' /\ restarted' \in BOOLEAN
    BY <1>4, Rests, FlowTyped DEF StopCall, AppInv
  <2>2. AdInv'
    BY <1>4, Rests, ShowKeeps DEF StopCall, ClosingAd, Viewer, AppInv
  <2>3. CASE Android /\ SendStop /\ UNCHANGED <<status, news>>
    BY <2>1, <2>2, <2>3, Rests, SendTyped DEF Android, AppInv
  <2>4. CASE Ios /\ StopTunnel
    BY <1>1, <2>1, <2>2, <2>4, Rests, IosTyped, ReportTyped DEF Ios, AppInv
  <2> QED
    BY <1>4, <2>3, <2>4 DEF StopCall
<1> QED
  BY <1>2, <1>3, <1>4

(* No step of the app, the phone, the server or the platform, and no       *)
(* stuttering step, leaves the invariant.                                  *)
LEMMA AppKeeps == AppInv /\ [VpnAppNext]_appVars => AppInv'
<1> SUFFICES ASSUME AppInv, [VpnAppNext]_appVars PROVE AppInv'
  OBVIOUS
<1>1. CASE AttestStep
  <2>1. AttestType'
    BY <1>1, AttestTyped DEF AttestStep, AppInv
  <2> QED
    BY <1>1, <2>1, Rests DEF AttestStep, flowVars, AppInv
<1>2. CASE AdStep
  <2>1. FlowOK'
    BY <1>2, Rests, FlowTyped DEF AdStep, AppInv
  <2>2. AdInv'
    BY <1>2, ShowKeeps, AdStepKeeps DEF AdStep, Viewer, AppInv
  <2>3. ReportOK'
    BY <1>2, Rests DEF AdStep, AdShown, AdMissed, AppInv
  <2> QED
    BY <1>2, <2>1, <2>2, <2>3, Rests DEF AdStep, AppInv
<1>3. CASE Alone
  <2>1. FlowOK'
    BY <1>3, FlowTyped DEF Alone, AppInv
  <2>2. ReportOK'
    BY <1>3 DEF Alone, FlowStep, Cancel, Disconnect, AppInv, ReportOK
  <2> QED
    BY <1>3, <2>1, <2>2, Rests DEF Alone, AppInv
<1>4. CASE Begin
  <2>1. PICK a \in Attempt : Connect(a)
    BY <1>4 DEF Begin
  <2>2. FlowOK'
    BY <2>1, FlowTyped DEF AppInv
  <2>3. AttestType'
    BY <2>1, AttestTyped DEF Connect, AppInv
  <2>4. ReportOK'
    BY <1>4, <2>1 DEF Begin, Connect, AppInv, ReportOK
  <2> QED
    BY <1>4, <2>2, <2>3, <2>4, Rests DEF Begin, AppInv
<1>5. CASE TunnelStep
  <2>1. AttestType' /\ FlowOK' /\ AdInv' /\ restarted' \in BOOLEAN
    BY <1>5, Rests DEF TunnelStep, AppInv
  <2>2. CASE Android /\ AndroidNext
    BY <2>1, <2>2, Rests, AndroidTyped, ReportTyped DEF Android, AppInv
  <2>3. CASE Ios /\ IosNext
    <3>1. flow.at = "starting" => flow.cur \in Attempt
      BY DEF AppInv, FlowOK
    <3> QED
      BY <2>1, <2>3, <3>1, Rests, IosTyped, ReportTyped DEF Ios, AppInv
  <2> QED
    BY <1>5, <2>2, <2>3 DEF TunnelStep
<1>6. CASE UNCHANGED appVars
  BY <1>6, Rests DEF appVars, flowVars, AppInv
<1> QED
  BY <1>1, <1>2, <1>3, <1>4, <1>5, <1>6, CallKeeps, RestartKeeps DEF VpnAppNext

LEMMA AppInit == VpnAppInit => AppInv
<1> SUFFICES ASSUME VpnAppInit PROVE AppInv
  OBVIOUS
<1>1. AttestType
  <2>1. Unused \in AttemptRow
    BY DEF Unused, AttemptRow
  <2>2. device \in DeviceRow /\ savedKey \in Key \cup {None} /\ signs \in Nat
    <3>1. /\ [ok |-> FALSE, bound |-> None, key |-> None, count |-> 0] \in DeviceRow
          /\ [ok |-> FALSE, bound |-> None, key |-> OldKey, count |-> 1] \in DeviceRow
      BY DEF DeviceRow, Key
    <3>2. OldKey \in Key
      BY DEF Key
    <3>3. /\ \/ device = [ok |-> FALSE, bound |-> None, key |-> None, count |-> 0]
             \/ device = [ok |-> FALSE, bound |-> None, key |-> OldKey, count |-> 1]
          /\ savedKey \in {OldKey, None} /\ signs \in {0, 1}
      BY DEF VpnAppInit, AttestInit
    <3>4. device \in DeviceRow
      BY <3>1, <3>3, Zenon
    <3> QED
      BY <3>2, <3>3, <3>4
  <2> QED
    BY <2>1, <2>2 DEF VpnAppInit, AttestInit, AttestType
<1>2. FlowOK /\ ReportOK /\ restarted \in BOOLEAN
  <2>1. Idle \in FlowRow
    BY FlowAssumption DEF Idle, FlowRow, Phase, Calm
  <2> QED
    BY <2>1 DEF VpnAppInit, FlowInit, Idle, FlowOK, AdsInGrant, ReportOK
<1>3. AndroidOK
  BY DEF VpnAppInit, AndroidInit, AndroidOK, AndroidType, NoFields
<1>4. IosOK
  BY DEF VpnAppInit, IosInit, IosOK, IosType, Off
<1>5. AdInv
  BY DEF VpnAppInit, AdInit, AdInv, AdType, AdsApart, NonceKept, NoView
<1> QED
  BY <1>1, <1>2, <1>3, <1>4, <1>5 DEF AppInv

LEMMA AppInvariant == VpnAppSpec => []AppInv
<1> QED
  BY AppInit, AppKeeps, PTL DEF VpnAppSpec

(* Every variable of the app, the phone and its tunnels keeps its type.    *)
THEOREM VpnAppTyped == VpnAppSpec => []VpnAppTypeOK
<1>1. AppInv => VpnAppTypeOK
  BY DEF AppInv, FlowOK, ReportOK, AndroidOK, IosOK, AdInv, VpnAppTypeOK, FlowType
<1> QED
  BY <1>1, AppInvariant, PTL

(* An ad on the screen is reported with the nonce of the view that shows   *)
(* it (AdMobRewardService.showRewarded), closing ads included.             *)
THEOREM NonceIsKept == VpnAppSpec => []NonceKept
<1>1. AppInv => NonceKept
  BY DEF AppInv, AdInv
<1> QED
  BY <1>1, AppInvariant, PTL

-----------------------------------------------------------------------------
(* Attestation.                                                            *)

(* No accepted assertion is ahead of the stored counter, and a key is      *)
(* saved by the attempt that attested it.                                  *)
ProofInv ==
  /\ \A a \in Attempt : Accepted(a) => attempt[a].sign <= device.count
  /\ \A a \in Attempt :
       attempt[a].mode = "attest" => /\ attempt[a].key = a
                                     /\ attempt[a].pc \in {"proved", "checking", "bound",
                                                           "admitted", "granted", "refused",
                                                           "denied"}
  /\ savedKey \in Attempt => attempt[savedKey].mode = "attest"
  /\ SavedKeyKnown

LEMMA ProofInitially == VpnAppInit => ProofInv
<1> SUFFICES ASSUME VpnAppInit PROVE ProofInv
  OBVIOUS
<1>1. savedKey \in {None, OldKey} /\ attempt = [a \in Attempt |-> Unused]
  BY DEF VpnAppInit, AttestInit
<1>2. savedKey \notin Attempt
  BY <1>1, AttestAssumption DEF Key
<1> QED
  BY <1>1, <1>2 DEF ProofInv, SavedKeyKnown, Accepted, Unused

(* A step of an attempt that leaves device, saved key and proof alone.     *)
LEMMA GotoProof ==
  ASSUME AttestType, ProofInv, NEW a \in Attempt, NEW to, Goto(a, to),
         UNCHANGED <<device, savedKey>>,
         \/ attempt[a].mode # "attest" /\ to # "unused"
         \/ to \in {"checking", "refused"}
         \/ attempt[a].pc \in {"bound", "admitted"} /\ to \in {"admitted", "granted", "denied"},
         \/ to \in {"asking", "proving", "attesting", "checking", "refused"}
         \/ attempt[a].pc \in {"bound", "admitted"}
  PROVE  ProofInv'
<1>1. /\ attempt'[a].pc = to /\ attempt'[a].mode = attempt[a].mode
      /\ attempt'[a].key = attempt[a].key /\ attempt'[a].sign = attempt[a].sign
      /\ \A b \in Attempt \ {a} : attempt'[b] = attempt[b]
  BY DEF Goto, AttestType, AttemptRow
<1>2. \A b \in Attempt : Accepted(b)' => attempt'[b].sign <= device'.count
  <2>1. \A b \in Attempt : Accepted(b)' => Accepted(b) /\ attempt'[b].sign = attempt[b].sign
    BY <1>1 DEF Accepted
  <2> QED
    BY <2>1 DEF ProofInv
<1>3. \A b \in Attempt :
        attempt'[b].mode = "attest" => /\ attempt'[b].key = b
                                       /\ attempt'[b].pc \in {"proved", "checking", "bound",
                                                              "admitted", "granted", "refused",
                                                              "denied"}
  BY <1>1 DEF ProofInv
<1>4. \A b \in Attempt : attempt'[b].mode = attempt[b].mode
  BY <1>1
<1>5. SavedKeyKnown'
  BY <1>1, <1>4 DEF ProofInv, SavedKeyKnown
<1> QED
  BY <1>2, <1>3, <1>4, <1>5 DEF ProofInv

LEMMA PhoneProof ==
  ASSUME AttestType, ProofInv, NEW a \in Attempt, PhoneNext(a)
  PROVE  ProofInv'
<1>0. attempt[a].pc \in {"proving", "attesting"} => attempt[a].mode # "attest"
  BY DEF ProofInv
<1>1. CASE GenerateKey(a) \/ ProveFails(a)
  BY <1>0, <1>1, GotoProof DEF GenerateKey, ProveFails, At
<1>2. CASE ProveToken(a) \/ SignAssertion(a)
  <2>1. /\ attempt'[a].pc = "proved" /\ attempt'[a].mode \in {"token", "assert"}
        /\ \A b \in Attempt \ {a} : attempt'[b] = attempt[b]
        /\ UNCHANGED <<device, savedKey, challenge>> /\ attempt[a].mode # "attest"
    BY <1>0, <1>2 DEF ProveToken, SignAssertion, At, AttestType, AttemptRow
  <2>2. SavedKeyKnown'
    BY <2>1 DEF ProofInv, SavedKeyKnown
  <2> QED
    BY <2>1, <2>2 DEF ProofInv, Accepted
<1>3. CASE AttestKey(a)
  <2>1. /\ attempt'[a].pc = "proved" /\ attempt'[a].mode = "attest" /\ attempt'[a].key = a
        /\ \A b \in Attempt \ {a} : attempt'[b] = attempt[b]
        /\ UNCHANGED <<device, challenge>> /\ savedKey' = a
    BY <1>3 DEF AttestKey, AttestType, AttemptRow
  <2>2. SavedKeyKnown'
    BY <2>1 DEF SavedKeyKnown
  <2> QED
    BY <2>1, <2>2 DEF ProofInv, Accepted
<1>4. CASE AttestKeyFails(a) \/ KeyInvalid(a)
  <2>1. /\ attempt'[a].pc = "refused" /\ attempt'[a].mode = attempt[a].mode
        /\ \A b \in Attempt \ {a} : attempt'[b] = attempt[b]
        /\ UNCHANGED <<device, challenge>> /\ savedKey' \in {savedKey, None}
        /\ attempt[a].mode # "attest"
    BY <1>0, <1>4 DEF AttestKeyFails, KeyInvalid, At, Goto, AttestType, AttemptRow
  <2>2. None \notin Attempt
    BY AttestAssumption DEF Key
  <2>3. SavedKeyKnown'
    BY <2>1, <2>2 DEF ProofInv, SavedKeyKnown
  <2> QED
    BY <2>1, <2>2, <2>3 DEF ProofInv, Accepted
<1> QED
  BY <1>1, <1>2, <1>3, <1>4 DEF PhoneNext

LEMMA RequestProof ==
  ASSUME AttestType, ProofInv, NEW a \in Attempt, RequestNext(a)
  PROVE  ProofInv'
<1>1. attempt[a].pc = "asking" => attempt[a].mode # "attest"
  BY DEF ProofInv
<1>2. CASE CreateChallenge(a)
  BY <1>1, <1>2, GotoProof DEF CreateChallenge, At, AttestType
<1>3. CASE ConsumeChallenge(a)
  BY <1>3, GotoProof DEF ConsumeChallenge, AttestType
<1>4. CASE ChallengeRefused(a)
  BY <1>4, GotoProof DEF ChallengeRefused
<1>5. CASE GuardPasses(a) \/ GuardDenies(a)
  BY <1>5, GotoProof DEF GuardPasses, GuardDenies, At
<1> QED
  BY <1>2, <1>3, <1>4, <1>5 DEF RequestNext

LEMMA ServerProof ==
  ASSUME AttestType, ProofInv, NEW a \in Attempt, ServerNext(a)
  PROVE  ProofInv'
<1>1. CASE VerifyRejected(a)
  BY <1>1, GotoProof DEF VerifyRejected
<1>3. CASE ConnectGranted(a) \/ ConnectFails(a)
  BY <1>3, GotoProof DEF ConnectGranted, ConnectFails, At
<1>2. CASE MarkAttested(a) \/ RegisterKey(a) \/ AcceptAssertion(a)
  <2>1. /\ attempt[a].pc = "checking" /\ attempt'[a].pc = "bound"
        /\ attempt'[a].mode = attempt[a].mode /\ attempt'[a].key = attempt[a].key
        /\ attempt'[a].sign = attempt[a].sign
        /\ \A b \in Attempt \ {a} : attempt'[b] = attempt[b]
        /\ UNCHANGED <<savedKey, challenge>>
    BY <1>2 DEF MarkAttested, RegisterKey, AcceptAssertion, At, Goto, AttestType, AttemptRow
  <2>2. \/ device'.key = device.key /\ attempt[a].mode # "attest"
        \/ device'.key = attempt[a].key /\ attempt[a].mode = "attest"
    <3>1. CASE MarkAttested(a)
      BY <3>1 DEF MarkAttested, AttestType, DeviceRow
    <3>2. CASE RegisterKey(a)
      BY <3>2 DEF RegisterKey
    <3>3. CASE AcceptAssertion(a)
      BY <3>3 DEF AcceptAssertion, AttestType, DeviceRow
    <3> QED
      BY <1>2, <3>1, <3>2, <3>3
  <2>3. SavedKeyKnown'
    BY <2>1, <2>2 DEF ProofInv, SavedKeyKnown
  <2>4. \A b \in Attempt : attempt'[b].mode = attempt[b].mode /\ attempt'[b].key = attempt[b].key
    BY <2>1
  <2>5. \A b \in Attempt : Accepted(b)' => attempt'[b].sign <= device'.count
    <3>1. \A b \in Attempt \ {a} : Accepted(b)' => Accepted(b) /\ attempt'[b].sign = attempt[b].sign
      BY <2>1 DEF Accepted
    <3>2. device.count \in Nat /\ \A b \in Attempt : attempt[b].sign \in Nat
      BY DEF AttestType, DeviceRow, AttemptRow
    <3>3. CASE MarkAttested(a) \/ RegisterKey(a)
      <4>1. device'.count = device.count /\ ~Accepted(a)'
        <5>1. device'.count = device.count
          <6>1. device \in DeviceRow
            BY DEF AttestType
          <6>2. CASE MarkAttested(a)
            BY <6>1, <6>2 DEF MarkAttested, DeviceRow
          <6>3. CASE RegisterKey(a)
            BY <6>3 DEF RegisterKey
          <6> QED
            BY <3>3, <6>2, <6>3
        <5>2. attempt[a].mode # "assert"
          BY <3>3 DEF MarkAttested, RegisterKey
        <5> QED
          BY <2>1, <5>1, <5>2 DEF Accepted
      <4> QED
        BY <3>1, <4>1 DEF ProofInv
    <3>4. CASE AcceptAssertion(a)
      <4>1. device'.count = attempt[a].sign /\ attempt[a].sign > device.count
        BY <3>4 DEF AcceptAssertion, NewerSign, AttestType, DeviceRow
      <4>2. ~Accepted(a) /\ attempt'[a].sign = attempt[a].sign
        BY <2>1 DEF Accepted
      <4> QED
        BY <3>1, <3>2, <4>1, <4>2 DEF ProofInv
    <3> QED
      BY <1>2, <3>3, <3>4
  <2> QED
    BY <2>1, <2>3, <2>4, <2>5 DEF ProofInv
<1> QED
  BY <1>1, <1>2, <1>3 DEF ServerNext

LEMMA ProofStep == AppInv /\ ProofInv /\ [VpnAppNext]_appVars => ProofInv'
<1> SUFFICES ASSUME AppInv, ProofInv, [VpnAppNext]_appVars PROVE ProofInv'
  OBVIOUS
<1>0. AttestType
  BY DEF AppInv
<1>1. CASE UNCHANGED attestVars
  BY <1>1 DEF attestVars, ProofInv, SavedKeyKnown, Accepted
<1>2. CASE Begin
  <2>1. PICK a \in Attempt : BeginAttempt(a)
    BY <1>2 DEF Begin, Connect
  <2>2. attempt[a].mode # "attest"
    BY <2>1 DEF BeginAttempt, At, ProofInv
  <2> QED
    BY <1>0, <2>1, <2>2, GotoProof DEF BeginAttempt
<1>3. CASE AttestStep
  <2>1. ASSUME NEW a \in Attempt, LapseChallenge(a) PROVE ProofInv'
    BY <1>0, <2>1 DEF LapseChallenge, ProofInv, SavedKeyKnown, Accepted, AttestType
  <2>2. ASSUME LapseAttestation PROVE ProofInv'
    BY <1>0, <2>2 DEF LapseAttestation, ProofInv, SavedKeyKnown, Accepted, AttestType, DeviceRow
  <2> QED
    BY <1>0, <1>3, <2>1, <2>2, PhoneProof, ServerProof, RequestProof DEF AttestStep, LapseNext
<1> QED
  BY <1>1, <1>2, <1>3
     DEF VpnAppNext, AdStep, Alone, StartCall, StartRefused, StopCall, TunnelStep, AppRestart, appVars

LEMMA ProofInvariant == VpnAppSpec => []ProofInv
<1> QED
  BY ProofInitially, ProofStep, AppInvariant, PTL DEF VpnAppSpec

(* The key a phone would sign with is the one the server knows, unless its *)
(* registration is under way or failed, or another one ran beside it.      *)
THEOREM SavedKeyIsKnown == VpnAppSpec => []SavedKeyKnown
<1>1. ProofInv => SavedKeyKnown
  BY DEF ProofInv
<1> QED
  BY <1>1, ProofInvariant, PTL

(* What makes an assertion accepted.                                       *)
LEMMA NewlyAccepted ==
  ASSUME AppInv, [VpnAppNext]_appVars, NEW a \in Attempt, ~Accepted(a), Accepted(a)'
  PROVE  AcceptAssertion(a)
<1>0. attempt \in [Attempt -> AttemptRow]
  BY DEF AppInv, AttestType
<1>1. ASSUME NEW b \in Attempt, NEW to, Goto(b, to),
             \/ to \in {"asking", "proving", "attesting", "checking", "refused"}
             \/ attempt[b].pc \in {"bound", "admitted"}
             \/ attempt[b].mode # "assert"
      PROVE  FALSE
  <2>1. /\ attempt'[b].pc = to /\ attempt'[b].mode = attempt[b].mode
        /\ \A x \in Attempt \ {b} : attempt'[x] = attempt[x]
    BY <1>0, <1>1 DEF Goto, AttemptRow
  <2> QED
    BY <1>1, <2>1 DEF Accepted
<1>2. attempt' # attempt
  BY DEF Accepted
<1>3. AttestStep
  <2>1. ~Begin
    BY <1>1 DEF Begin, Connect, BeginAttempt
  <2> QED
    BY <1>2, <2>1 DEF VpnAppNext, AdStep, Alone, StartCall, StartRefused, StopCall, TunnelStep,
                      AppRestart, appVars, attestVars
<1>4. ASSUME NEW b \in Attempt, PhoneNext(b) PROVE FALSE
  <2>1. ~(GenerateKey(b) \/ ProveFails(b) \/ AttestKeyFails(b) \/ KeyInvalid(b))
    BY <1>1 DEF GenerateKey, ProveFails, AttestKeyFails, KeyInvalid
  <2>2. ~(ProveToken(b) \/ AttestKey(b) \/ SignAssertion(b))
    BY <1>0 DEF ProveToken, AttestKey, SignAssertion, AttemptRow, Accepted
  <2> QED
    BY <1>4, <2>1, <2>2 DEF PhoneNext
<1>5. ASSUME NEW b \in Attempt, RequestNext(b) PROVE FALSE
  BY <1>1, <1>5 DEF RequestNext, CreateChallenge, ConsumeChallenge, ChallengeRefused,
                    GuardPasses, GuardDenies, At
<1>6. ~LapseNext
  BY <1>2 DEF LapseNext, LapseAttestation, LapseChallenge
<1>7. PICK b \in Attempt : ServerNext(b)
  BY <1>3, <1>4, <1>5, <1>6 DEF AttestStep
<1>8. AcceptAssertion(b)
  BY <1>1, <1>7 DEF ServerNext, MarkAttested, RegisterKey, VerifyRejected, ConnectGranted,
                    ConnectFails, At
<1>9. a = b
  BY <1>0, <1>8 DEF AcceptAssertion, Goto, Accepted
<1> QED
  BY <1>8, <1>9

(* Overlapping attempts have their assertions accepted in the order in     *)
(* which the phone signed them (verifyAssertion and the trigger on         *)
(* devices): what was signed before an accepted one is refused from then   *)
(* on, whatever is registered, lapses or restarts meanwhile.               *)
THEOREM AssertionsInOrder == VpnAppSpec => SignedInOrder
<1>1. AppInv /\ ProofInv /\ [VpnAppNext]_appVars
      => \A a, b \in Attempt :
           ~Accepted(a) /\ Accepted(a)' /\ Accepted(b) => attempt[b].sign < attempt[a].sign
  <2> SUFFICES ASSUME AppInv, ProofInv, [VpnAppNext]_appVars, NEW a \in Attempt, NEW b \in Attempt,
                      ~Accepted(a), Accepted(a)', Accepted(b)
               PROVE  attempt[b].sign < attempt[a].sign
    OBVIOUS
  <2>1. AcceptAssertion(a)
    BY NewlyAccepted
  <2>2. attempt[a].sign > device.count /\ attempt[b].sign <= device.count
    BY <2>1 DEF AcceptAssertion, NewerSign, ProofInv
  <2>3. device.count \in Nat /\ attempt[a].sign \in Nat /\ attempt[b].sign \in Nat
    BY DEF AppInv, AttestType, DeviceRow, AttemptRow
  <2> QED
    BY <2>2, <2>3
<1> QED
  BY <1>1, AppInvariant, ProofInvariant, PTL DEF VpnAppSpec, SignedInOrder

-----------------------------------------------------------------------------
(* The tunnel of iOS.                                                      *)

(* The flow has not called vpn.start yet, or is through with its stop.     *)
Early == flow.at \notin {"asking", "watching", "connected"} \cup Stopping

(* Only a stop brings the flow back there, and it stays in starting until  *)
(* the call returns.                                                       *)
LEMMA FlowHolds ==
  ASSUME FlowOK,
         FlowStep \/ Cancel \/ Disconnect \/ AdShown \/ AdMissed \/ UNCHANGED flow
  PROVE  /\ Early' => Early
         /\ flow.at = "starting" => flow'.at = "starting" /\ flow'.cur = flow.cur
<1>0. flow \in FlowRow
  BY DEF FlowOK
<1>1. ASSUME Fail PROVE ~Early'
  BY <1>0, <1>1 DEF Fail, Go, Early, Stopping, FlowRow
<1>2. CASE FlowStep \/ AdShown \/ AdMissed
  <2>1. flow.at # "starting"
    BY <1>2 DEF FlowStep, Granted, Verified, VerifyRetry, Prepared, StepFails, AskStatus,
                ToldConnected, ToldError, ConfirmTimeout, AdShown, AdMissed
  <2>2. Early' => Early
    BY <1>0, <1>1, <1>2 DEF FlowStep, Granted, Verified, VerifyRetry, Prepared, StepFails, AskStatus,
              ToldConnected, ToldError, ConfirmTimeout, AdShown, AdMissed, Early, Checked, Go,
              Stopping, FlowRow
  <2> QED
    BY <2>1, <2>2
<1>3. CASE Cancel
  BY <1>0, <1>3 DEF Cancel, Early, FlowRow
<1>4. CASE Disconnect
  BY <1>0, <1>4 DEF Disconnect, Early, Stopping, FlowRow
<1> QED
  BY <1>2, <1>3, <1>4 DEF Early

IosInv ==
  /\ platform = "android" => ext.pc = "off" /\ keychain = {}
  /\ CredentialWiped
  /\ ~restarted /\ Early => ext.pc \notin {"starting", "up"}

(* What leaves the extension and the keychain alone, and no start behind.  *)
LEMMA IosAside ==
  ASSUME IosInv, UNCHANGED <<iosVars, platform>>, restarted => restarted',
         Early' => Early \/ platform = "android",
         flow.at = "starting" => \/ flow'.at = "starting" /\ flow'.cur = flow.cur
                                 \/ platform = "android"
  PROVE  IosInv'
BY DEF IosInv, iosVars, CredentialWiped

LEMMA IosCall ==
  ASSUME AppInv, IosInv, Ios, UNCHANGED <<platform, restarted>>, flow.cur \in Attempt,
         \/ StartReturned /\ StartTunnel(flow.cur)
         \/ StartFailed /\ StartTunnelFails(flow.cur)
         \/ Stopped /\ StopTunnel
  PROVE  IosInv'
<1>0. /\ flow \in FlowRow /\ IosType /\ platform # "android" /\ None \notin Attempt
      /\ ext.pc # "off" => ext.of \in Attempt
  BY AttestAssumption DEF AppInv, FlowOK, IosOK, Ios, Key
<1>1. CASE StartReturned /\ StartTunnel(flow.cur)
  <2>1. flow.at = "starting" /\ ~Early'
    BY <1>0, <1>1 DEF StartReturned, Go, Early, FlowRow
  <2>2. CredentialWiped'
    <3>1. CASE ext = Off
      BY <1>0, <1>1, <2>1, <3>1 DEF StartTunnel, Off, IosInv, CredentialWiped, IosType
    <3>2. CASE ext # Off
      BY <1>1, <2>1, <3>2 DEF StartTunnel, IosInv, CredentialWiped
    <3> QED
      BY <3>1, <3>2
  <2> QED
    BY <1>0, <2>1, <2>2 DEF IosInv
<1>2. CASE StartFailed /\ StartTunnelFails(flow.cur)
  <2>1. flow.at = "starting" /\ ~Early'
    BY <1>0, <1>2 DEF StartFailed, Fail, Go, Early, Stopping, FlowRow
  <2>2. CredentialWiped'
    BY <1>2, <2>1 DEF StartTunnelFails, IosInv, CredentialWiped
  <2> QED
    BY <1>0, <2>1, <2>2 DEF IosInv
<1>3. CASE Stopped /\ StopTunnel
  <2>1. flow.at # "starting" /\ ext'.of = ext.of /\ UNCHANGED <<keychain, orphaned>>
    BY <1>0, <1>3 DEF Stopped, Stopping, StopTunnel, IosType
  <2>2. ext'.pc \notin {"starting", "up"}
    BY <1>0, <1>3 DEF StopTunnel, IosType
  <2> QED
    BY <1>0, <2>1, <2>2 DEF IosInv, CredentialWiped
<1> QED
  BY <1>1, <1>2, <1>3

LEMMA IosTunnelStep ==
  ASSUME AppInv, IosInv, IosNext, UNCHANGED <<flow, restarted, platform>>, platform # "android"
  PROVE  IosInv'
<1>0. /\ IosType /\ None \notin Attempt
      /\ flow.at = "starting" => flow.cur \in Attempt
      /\ ext.pc # "off" => ext.of \in Attempt
  BY AttestAssumption DEF AppInv, FlowOK, IosOK, Key
<1>1. Early' <=> Early
  BY DEF Early
<1>2. CASE PutConfig
  BY <1>2 DEF PutConfig, IosInv, CredentialWiped, Early
<1>3. CASE TunnelUp
  BY <1>0, <1>1, <1>3 DEF TunnelUp, IosInv, CredentialWiped, IosType
<1>4. CASE TunnelEnds \/ ExtensionDies
  BY <1>0, <1>1, <1>4 DEF TunnelEnds, ExtensionDies, Off, IosInv, CredentialWiped, IosType
<1> QED
  BY <1>2, <1>3, <1>4 DEF IosNext

LEMMA PlatformStays == [VpnAppNext]_appVars => UNCHANGED platform
<1> SUFFICES ASSUME [VpnAppNext]_appVars PROVE platform' = platform
  OBVIOUS
<1>1. CASE UNCHANGED attestVars
  BY <1>1 DEF attestVars
<1>2. CASE Begin
  BY <1>2 DEF Begin, Connect, BeginAttempt
<1>3. CASE AttestStep
  <2>1. ASSUME NEW a \in Attempt, PhoneNext(a) PROVE platform' = platform
    BY <2>1 DEF PhoneNext, ProveToken, GenerateKey, AttestKey, AttestKeyFails, SignAssertion,
                KeyInvalid, ProveFails
  <2>2. ASSUME NEW a \in Attempt, ServerNext(a) \/ RequestNext(a) PROVE platform' = platform
    BY <2>2 DEF ServerNext, MarkAttested, RegisterKey, AcceptAssertion, VerifyRejected,
                ConnectGranted, ConnectFails, RequestNext, CreateChallenge, ConsumeChallenge,
                ChallengeRefused, GuardPasses, GuardDenies
  <2> QED
    BY <1>3, <2>1, <2>2 DEF AttestStep, LapseNext, LapseAttestation, LapseChallenge
<1> QED
  BY <1>1, <1>2, <1>3
     DEF VpnAppNext, AdStep, Alone, StartCall, StartRefused, StopCall, TunnelStep, AppRestart, appVars

LEMMA IosStep == AppInv /\ IosInv /\ [VpnAppNext]_appVars => IosInv'
<1> SUFFICES ASSUME AppInv, IosInv, [VpnAppNext]_appVars PROVE IosInv'
  OBVIOUS
<1>0. platform' = platform /\ FlowOK
  BY PlatformStays DEF AppInv
<1>1. CASE AttestStep \/ AdStep \/ Alone \/ UNCHANGED appVars
  <2>1. UNCHANGED <<iosVars, restarted>>
    BY <1>1 DEF AttestStep, AdStep, Alone, appVars, flowVars
  <2>2. FlowStep \/ Cancel \/ Disconnect \/ AdShown \/ AdMissed \/ UNCHANGED flow
    BY <1>1 DEF AttestStep, AdStep, Alone, appVars, flowVars
  <2> QED
    BY <1>0, <2>1, <2>2, FlowHolds, IosAside
<1>2. CASE Begin
  <2>1. flow.at \in {"idle", "failed"} /\ UNCHANGED <<iosVars, restarted>>
    BY <1>2 DEF Begin, Connect
  <2> QED
    BY <1>0, <2>1, IosAside DEF Early, Stopping
<1>3. CASE StartCall \/ StartRefused \/ StopCall
  <2>1. flow.cur \in Attempt /\ restarted' = restarted
    BY <1>3 DEF StartCall, StartReturned, StartRefused, StartFailed, StopCall, Stopped,
                Stopping, AppInv, FlowOK
  <2>2. CASE Android
    BY <1>0, <2>1, <2>2, IosAside DEF Android
  <2>3. CASE ~Android
    BY <1>0, <1>3, <2>1, <2>3, IosCall DEF StartCall, StartRefused, StopCall
  <2> QED
    BY <2>2, <2>3
<1>4. CASE TunnelStep
  <2>1. UNCHANGED <<flow, restarted>>
    BY <1>4 DEF TunnelStep
  <2>2. CASE Android
    BY <1>0, <2>1, <2>2, IosAside DEF Android
  <2>3. CASE Ios /\ IosNext
    BY <1>0, <2>1, <2>3, IosTunnelStep DEF Ios
  <2> QED
    BY <1>4, <2>2, <2>3 DEF TunnelStep
<1>5. CASE AppRestart
  <2>1. /\ restarted' = TRUE /\ UNCHANGED <<ext, keychain>>
        /\ orphaned' = IF flow.at = "starting" THEN orphaned \cup (keychain \cap {flow.cur})
                       ELSE orphaned
    BY <1>5 DEF AppRestart, UiRestart
  <2> QED
    BY <1>0, <2>1 DEF IosInv, CredentialWiped
<1> QED
  BY <1>1, <1>2, <1>3, <1>4, <1>5 DEF VpnAppNext

LEMMA IosInvariant == VpnAppSpec => []IosInv
<1>1. VpnAppInit => IosInv
  BY DEF VpnAppInit, IosInit, Off, IosInv, CredentialWiped
<1> QED
  BY <1>1, IosStep, AppInvariant, PTL DEF VpnAppSpec

(* A stored config belongs to a start or an extension that will wipe it    *)
(* (SharedKeychain), or to one that died or was ignored.                   *)
THEOREM CredentialIsWiped == VpnAppSpec => []CredentialWiped
<1>1. IosInv => CredentialWiped
  BY DEF IosInv
<1> QED
  BY <1>1, IosInvariant, PTL

-----------------------------------------------------------------------------
(* The tunnel of Android, while the app that started it runs.              *)

IsStart(k) == intents[k].act = "start"
Sent(a) == \E k \in 1..Len(intents) : IsStart(k) /\ intents[k].of = a

(* A start meets no live instance: before it was sent a stop was, and      *)
(* intents are delivered in order.                                         *)
Halted ==
  \A k \in 1..Len(intents) :
    IsStart(k) => IF k = 1 THEN service = None ELSE intents[k - 1] = Stop

Clear ==
  Early => IF intents = <<>> THEN service = None ELSE intents[Len(intents)] = Stop

(* An attempt sends one start, after it began.                             *)
Unstarted(a) == launch[a].pc = "none" /\ ~Sent(a)

SentOnce ==
  /\ \A k, l \in 1..Len(intents) :
       IsStart(k) /\ IsStart(l) /\ intents[k].of = intents[l].of => k = l
  /\ \A a \in Attempt : Sent(a) => launch[a].pc = "none"
  /\ \A a \in Attempt : At(a, "unused") => Unstarted(a)
  /\ Early /\ flow.at \notin {"idle", "failed"} => Unstarted(flow.cur) /\ ~At(flow.cur, "unused")
  /\ flow.at # "idle" => ~At(flow.cur, "unused")

(* So every thread, box and alarm is of its own instance, and each core    *)
(* that runs is the box of an instance that is still to close it.          *)
OwnInstance ==
  /\ \A a \in Attempt : launch[a].pc # "none" => launch[a].home = a
  /\ \A i \in Attempt : inst[i].box \in {None, i} /\ inst[i].alarm \in {None, i}
  /\ \A a \in alarms : launch[a].pc = "done"
  /\ \A a \in cores : /\ launch[a].pc \in {"assigned", "done"} /\ inst[a].box = a
                      /\ launch[a].pc = "done" => a \in alarms

TunnelInv ==
  /\ platform = "ios" => intents = <<>> /\ service = None
  /\ ~restarted => Halted /\ Clear /\ SentOnce /\ OwnInstance

(* Stopping an instance closes its core and its alarm and no other.        *)
LEMMA StopSelfOwn ==
  ASSUME AndroidOK, OwnInstance, NEW i \in Attempt, StopSelf(i), None \notin Attempt,
         \A b \in Attempt \ {i} : launch'[b] = launch[b],
         launch'[i] = launch[i] \/ (launch'[i].pc = "done" /\ launch'[i].home = i)
  PROVE  OwnInstance' /\ service' \in {service, None}
<1>1. /\ inst' = [inst EXCEPT ![i] = NoFields]
      /\ cores' = cores \ {inst[i].box} /\ alarms' = alarms \ {inst[i].alarm}
      /\ service' \in {service, None}
  BY DEF StopSelf, Teardown
<1>2. /\ inst'[i].box = None /\ inst'[i].alarm = None
      /\ \A b \in Attempt \ {i} : inst'[b] = inst[b]
  BY <1>1 DEF AndroidOK, AndroidType, NoFields
<1>3. /\ i \notin cores' /\ cores' \subseteq cores /\ alarms' \subseteq alarms
      /\ \A b \in alarms \ alarms' : b = i
      /\ cores \subseteq Attempt /\ alarms \subseteq Attempt
  BY <1>1 DEF OwnInstance, AndroidOK, AndroidType
<1>0. \A b \in Attempt : \/ launch'[b] = launch[b]
                         \/ b = i /\ launch'[b].pc = "done" /\ launch'[b].home = b
  OBVIOUS
<1>4. \A a \in Attempt : launch'[a].pc # "none" => launch'[a].home = a
  BY <1>0 DEF OwnInstance
<1>5. \A a \in alarms' : launch'[a].pc = "done"
  BY <1>0, <1>3 DEF OwnInstance
<1>6. \A a \in cores' : /\ launch'[a].pc \in {"assigned", "done"} /\ inst'[a].box = a
                        /\ launch'[a].pc = "done" => a \in alarms'
  <2> TAKE a \in cores'
  <2>1. a \in cores /\ a \in Attempt /\ a # i
    BY <1>3
  <2>2. launch'[a] = launch[a] /\ inst'[a] = inst[a]
    BY <1>2, <2>1
  <2>3. launch[a].pc \in {"assigned", "done"} /\ inst[a].box = a
        /\ (launch[a].pc = "done" => a \in alarms)
    BY <2>1 DEF OwnInstance
  <2> QED
    BY <1>3, <2>1, <2>2, <2>3
<1> QED
  BY <1>1, <1>2, <1>4, <1>5, <1>6 DEF OwnInstance

(* What the platform does beside delivering intents.                       *)
LEMMA ThreadsOwn ==
  ASSUME AndroidOK, OwnInstance, None \notin Attempt,
         Revoke \/ \E a \in Attempt : AssignBox(a) \/ Announce(a) \/ StartThrows(a) \/ AlarmFires(a)
  PROVE  /\ OwnInstance' /\ service' \in {service, None} /\ intents' = intents
         /\ \A a \in Attempt : launch[a].pc = "none" => launch'[a] = launch[a]
<1> USE DEF AndroidOK, AndroidType
<1>1. CASE Revoke
  BY <1>1, StopSelfOwn DEF Revoke
<1>2. ASSUME NEW a \in Attempt, AssignBox(a)
      PROVE  /\ OwnInstance' /\ service' \in {service, None} /\ intents' = intents
             /\ \A b \in Attempt : launch[b].pc = "none" => launch'[b] = launch[b]
  <2>1. launch[a].home = a /\ a \notin cores /\ a \notin alarms
    BY <1>2 DEF AssignBox, OwnInstance
  <2>2. /\ launch'[a].pc = "assigned" /\ launch'[a].home = a
        /\ \A b \in Attempt \ {a} : launch'[b] = launch[b] /\ inst'[b] = inst[b]
        /\ inst'[a].box = a /\ inst'[a].alarm = inst[a].alarm
        /\ cores' = cores \cup {a} /\ alarms' = alarms
    BY <1>2, <2>1 DEF AssignBox
  <2>3. OwnInstance'
    BY <2>1, <2>2 DEF OwnInstance
  <2> QED
    BY <1>2, <2>3 DEF AssignBox
<1>3. ASSUME NEW a \in Attempt, Announce(a)
      PROVE  /\ OwnInstance' /\ service' \in {service, None} /\ intents' = intents
             /\ \A b \in Attempt : launch[b].pc = "none" => launch'[b] = launch[b]
  <2>1. launch[a].home = a /\ launch[a].pc = "assigned"
    BY <1>3 DEF Announce, OwnInstance
  <2>2. /\ launch'[a].pc = "done" /\ launch'[a].home = a
        /\ \A b \in Attempt \ {a} : launch'[b] = launch[b]
    BY <1>3, <2>1 DEF Announce
  <2>3. CASE PostAlarm(a)
    <3>1. /\ inst'[a].box = inst[a].box /\ inst'[a].alarm = a
          /\ \A b \in Attempt \ {a} : inst'[b] = inst[b]
          /\ cores' = cores /\ alarms' = alarms \cup {a} /\ service' = service
      BY <2>1, <2>3 DEF PostAlarm
    <3>2. OwnInstance'
      BY <2>1, <2>2, <3>1 DEF OwnInstance
    <3> QED
      BY <1>3, <2>1, <2>2, <3>1, <3>2 DEF Announce
  <2>4. CASE StopSelf(a)
    BY <1>3, <2>1, <2>2, <2>4, StopSelfOwn DEF Announce
  <2> QED
    BY <1>3, <2>1, <2>3, <2>4 DEF Announce
<1>4. ASSUME NEW a \in Attempt, StartThrows(a)
      PROVE  /\ OwnInstance' /\ service' \in {service, None} /\ intents' = intents
             /\ \A b \in Attempt : launch[b].pc = "none" => launch'[b] = launch[b]
  <2>1. launch[a].home = a /\ launch[a].pc = "starting"
    BY <1>4 DEF StartThrows, OwnInstance
  <2>2. /\ launch'[a].pc = "done" /\ launch'[a].home = a
        /\ \A b \in Attempt \ {a} : launch'[b] = launch[b]
    BY <1>4, <2>1 DEF StartThrows
  <2> QED
    BY <1>4, <2>1, <2>2, StopSelfOwn DEF StartThrows
<1>5. ASSUME NEW a \in Attempt, AlarmFires(a)
      PROVE  /\ OwnInstance' /\ service' \in {service, None} /\ intents' = intents
             /\ \A b \in Attempt : launch[b].pc = "none" => launch'[b] = launch[b]
  <2>1. launch[a].home = a /\ inst[a].alarm \in {None, a}
    BY <1>5 DEF AlarmFires, OwnInstance
  <2>2. /\ inst' = [inst EXCEPT ![a] = NoFields] /\ cores' = cores \ {inst[a].box}
        /\ alarms' = alarms \ {a} /\ service' \in {service, None}
        /\ launch' = launch /\ intents' = intents
    BY <1>5, <2>1 DEF AlarmFires
  <2>3. /\ inst'[a].box = None /\ inst'[a].alarm = None /\ a \notin cores'
        /\ \A b \in Attempt \ {a} : inst'[b] = inst[b]
    BY <2>2 DEF NoFields, OwnInstance
  <2>4. OwnInstance'
    BY <2>2, <2>3 DEF OwnInstance
  <2> QED
    BY <2>2, <2>4
<1> QED
  BY <1>1, <1>2, <1>3, <1>4, <1>5

(* An attempt that began is never unused again.                            *)
LEMMA UsedForGood ==
  ASSUME AppInv, [VpnAppNext]_appVars
  PROVE  \A a \in Attempt : At(a, "unused")' => At(a, "unused")
<1> SUFFICES ASSUME NEW a \in Attempt, attempt'[a].pc = "unused" PROVE attempt[a].pc = "unused"
  BY DEF At
<1>0. attempt \in [Attempt -> AttemptRow]
  BY DEF AppInv, AttestType
<1>1. ASSUME NEW b \in Attempt, NEW to, Goto(b, to), to # "unused" PROVE attempt[a].pc = "unused"
  BY <1>0, <1>1 DEF Goto, AttemptRow
<1>2. CASE Begin
  BY <1>1, <1>2 DEF Begin, Connect, BeginAttempt
<1>3. CASE AttestStep
  <2>1. ASSUME NEW b \in Attempt, PhoneNext(b) PROVE attempt[a].pc = "unused"
    <3>1. CASE GenerateKey(b) \/ ProveFails(b) \/ AttestKeyFails(b) \/ KeyInvalid(b)
      BY <1>1, <3>1 DEF GenerateKey, ProveFails, AttestKeyFails, KeyInvalid
    <3>2. CASE ProveToken(b) \/ AttestKey(b) \/ SignAssertion(b)
      BY <1>0, <3>2 DEF ProveToken, AttestKey, SignAssertion, AttemptRow
    <3> QED
      BY <2>1, <3>1, <3>2 DEF PhoneNext
  <2>2. ASSUME NEW b \in Attempt, ServerNext(b) PROVE attempt[a].pc = "unused"
    BY <1>1, <2>2 DEF ServerNext, MarkAttested, RegisterKey, AcceptAssertion, VerifyRejected,
                      ConnectGranted, ConnectFails
  <2>3. ASSUME NEW b \in Attempt, RequestNext(b) PROVE attempt[a].pc = "unused"
    BY <1>1, <2>3 DEF RequestNext, CreateChallenge, ConsumeChallenge, ChallengeRefused,
                      GuardPasses, GuardDenies
  <2>4. ASSUME LapseNext PROVE attempt' = attempt
    BY <2>4 DEF LapseNext, LapseAttestation, LapseChallenge
  <2> QED
    BY <1>3, <2>1, <2>2, <2>3, <2>4 DEF AttestStep
<1>4. CASE UNCHANGED attestVars
  BY <1>4 DEF attestVars
<1> QED
  BY <1>2, <1>3, <1>4
     DEF VpnAppNext, AdStep, Alone, StartCall, StartRefused, StopCall, TunnelStep, AppRestart, appVars

(* Steps that do not touch the service.                                    *)
LEMMA TunnelAside ==
  ASSUME TunnelInv, UNCHANGED <<androidVars, platform>>, restarted => restarted',
         \A a \in Attempt : At(a, "unused")' => At(a, "unused"),
         flow.at # "idle" => flow.cur \in Attempt,
         Early' => Early \/ platform = "ios",
         \/ flow' = flow
         \/ /\ flow.at # "idle" /\ flow'.cur = flow.cur
            /\ Early' /\ flow'.at \notin {"idle", "failed"}
               => Early /\ flow.at \notin {"idle", "failed"}
  PROVE  TunnelInv'
<1> SUFFICES ASSUME ~restarted', ~restarted PROVE Halted' /\ Clear' /\ SentOnce' /\ OwnInstance'
  BY DEF TunnelInv, androidVars
<1>1. /\ intents' = intents /\ service' = service /\ inst' = inst /\ launch' = launch
      /\ cores' = cores /\ alarms' = alarms
  BY DEF androidVars
<1>2. Halted' /\ OwnInstance'
  BY <1>1 DEF TunnelInv, Halted, OwnInstance, IsStart
<1>3. Clear'
  BY <1>1 DEF TunnelInv, Clear
<1>4. \A a : Sent(a)' <=> Sent(a)
  BY <1>1 DEF Sent, IsStart
<1>5. \A a : Unstarted(a)' <=> Unstarted(a)
  BY <1>1, <1>4 DEF Unstarted
<1>6. /\ Early' /\ flow'.at \notin {"idle", "failed"}
         => Early /\ flow.at \notin {"idle", "failed"} /\ flow'.cur = flow.cur
      /\ flow'.at # "idle" => flow.at # "idle" /\ flow'.cur = flow.cur
  BY DEF Early
<1>7. SentOnce
  BY DEF TunnelInv
<1>8. \A k, l \in 1..Len(intents') :
        IsStart(k)' /\ IsStart(l)' /\ intents'[k].of = intents'[l].of => k = l
  BY <1>1, <1>7 DEF SentOnce, IsStart
<1>9. \A a \in Attempt : Sent(a)' => launch'[a].pc = "none"
  BY <1>1, <1>4, <1>7 DEF SentOnce
<1>10. \A a \in Attempt : At(a, "unused")' => Unstarted(a)'
  BY <1>5, <1>7 DEF SentOnce
<1>11. flow'.at # "idle" => ~At(flow.cur, "unused")'
  <2> SUFFICES ASSUME flow'.at # "idle" PROVE ~At(flow.cur, "unused")'
    OBVIOUS
  <2>1. ~At(flow.cur, "unused") /\ flow.cur \in Attempt /\ flow'.cur = flow.cur
    BY <1>6, <1>7 DEF SentOnce
  <2>2. ~(attempt'[flow.cur].pc = "unused")
    BY <2>1 DEF At
  <2> QED
    BY <2>1, <2>2 DEF At
<1>12. Early' /\ flow'.at \notin {"idle", "failed"} => Unstarted(flow.cur)' /\ ~At(flow.cur, "unused")'
  <2> SUFFICES ASSUME Early', flow'.at \notin {"idle", "failed"}
               PROVE  Unstarted(flow.cur)' /\ ~At(flow.cur, "unused")'
    OBVIOUS
  <2>1. Unstarted(flow.cur) /\ flow'.cur = flow.cur
    BY <1>6, <1>7 DEF SentOnce
  <2>2. Unstarted(flow.cur)'
    BY <1>1, <2>1 DEF Unstarted, Sent, IsStart
  <2> QED
    BY <1>11, <2>2
<1> QED
  BY <1>2, <1>3, <1>8, <1>9, <1>10, <1>11, <1>12 DEF SentOnce

LEMMA BeginTunnel ==
  ASSUME AppInv, TunnelInv, Begin, UNCHANGED platform
  PROVE  TunnelInv'
<1> SUFFICES ASSUME ~restarted', ~restarted PROVE Halted' /\ Clear' /\ SentOnce' /\ OwnInstance'
  BY DEF TunnelInv, Begin, androidVars
<1>1. PICK a \in Attempt : Connect(a)
  BY DEF Begin
<1>2. /\ attempt[a].pc = "unused" /\ attempt' = [attempt EXCEPT ![a].pc = "asking"]
      /\ flow'.at = "requestingGrant" /\ flow'.cur = a /\ flow.at \in {"idle", "failed"}
  BY <1>1 DEF Connect, BeginAttempt, At, Goto, Idle
<1>3. /\ attempt'[a].pc = "asking"
      /\ \A b \in Attempt \ {a} : attempt'[b] = attempt[b]
  BY <1>2 DEF AppInv, AttestType, AttemptRow
<1>4. /\ intents' = intents /\ service' = service /\ inst' = inst /\ launch' = launch
      /\ cores' = cores /\ alarms' = alarms
  BY DEF Begin, androidVars
<1>5. Halted' /\ OwnInstance'
  BY <1>4 DEF TunnelInv, Halted, OwnInstance, IsStart
<1>6. Early
  BY <1>2 DEF Early, Stopping
<1>7. Clear'
  BY <1>4, <1>6 DEF TunnelInv, Clear
<1>8. \A b : Unstarted(b)' <=> Unstarted(b)
  BY <1>4 DEF Unstarted, Sent, IsStart
<1>9. SentOnce /\ Unstarted(a)
  BY <1>2 DEF TunnelInv, SentOnce, At
<1>10. \A k, l \in 1..Len(intents') :
         IsStart(k)' /\ IsStart(l)' /\ intents'[k].of = intents'[l].of => k = l
  BY <1>4, <1>9 DEF SentOnce, IsStart
<1>11. \A b \in Attempt : Sent(b)' => launch'[b].pc = "none"
  BY <1>4, <1>9 DEF SentOnce, Sent, IsStart
<1>12. \A b \in Attempt : At(b, "unused")' => Unstarted(b)'
  BY <1>3, <1>8, <1>9 DEF SentOnce, At
<1>13. Unstarted(flow.cur)' /\ ~At(flow.cur, "unused")'
  <2>1. Unstarted(flow.cur)'
    BY <1>2, <1>4, <1>9 DEF Unstarted, Sent, IsStart
  <2>2. ~(attempt'[flow'.cur].pc = "unused")
    BY <1>2, <1>3
  <2> QED
    BY <2>1, <2>2 DEF At
<1> QED
  BY <1>5, <1>7, <1>10, <1>11, <1>12, <1>13 DEF SentOnce

(* The flow calls the service: one more intent, the last one.              *)
LEMMA SendTunnel ==
  ASSUME AppInv, TunnelInv, platform = "android", UNCHANGED <<attestVars, restarted>>,
         \/ StartReturned /\ SendStart(flow.cur)
         \/ Stopped /\ SendStop
  PROVE  TunnelInv'
<1> SUFFICES ASSUME ~restarted PROVE Halted' /\ Clear' /\ SentOnce' /\ OwnInstance'
  BY DEF TunnelInv, attestVars
<1> DEFINE n == Len(intents)
<1>0. intents \in Seq(Orders) /\ flow \in FlowRow /\ attempt' = attempt
  BY DEF AppInv, AndroidOK, FlowOK, attestVars
<1>1. /\ service' = service /\ inst' = inst /\ launch' = launch /\ cores' = cores /\ alarms' = alarms
      /\ n \in Nat /\ Len(intents') = n + 1
      /\ \A k \in 1..n : intents'[k] = intents[k]
      /\ \/ /\ flow.at = "starting" /\ flow'.at = "asking" /\ flow'.cur = flow.cur
            /\ intents'[n + 1] = [act |-> "start", of |-> flow.cur]
         \/ /\ flow.at \in Stopping /\ flow'.at \in {"idle", "failed"} /\ flow'.cur = flow.cur
            /\ intents'[n + 1] = Stop
  BY <1>0 DEF StartReturned, Stopped, Go, SendStart, SendStop, FlowRow
<1>2. Halted /\ Clear /\ SentOnce /\ OwnInstance
  BY DEF TunnelInv
<1>3. OwnInstance'
  BY <1>1, <1>2 DEF OwnInstance
<1>4. intents' # <<>> /\ intents'[Len(intents')] = intents'[n + 1]
  BY <1>1
<1>5. Clear'
  BY <1>1, <1>4 DEF Clear, Early
<1>6. flow.at = "starting" => Unstarted(flow.cur) /\ flow.cur \in Attempt /\ ~At(flow.cur, "unused")
                              /\ IF n = 0 THEN service = None ELSE intents[n] = Stop
  BY <1>2, <1>1, <1>0 DEF SentOnce, Early, Stopping, Clear, AppInv, FlowOK
<1>7. Stop.act # "start"
  BY DEF Stop
<1>8. Halted'
  <2> SUFFICES ASSUME NEW k \in 1..(n + 1), intents'[k].act = "start"
               PROVE  IF k = 1 THEN service = None ELSE intents'[k - 1] = Stop
    BY <1>1 DEF Halted, IsStart
  <2>1. CASE k \in 1..n
    BY <1>1, <1>2, <2>1 DEF Halted, IsStart
  <2>2. CASE k = n + 1
    BY <1>1, <1>6, <1>7, <2>2
  <2> QED
    BY <1>1, <2>1, <2>2
<1>9. \A k \in 1..(n + 1) :
        intents'[k].act = "start" =>
          \/ k \in 1..n /\ intents'[k] = intents[k]
          \/ k = n + 1 /\ intents'[k].of = flow.cur /\ flow.at = "starting"
  BY <1>1, <1>7
<1>10. \A a : Sent(a)' => Sent(a) \/ (a = flow.cur /\ flow.at = "starting")
  BY <1>1, <1>9 DEF Sent, IsStart
<1>11. \A k, l \in 1..Len(intents') :
         IsStart(k)' /\ IsStart(l)' /\ intents'[k].of = intents'[l].of => k = l
  <2> SUFFICES ASSUME NEW k \in 1..(n + 1), NEW l \in 1..(n + 1), intents'[k].act = "start",
                      intents'[l].act = "start", intents'[k].of = intents'[l].of
               PROVE  k = l
    BY <1>1 DEF IsStart
  <2> QED
    BY <1>1, <1>2, <1>6, <1>9 DEF SentOnce, Unstarted, Sent, IsStart
<1>12. \A a \in Attempt : Sent(a)' => launch'[a].pc = "none"
  BY <1>1, <1>2, <1>6, <1>10 DEF SentOnce, Unstarted
<1>13. \A a \in Attempt : At(a, "unused")' => Unstarted(a)'
  BY <1>0, <1>1, <1>2, <1>6, <1>10 DEF SentOnce, Unstarted, At
<1>14. flow'.at # "idle" => ~At(flow.cur, "unused")'
  BY <1>0, <1>1, <1>2 DEF SentOnce, At, Stopping
<1>15. ~(Early' /\ flow'.at \notin {"idle", "failed"})
  BY <1>1 DEF Early
<1> QED
  BY <1>3, <1>5, <1>8, <1>11, <1>12, <1>13, <1>14, <1>15 DEF SentOnce

(* The service takes the first intent.                                     *)
LEMMA DeliverTunnel ==
  ASSUME AppInv, TunnelInv, DeliverStart \/ DeliverStop,
         platform = "android", UNCHANGED <<attestVars, flow, restarted>>
  PROVE  TunnelInv'
<1> SUFFICES ASSUME ~restarted PROVE Halted' /\ Clear' /\ SentOnce' /\ OwnInstance'
  BY DEF TunnelInv, attestVars
<1> DEFINE n == Len(intents)
<1>0. /\ intents \in Seq(Orders) /\ attempt' = attempt /\ AndroidOK /\ None \notin Attempt
      /\ Halted /\ Clear /\ SentOnce /\ OwnInstance
  BY AttestAssumption DEF AppInv, AndroidOK, attestVars, TunnelInv, Key
<1>1. /\ n \in Nat \ {0} /\ intents' = Tail(intents) /\ Len(intents') = n - 1
      /\ \A k \in 1..(n - 1) : intents'[k] = intents[k + 1]
  BY <1>0 DEF DeliverStart, DeliverStop
<1>2. \A a : Sent(a)' => Sent(a)
  BY <1>1 DEF Sent, IsStart
<1>3. \A k, l \in 1..Len(intents') :
        IsStart(k)' /\ IsStart(l)' /\ intents'[k].of = intents'[l].of => k = l
  <2> SUFFICES ASSUME NEW k \in 1..(n - 1), NEW l \in 1..(n - 1), intents'[k].act = "start",
                      intents'[l].act = "start", intents'[k].of = intents'[l].of
               PROVE  k = l
    BY <1>1 DEF IsStart
  <2>1. k + 1 \in 1..n /\ l + 1 \in 1..n
    BY <1>1
  <2> QED
    BY <1>0, <1>1, <2>1 DEF SentOnce, IsStart
<1>4. intents' # <<>> => intents'[Len(intents')] = intents[n]
  BY <1>1
<1>5. flow' = flow
  OBVIOUS
<1>6. CASE DeliverStart
  <2>1. intents[1].act = "start" /\ 1 \in 1..n
    BY <1>1, <1>6 DEF DeliverStart
  <2>2. PICK a \in Attempt : a = intents[1].of /\ a = Head(intents).of /\ Sent(a)
    <3>1. intents[1] \in Orders /\ Head(intents) = intents[1]
      BY <1>0, <1>1, <2>1
    <3> QED
      BY <2>1, <3>1 DEF Orders, Stop, Sent, IsStart
  <2>3. service = None /\ launch[a].pc = "none"
    BY <1>0, <2>1, <2>2 DEF Halted, SentOnce, IsStart
  <2>4. /\ service' = a /\ launch' = [launch EXCEPT ![a] = [pc |-> "starting", home |-> a]]
        /\ inst' = inst /\ cores' = cores /\ alarms' = alarms
    BY <1>6, <2>2, <2>3 DEF DeliverStart
  <2>5. /\ launch'[a].pc = "starting" /\ launch'[a].home = a
        /\ \A b \in Attempt \ {a} : launch'[b] = launch[b]
    BY <1>0, <2>2, <2>4 DEF AndroidOK, AndroidType
  <2>6. OwnInstance'
    <3>1. a \notin cores /\ a \notin alarms
      BY <1>0, <2>3 DEF OwnInstance
    <3>2. cores \subseteq Attempt /\ alarms \subseteq Attempt
      BY <1>0 DEF AndroidOK, AndroidType
    <3> QED
      BY <1>0, <2>4, <2>5, <3>1, <3>2 DEF OwnInstance
  <2>7. ~Sent(a)'
    <3> SUFFICES ASSUME NEW k \in 1..(n - 1), intents'[k].act = "start", intents'[k].of = a
                 PROVE  FALSE
      BY <1>1 DEF Sent, IsStart
    <3>1. k + 1 \in 1..n /\ k + 1 # 1
      BY <1>1
    <3> QED
      BY <1>0, <1>1, <2>1, <2>2, <3>1 DEF SentOnce, IsStart
  <2>8. Halted'
    <3> SUFFICES ASSUME NEW k \in 1..(n - 1), intents'[k].act = "start"
                 PROVE  k # 1 /\ intents'[k - 1] = Stop
      BY <1>1 DEF Halted, IsStart
    <3>1. k + 1 \in 1..n /\ k + 1 # 1 /\ (k + 1) - 1 = k
      BY <1>1
    <3>2. intents[k] = Stop
      BY <1>0, <1>1, <3>1 DEF Halted, IsStart
    <3>3. k # 1
      BY <2>1, <3>2 DEF Stop
    <3> QED
      BY <1>1, <3>2, <3>3
  <2>9. Clear'
    <3>1. CASE intents' = <<>>
      <4>0. Len(intents') = 0
        BY <3>1
      <4>1. n = 1
        <5>1. n \in Nat /\ Len(intents') = n - 1
          BY <1>1
        <5> HIDE DEF n
        <5> QED
          BY <5>1, <4>0
      <4>2. intents # <<>> /\ intents[Len(intents)] # Stop
        <5>1. intents # <<>>
          BY <1>6 DEF DeliverStart
        <5>2. intents[1] # Stop
          BY <2>1 DEF Stop
        <5> QED
          BY <4>1, <5>1, <5>2
      <4>3. ~Early
        BY <1>0, <4>2 DEF Clear
      <4> QED
        BY <1>5, <4>3 DEF Clear, Early
    <3>2. CASE intents' # <<>>
      BY <1>0, <1>1, <1>4, <1>5, <3>2 DEF Clear, Early
    <3> QED
      BY <3>1, <3>2
  <2>10. \A b \in Attempt : Sent(b)' => launch'[b].pc = "none"
    BY <1>0, <1>2, <2>5, <2>7 DEF SentOnce
  <2>11. \A b \in Attempt : Unstarted(b) => Unstarted(b)'
    BY <1>2, <2>2, <2>5 DEF Unstarted
  <2>12. \A b \in Attempt : At(b, "unused")' => Unstarted(b)'
    BY <1>0, <2>11 DEF SentOnce, At
  <2>13. Early' /\ flow'.at \notin {"idle", "failed"}
         => Unstarted(flow.cur)' /\ ~At(flow.cur, "unused")'
    <3> SUFFICES ASSUME Early', flow'.at \notin {"idle", "failed"}
                 PROVE  Unstarted(flow.cur)' /\ ~At(flow.cur, "unused")'
      OBVIOUS
    <3>1. flow.cur \in Attempt /\ Unstarted(flow.cur) /\ ~At(flow.cur, "unused")
      BY <1>0, <1>5 DEF SentOnce, Early, AppInv, FlowOK
    <3>2. launch'[flow.cur].pc = "none" /\ ~Sent(flow.cur)'
      BY <1>1, <1>5, <2>11, <3>1 DEF Unstarted, Sent, IsStart
    <3> QED
      BY <1>0, <1>5, <3>1, <3>2 DEF Unstarted, At
  <2>14. flow'.at # "idle" => ~At(flow.cur, "unused")'
    BY <1>0, <1>5 DEF SentOnce, At
  <2> QED
    BY <1>3, <2>6, <2>8, <2>9, <2>10, <2>12, <2>13, <2>14 DEF SentOnce
<1>7. CASE DeliverStop
  <2>1. launch' = launch /\ intents[1].act = "stop" /\ intents[1] = Stop
    BY <1>0, <1>1, <1>7 DEF DeliverStop, Orders
  <2>2. OwnInstance' /\ service' = None
    <3>1. CASE service = None
      BY <1>0, <1>7, <3>1 DEF DeliverStop, OwnInstance
    <3>2. CASE service # None
      <4>1. service \in Attempt /\ StopSelf(service)
        BY <1>0, <1>7, <3>2 DEF DeliverStop, AndroidOK, AndroidType
      <4> QED
        BY <1>0, <2>1, <4>1, StopSelfOwn DEF StopSelf
    <3> QED
      BY <3>1, <3>2
  <2>3. Halted'
    <3> SUFFICES ASSUME NEW k \in 1..(n - 1), intents'[k].act = "start", k # 1
                 PROVE  intents'[k - 1] = Stop
      BY <1>1, <2>2 DEF Halted, IsStart
    <3>1. k + 1 \in 1..n /\ k + 1 # 1 /\ (k + 1) - 1 = k /\ k - 1 \in 1..(n - 1)
      BY <1>1
    <3>2. intents[k] = Stop
      BY <1>0, <1>1, <3>1 DEF Halted, IsStart
    <3> QED
      BY <1>1, <3>1, <3>2
  <2>4. Clear'
    BY <1>0, <1>1, <1>4, <1>5, <2>2 DEF Clear, Early
  <2>5. \A b \in Attempt : Sent(b)' => launch'[b].pc = "none"
    BY <1>0, <1>2, <2>1 DEF SentOnce
  <2>6. \A b \in Attempt : At(b, "unused")' => Unstarted(b)'
    BY <1>0, <1>2, <2>1 DEF SentOnce, At, Unstarted
  <2>7. Early' /\ flow'.at \notin {"idle", "failed"}
        => Unstarted(flow.cur)' /\ ~At(flow.cur, "unused")'
    <3> SUFFICES ASSUME Early', flow'.at \notin {"idle", "failed"}
                 PROVE  Unstarted(flow.cur)' /\ ~At(flow.cur, "unused")'
      OBVIOUS
    <3>1. Unstarted(flow.cur) /\ ~At(flow.cur, "unused")
      BY <1>0, <1>5 DEF SentOnce, Early
    <3>2. launch'[flow.cur].pc = "none" /\ ~Sent(flow.cur)'
      BY <1>1, <1>5, <2>1, <3>1 DEF Unstarted, Sent, IsStart
    <3> QED
      BY <1>0, <1>5, <3>1, <3>2 DEF Unstarted, At
  <2>8. flow'.at # "idle" => ~At(flow.cur, "unused")'
    BY <1>0, <1>5 DEF SentOnce, At
  <2> QED
    BY <1>3, <2>2, <2>3, <2>4, <2>5, <2>6, <2>7, <2>8 DEF SentOnce
<1> QED
  BY <1>6, <1>7

(* The threads, the alarms and a revocation may end the service, no more.  *)
LEMMA ThreadsTunnel ==
  ASSUME AppInv, TunnelInv, platform = "android",
         UNCHANGED <<attestVars, flow, restarted>>,
         Revoke \/ \E a \in Attempt : AssignBox(a) \/ Announce(a) \/ StartThrows(a) \/ AlarmFires(a)
  PROVE  TunnelInv'
<1> SUFFICES ASSUME ~restarted PROVE Halted' /\ Clear' /\ SentOnce' /\ OwnInstance'
  BY DEF TunnelInv, attestVars
<1>0. /\ attempt' = attempt /\ flow' = flow /\ AndroidOK /\ None \notin Attempt
      /\ Halted /\ Clear /\ SentOnce /\ OwnInstance
  BY AttestAssumption DEF AppInv, attestVars, TunnelInv, Key
<1>1. /\ OwnInstance' /\ service' \in {service, None} /\ intents' = intents
      /\ \A a \in Attempt : launch[a].pc = "none" => launch'[a] = launch[a]
  BY <1>0, ThreadsOwn
<1>2. \A a : Sent(a)' <=> Sent(a)
  BY <1>1 DEF Sent, IsStart
<1>3. \A a \in Attempt : Unstarted(a) => Unstarted(a)'
  BY <1>1, <1>2 DEF Unstarted
<1>4. Halted' /\ Clear'
  BY <1>0, <1>1 DEF Halted, Clear, IsStart, Early
<1>5. \A k, l \in 1..Len(intents') :
        IsStart(k)' /\ IsStart(l)' /\ intents'[k].of = intents'[l].of => k = l
  BY <1>0, <1>1 DEF SentOnce, IsStart
<1>6. \A a \in Attempt : Sent(a)' => launch'[a].pc = "none"
  BY <1>0, <1>1, <1>2 DEF SentOnce
<1>7. \A a \in Attempt : At(a, "unused")' => Unstarted(a)'
  BY <1>0, <1>3 DEF SentOnce, At
<1>8. flow'.at # "idle" => ~At(flow.cur, "unused")'
  BY <1>0 DEF SentOnce, At
<1>9. Early' /\ flow'.at \notin {"idle", "failed"}
        => Unstarted(flow.cur)' /\ ~At(flow.cur, "unused")'
  <2> SUFFICES ASSUME Early', flow'.at \notin {"idle", "failed"}
               PROVE  Unstarted(flow.cur)' /\ ~At(flow.cur, "unused")'
    OBVIOUS
  <2>1. flow.cur \in Attempt /\ Unstarted(flow.cur) /\ ~At(flow.cur, "unused")
    BY <1>0 DEF SentOnce, Early, AppInv, FlowOK
  <2>2. launch'[flow.cur].pc = "none" /\ ~Sent(flow.cur)'
    BY <1>0, <1>1, <2>1 DEF Unstarted, Sent, IsStart
  <2> QED
    BY <1>0, <2>1, <2>2 DEF Unstarted, At
<1> QED
  BY <1>1, <1>4, <1>5, <1>6, <1>7, <1>8, <1>9 DEF SentOnce

(* A flow under way stays with its attempt, and is through with the start  *)
(* once it was not before it.                                              *)
LEMMA FlowKeepsAttempt ==
  ASSUME FlowOK, FlowStep \/ Cancel \/ Disconnect \/ AdShown \/ AdMissed
  PROVE  /\ flow.at # "idle" /\ flow'.cur = flow.cur
         /\ Early' /\ flow'.at \notin {"idle", "failed"} => Early /\ flow.at \notin {"idle", "failed"}
<1>0. flow \in FlowRow
  BY DEF FlowOK
<1>1. ASSUME Fail PROVE flow'.cur = flow.cur
  BY <1>0, <1>1 DEF Fail, Go, FlowRow
<1>2. CASE FlowStep \/ AdShown \/ AdMissed
  <2>1. flow.at \notin {"idle", "failed"}
    BY <1>2 DEF FlowStep, Granted, Verified, VerifyRetry, Prepared, StepFails, AskStatus,
                ToldConnected, ToldError, ConfirmTimeout, AdShown, AdMissed
  <2>2. flow'.cur = flow.cur
    BY <1>0, <1>1, <1>2 DEF FlowStep, Granted, Verified, VerifyRetry, Prepared, StepFails,
       AskStatus, ToldConnected, ToldError, ConfirmTimeout, AdShown, AdMissed, Checked, Go, FlowRow
  <2> QED
    BY <1>2, <2>1, <2>2, FlowHolds
<1>3. CASE Cancel \/ Disconnect
  BY <1>0, <1>3, FlowHolds DEF Cancel, Disconnect, Calm, FlowRow, Early, Stopping
<1> QED
  BY <1>2, <1>3

LEMMA TunnelKeeps == AppInv /\ TunnelInv /\ [VpnAppNext]_appVars => TunnelInv'
<1> SUFFICES ASSUME AppInv, TunnelInv, [VpnAppNext]_appVars PROVE TunnelInv'
  OBVIOUS
<1>0. /\ platform' = platform /\ FlowOK
      /\ flow.at # "idle" => flow.cur \in Attempt
      /\ \A a \in Attempt : At(a, "unused")' => At(a, "unused")
  BY PlatformStays, UsedForGood DEF AppInv, FlowOK
<1>1. CASE AttestStep \/ AdStep \/ Alone \/ UNCHANGED appVars
  <2>1. UNCHANGED <<androidVars, restarted>>
    BY <1>1 DEF AttestStep, AdStep, Alone, appVars, flowVars
  <2>2. FlowStep \/ Cancel \/ Disconnect \/ AdShown \/ AdMissed \/ UNCHANGED flow
    BY <1>1 DEF AttestStep, AdStep, Alone, appVars, flowVars
  <2>3. Early' => Early
    BY <1>0, <2>2, FlowHolds
  <2>4. \/ flow' = flow
        \/ /\ flow.at # "idle" /\ flow'.cur = flow.cur
           /\ Early' /\ flow'.at \notin {"idle", "failed"} => Early /\ flow.at \notin {"idle", "failed"}
    BY <1>0, <2>2, FlowKeepsAttempt
  <2> QED
    BY <1>0, <2>1, <2>3, <2>4, TunnelAside
<1>2. CASE Begin
  BY <1>0, <1>2, BeginTunnel
<1>3. CASE StartCall \/ StartRefused \/ StopCall
  <2>0. flow \in FlowRow
    BY <1>0 DEF FlowOK
  <2>1. /\ restarted' = restarted /\ flow.at # "idle" /\ flow'.cur = flow.cur
        /\ ~(Early' /\ flow'.at \notin {"idle", "failed"})
        /\ Early' => StopCall
    BY <1>3, <2>0 DEF StartCall, StartReturned, StartRefused, StartFailed, StopCall, Stopped,
       Fail, Go, FlowRow, Early, Stopping
  <2>2. CASE UNCHANGED androidVars /\ (platform = "ios" \/ ~StopCall)
    BY <1>0, <2>1, <2>2, TunnelAside
  <2>3. CASE Android /\ (StartCall \/ StopCall)
    <3>1. \/ StartReturned /\ SendStart(flow.cur)
          \/ Stopped /\ SendStop
      BY <2>3 DEF StartCall, StopCall, Android, Ios
    <3>2. platform = "android" /\ UNCHANGED <<attestVars, restarted>>
      BY <2>3 DEF StartCall, StopCall, Android
    <3> QED
      BY <3>1, <3>2, SendTunnel
  <2>4. ~StopCall \/ Android \/ Ios
    BY DEF StopCall
  <2>5. CASE Ios
    BY <2>2, <2>5 DEF Ios
  <2>6. CASE StartRefused
    <3>1. UNCHANGED androidVars
      BY <2>6 DEF StartRefused, Ios
    <3>2. flow'.at \notin {"idle", "failed"}
      BY <2>0, <2>6 DEF StartRefused, StartFailed, Fail, Go, FlowRow
    <3>3. ~Early'
      BY <2>1, <3>2
    <3> QED
      BY <1>0, <2>1, <3>1, <3>3, TunnelAside
  <2> QED
    BY <1>3, <2>3, <2>5, <2>6 DEF StartCall, StopCall, Android, Ios
<1>4. CASE TunnelStep
  <2>1. UNCHANGED <<attestVars, flow, restarted>>
    BY <1>4 DEF TunnelStep
  <2>2. CASE Android /\ AndroidNext
    <3>1. platform = "android"
      BY <2>2 DEF Android
    <3>2. CASE DeliverStart \/ DeliverStop
      BY <2>1, <3>1, <3>2, DeliverTunnel
    <3>3. CASE Revoke \/ \E a \in Attempt : AssignBox(a) \/ Announce(a) \/ StartThrows(a) \/ AlarmFires(a)
      BY <2>1, <3>1, <3>3, ThreadsTunnel
    <3> QED
      BY <2>2, <3>2, <3>3 DEF AndroidNext
  <2>3. CASE Ios
    <3>1. Early' => Early
      BY <2>1 DEF Early
    <3> QED
      BY <1>0, <2>1, <2>3, <3>1, TunnelAside DEF Ios
  <2> QED
    BY <1>4, <2>2, <2>3 DEF TunnelStep
<1>5. CASE AppRestart
  <2>1. restarted' = TRUE /\ intents' = intents /\ service' = service
    BY <1>5 DEF AppRestart, UiRestart, androidVars
  <2> QED
    BY <1>0, <2>1 DEF TunnelInv
<1> QED
  BY <1>1, <1>2, <1>3, <1>4, <1>5 DEF VpnAppNext

LEMMA TunnelInitially == VpnAppInit => TunnelInv
<1> SUFFICES ASSUME VpnAppInit PROVE TunnelInv
  OBVIOUS
<1>1. /\ intents = <<>> /\ service = None /\ cores = {} /\ alarms = {} /\ flow.at = "idle"
      /\ \A a \in Attempt : launch[a].pc = "none" /\ inst[a].box = None /\ inst[a].alarm = None
  BY DEF VpnAppInit, AndroidInit, NoFields, FlowInit, Idle
<1>2. Len(intents) = 0
  BY <1>1
<1>3. \A a : ~Sent(a)
  BY <1>2 DEF Sent
<1> QED
  BY <1>1, <1>2, <1>3 DEF TunnelInv, Halted, Clear, SentOnce, Unstarted, OwnInstance

LEMMA TunnelInvariant == VpnAppSpec => []TunnelInv
BY TunnelInitially, TunnelKeeps, AppInvariant, PTL DEF VpnAppSpec

(* A core that runs is the box of its instance, and once it announced      *)
(* itself its alarm is posted (startCore, scheduleHardExpiry).             *)
THEOREM EveryTunnelIsEnded == VpnAppSpec => []EveryTunnelEnds
<1>1. AppInv /\ TunnelInv => EveryTunnelEnds
  <2> SUFFICES ASSUME AppInv, TunnelInv, ~restarted, NEW a \in cores
               PROVE  /\ inst[launch[a].home].box = a
                      /\ launch[a].pc = "done" => a \in alarms
    BY DEF EveryTunnelEnds
  <2>1. a \in Attempt /\ OwnInstance
    BY DEF AppInv, AndroidOK, AndroidType, TunnelInv
  <2>2. launch[a].pc # "none" /\ inst[a].box = a /\ (launch[a].pc = "done" => a \in alarms)
    BY <2>1 DEF OwnInstance
  <2> QED
    BY <2>1, <2>2 DEF OwnInstance
<1> QED
  BY <1>1, AppInvariant, TunnelInvariant, PTL

(* When the flow rests and its commands are delivered, no service lives    *)
(* and no extension starts or runs (_stopQuietly, disconnect).             *)
THEOREM AStopIsFinal == VpnAppSpec => []StopIsFinal
<1>1. IosInv /\ TunnelInv => StopIsFinal
  BY DEF StopIsFinal, Resting, Early, Stopping, IosInv, TunnelInv, Clear
<1> QED
  BY <1>1, IosInvariant, TunnelInvariant, PTL
=============================================================================
