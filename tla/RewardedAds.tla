---------------------------- MODULE RewardedAds ----------------------------
(***************************************************************************)
(* AdMobRewardService (admob_reward_service.dart): one slot for a loaded   *)
(* ad, one load under way whose future its callers share, and the views    *)
(* that take the ad.  The viewers are the flow, for its grant, and the     *)
(* closing ad of a disconnect, which nobody waits for.                     *)
(***************************************************************************)
CONSTANTS
  Ad,     \* loaded ads; an ad that was shown may be loaded anew
  NoAd

Viewer == {"grant", "closing"}

(* Bound: one more ad than can be in use, so that a load finds a free one. *)
ASSUME AdAssumption ==
  /\ NoAd \notin Ad
  /\ \A x, y, z \in Ad \cup {NoAd} : \E ad \in Ad : ad \notin {x, y, z}

VARIABLES
  slot,     \* _ad
  loading,  \* _loadCompleter
  view,     \* the showRewarded calls, one of each viewer
  nonce     \* whose nonce an ad sends to the SSV callback

adVars == <<slot, loading, view, nonce>>

NoView == [pc |-> "none", ad |-> NoAd]

AdType ==
  /\ slot \in Ad \cup {NoAd}
  /\ loading \in BOOLEAN
  /\ view \in [Viewer -> [pc : {"none", "waiting", "binding", "showing", "shown", "failed"},
                          ad : Ad \cup {NoAd}]]
  /\ nonce \in [Ad -> Viewer \cup {"none"}]

AdInit ==
  /\ slot = NoAd /\ loading = FALSE
  /\ view = [v \in Viewer |-> NoView]
  /\ nonce = [ad \in Ad |-> "none"]

Waiting == {v \in Viewer : view[v].pc = "waiting"}
Fresh == CHOOSE ad \in Ad : ad # slot /\ \A v \in Viewer : view[v].ad # ad

\* A view ends, and the ad it held is disposed of.
Settle(v, pc) ==
  /\ view' = [view EXCEPT ![v] = [pc |-> pc, ad |-> NoAd]]
  /\ nonce' = IF view[v].ad = NoAd THEN nonce ELSE [nonce EXCEPT ![view[v].ad] = "none"]

\* Mutant: the reference is kept while the ad is shown.
TakeShared(v) ==
  /\ view' = [view EXCEPT ![v] = [pc |-> "binding", ad |-> slot]]
  /\ UNCHANGED slot

\* _show: the reference is nulled before the first await.
Take(v) ==
  /\ view' = [view EXCEPT ![v] = [pc |-> "binding", ad |-> slot]]
  /\ slot' = NoAd

\* showRewarded: take the ad, or share the load.
ShowRewarded(v) ==
  /\ view[v].pc = "none"
  /\ \/ slot # NoAd /\ Take(v) /\ UNCHANGED loading
     \/ /\ slot = NoAd /\ loading' = TRUE
        /\ view' = [view EXCEPT ![v].pc = "waiting"]
        /\ UNCHANGED slot
  /\ UNCHANGED nonce

\* preload at the start of the app, and when an ad is dismissed after its timeout.
Preload ==
  /\ slot = NoAd /\ ~loading
  /\ loading' = TRUE
  /\ UNCHANGED <<slot, view, nonce>>

(* onAdLoaded: the waiters resume one after the other; the first takes the *)
(* ad, those after it find none and fail.                                  *)
Loaded ==
  /\ loading /\ loading' = FALSE
  /\ IF Waiting = {}
       THEN slot' = Fresh /\ UNCHANGED view
       ELSE /\ \E first \in Waiting :
                 view' = [v \in Viewer |->
                            IF v = first THEN [pc |-> "binding", ad |-> Fresh]
                            ELSE IF v \in Waiting THEN [pc |-> "failed", ad |-> NoAd]
                            ELSE view[v]]
            /\ UNCHANGED slot
  /\ UNCHANGED nonce

LoadFails ==
  /\ loading /\ loading' = FALSE
  /\ view' = [v \in Viewer |-> IF v \in Waiting THEN [pc |-> "failed", ad |-> NoAd] ELSE view[v]]
  /\ UNCHANGED <<slot, nonce>>

\* setServerSideVerificationOptions, then show.
Bind(v) ==
  /\ view[v].pc = "binding"
  /\ nonce' = [nonce EXCEPT ![view[v].ad] = v]
  /\ view' = [view EXCEPT ![v].pc = "showing"]
  /\ UNCHANGED <<slot, loading>>

\* Dismissed, earned or not; the next ad is warmed.
Dismissed(v) ==
  /\ view[v].pc = "showing"
  /\ Settle(v, "shown")
  /\ loading' = (loading \/ slot = NoAd)
  /\ UNCHANGED slot

\* The ad cannot be bound or displayed, or its three minutes are over.
ShowFails(v) ==
  /\ view[v].pc \in {"binding", "showing"}
  /\ Settle(v, "failed")
  /\ UNCHANGED <<slot, loading>>

\* The caller of showRewarded has its answer; nobody asks for the closing ad's.
Answered(v, pc) ==
  /\ view[v].pc = pc
  /\ view' = [view EXCEPT ![v] = NoView]
  /\ UNCHANGED <<slot, loading, nonce>>

AdNext ==
  \/ Preload \/ Loaded \/ LoadFails
  \/ \E v \in Viewer : Bind(v) \/ Dismissed(v) \/ ShowFails(v)
  \/ Answered("closing", "shown") \/ Answered("closing", "failed")

-----------------------------------------------------------------------------
(* The reward of an ad on the screen is reported with the nonce of the     *)
(* view that shows it, also when a closing ad and the ad of a new grant    *)
(* are on their way together.                                              *)
NonceKept ==
  \A v \in Viewer : view[v].pc = "showing" => nonce[view[v].ad] = v
=============================================================================
