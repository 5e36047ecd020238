----------------------------- MODULE IosTunnel -----------------------------
(***************************************************************************)
(* AppDelegate.swift, PacketTunnelProvider.swift and SharedKeychain.swift: *)
(* the app stores the config of a session in the shared keychain and       *)
(* starts the network extension, which reads the config and wipes it when  *)
(* it ends.  The system starts one extension at a time.                    *)
(***************************************************************************)
EXTENDS ConnectionFlow

VARIABLES
  ext,       \* the extension and its session
  keychain,  \* sessions whose config is stored
  orphaned   \* configs no process is left to wipe

iosVars == <<ext, keychain, orphaned>>

Off == [pc |-> "off", of |-> None]

IosType ==
  /\ ext \in [pc : {"off", "starting", "up", "stopping"}, of : Attempt \cup {None}]
  /\ keychain \subseteq Attempt /\ orphaned \subseteq Attempt

IosInit == ext = Off /\ keychain = {} /\ orphaned = {}

-----------------------------------------------------------------------------
\* The app: putConfig, before the asynchronous chain of the manager.
PutConfig ==
  /\ flow.at = "starting" /\ flow.cur \notin keychain
  /\ keychain' = keychain \cup {flow.cur}
  /\ UNCHANGED <<ext, orphaned, status, news>>

(* startVPNTunnel; the system ignores it while an extension runs, and the  *)
(* config stays.                                                           *)
StartTunnel(a) ==
  /\ a \in keychain
  /\ IF ext = Off
       THEN /\ ext' = [pc |-> "starting", of |-> a]
            /\ Emit("connecting")
            /\ UNCHANGED orphaned
       ELSE /\ orphaned' = orphaned \cup {a}
            /\ UNCHANGED <<ext, status, news>>
  /\ UNCHANGED keychain

\* Mutant: the config stays when the manager fails.
KeepConfig(a) == UNCHANGED <<ext, keychain, orphaned, status, news>>

\* The manager cannot be loaded or saved, the start is refused.
StartTunnelFails(a) ==
  /\ keychain' = keychain \ {a}
  /\ UNCHANGED <<ext, orphaned, status, news>>

\* stopVPNTunnel
StopTunnel ==
  /\ IF ext.pc \in {"starting", "up"}
       THEN ext' = [ext EXCEPT !.pc = "stopping"] /\ Emit("disconnecting")
       ELSE UNCHANGED <<ext, status, news>>
  /\ UNCHANGED <<keychain, orphaned>>

-----------------------------------------------------------------------------
\* The extension: startTunnel with the config it reads.
TunnelUp ==
  /\ ext.pc = "starting" /\ ext.of \in keychain
  /\ ext' = [ext EXCEPT !.pc = "up"]
  /\ Emit("connected")
  /\ UNCHANGED <<keychain, orphaned>>

\* Ends: a failed start, the deadline's timer, stopTunnel; all wipe the config.
TunnelEnds ==
  /\ ext.pc # "off"
  /\ ext' = Off
  /\ keychain' = keychain \ {ext.of}
  /\ Emit("disconnected")
  /\ UNCHANGED orphaned

\* The system kills the extension, which wipes nothing.
ExtensionDies ==
  /\ ext.pc # "off"
  /\ ext' = Off
  /\ orphaned' = orphaned \cup {ext.of}
  /\ Emit("disconnected")
  /\ UNCHANGED keychain

IosNext == PutConfig \/ TunnelUp \/ TunnelEnds \/ ExtensionDies

-----------------------------------------------------------------------------
(* "Wiped the moment the session ends" (SharedKeychain.swift:8): a stored  *)
(* config belongs to the start under way or to the running extension,      *)
(* unless the process that was to wipe it died or its start was ignored.   *)
CredentialWiped ==
  \A a \in keychain \ orphaned :
    (flow.at = "starting" /\ flow.cur = a) \/ ext.of = a
=============================================================================
