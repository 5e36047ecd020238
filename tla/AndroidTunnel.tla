--------------------------- MODULE AndroidTunnel ---------------------------
(***************************************************************************)
(* SingBoxVpnService.kt with MainActivity's method channel: the intents    *)
(* that start and stop the service, its instances, the thread each start   *)
(* runs the core in, and the alarm that ends a tunnel at its deadline.     *)
(*                                                                         *)
(* An instance is named by the attempt whose intent created it.  Intents   *)
(* are delivered in order; the start thread runs beside the main thread.   *)
(***************************************************************************)
EXTENDS ConnectionFlow, Sequences

VARIABLES
  intents,   \* sent to the service, not yet delivered
  service,   \* the live instance
  inst,      \* fields of the instances: box, expiryRunnable
  launch,    \* the start threads, and the instance each one belongs to
  cores,     \* sing-box cores that run
  alarms     \* posted expiry runnables, by the attempt that posted them

androidVars == <<intents, service, inst, launch, cores, alarms>>

Intent == [act : {"start", "stop"}, of : Attempt \cup {None}]
Stop == [act |-> "stop", of |-> None]
NoFields == [box |-> None, alarm |-> None]

AndroidType ==
  /\ intents \in Seq(Intent)
  /\ service \in Attempt \cup {None}
  /\ inst \in [Attempt -> [box : Attempt \cup {None}, alarm : Attempt \cup {None}]]
  /\ launch \in [Attempt -> [pc : {"none", "starting", "assigned", "done"},
                             home : Attempt \cup {None}]]
  /\ cores \subseteq Attempt /\ alarms \subseteq Attempt

AndroidInit ==
  /\ intents = <<>> /\ service = None
  /\ inst = [i \in Attempt |-> NoFields]
  /\ launch = [a \in Attempt |-> [pc |-> "none", home |-> None]]
  /\ cores = {} /\ alarms = {}

\* The channel's start and stop: the intent is sent, nothing is awaited.
SendStart(a) ==
  /\ intents' = Append(intents, [act |-> "start", of |-> a])
  /\ UNCHANGED <<service, inst, launch, cores, alarms>>

SendStop ==
  /\ intents' = Append(intents, Stop)
  /\ UNCHANGED <<service, inst, launch, cores, alarms>>

\* teardown: the fields are closed and cleared.
Teardown(i) ==
  /\ inst' = [inst EXCEPT ![i] = NoFields]
  /\ cores' = cores \ {inst[i].box}
  /\ alarms' = alarms \ {inst[i].alarm}

\* Mutant: the service is left running.
TeardownOnly(i) == Teardown(i) /\ UNCHANGED service

\* stopSelfGracefully, then onDestroy
StopSelf(i) ==
  /\ Teardown(i)
  /\ service' = IF service = i THEN None ELSE service

\* onStartCommand with a config; a live instance takes the intent.
DeliverStart ==
  /\ intents # <<>> /\ Head(intents).act = "start"
  /\ LET a == Head(intents).of
         i == IF service = None THEN a ELSE service
     IN /\ service' = i
        /\ launch' = [launch EXCEPT ![a] = [pc |-> "starting", home |-> i]]
  /\ intents' = Tail(intents)
  /\ Emit("connecting")
  /\ UNCHANGED <<inst, cores, alarms>>

\* ACTION_STOP; without a live instance one is created and stops at once.
DeliverStop ==
  /\ intents # <<>> /\ Head(intents).act = "stop"
  /\ intents' = Tail(intents)
  /\ IF service = None THEN UNCHANGED <<service, inst, cores, alarms>> ELSE StopSelf(service)
  /\ Emit("disconnected")
  /\ UNCHANGED launch

\* The start thread: service.start() opened the tunnel, box is set.
AssignBox(a) ==
  /\ launch[a].pc = "starting"
  /\ launch' = [launch EXCEPT ![a].pc = "assigned"]
  /\ cores' = cores \cup {a}
  /\ inst' = [inst EXCEPT ![launch[a].home].box = a]
  /\ UNCHANGED <<intents, service, alarms, status, news>>

\* Mutant: the field is set, the runnable is not posted.
NoAlarm(a) ==
  /\ inst' = [inst EXCEPT ![launch[a].home].alarm = a]
  /\ UNCHANGED <<cores, alarms, service>>

\* scheduleHardExpiry before the deadline
PostAlarm(a) ==
  /\ inst' = [inst EXCEPT ![launch[a].home].alarm = a]
  /\ alarms' = alarms \cup {a}
  /\ UNCHANGED <<cores, service>>

\* ... and past it: stopSelfGracefully, but startCore emits CONNECTED all the same.
Announce(a) ==
  /\ launch[a].pc = "assigned"
  /\ launch' = [launch EXCEPT ![a].pc = "done"]
  /\ PostAlarm(a) \/ StopSelf(launch[a].home)
  /\ Emit("connected")
  /\ UNCHANGED intents

\* The core does not start.
StartThrows(a) ==
  /\ launch[a].pc = "starting"
  /\ launch' = [launch EXCEPT ![a].pc = "done"]
  /\ StopSelf(launch[a].home)
  /\ EmitError
  /\ UNCHANGED intents

\* The alarm stops the instance that posted it.
AlarmFires(a) ==
  /\ a \in alarms
  /\ LET i == launch[a].home
     IN /\ inst' = [inst EXCEPT ![i] = NoFields]
        /\ cores' = cores \ {inst[i].box}
        /\ alarms' = alarms \ {a, inst[i].alarm}
        /\ service' = IF service = i THEN None ELSE service
  /\ Emit("disconnected")
  /\ UNCHANGED <<intents, launch>>

\* onRevoke: the user or another VPN takes the permission.
Revoke ==
  /\ service # None
  /\ StopSelf(service)
  /\ Emit("disconnected")
  /\ UNCHANGED <<intents, launch>>

AndroidNext ==
  \/ DeliverStart \/ DeliverStop \/ Revoke
  \/ \E a \in Attempt : AssignBox(a) \/ Announce(a) \/ StartThrows(a) \/ AlarmFires(a)

-----------------------------------------------------------------------------
(* Every tunnel has its end: a core that announced itself is the box of    *)
(* its instance and the alarm that will close it is posted, also when its  *)
(* service was stopped before the core was up.  Overlapping starts, which  *)
(* need an app started again, are left out: the second box replaces the    *)
(* first.                                                                  *)
EveryTunnelEnds ==
  ~restarted =>
    \A a \in cores :
      /\ inst[launch[a].home].box = a
      /\ launch[a].pc = "done" => a \in alarms

(* connection_flow.dart:76 and 313: no tunnel on doubt, none left          *)
(* half-open on any failure path, once the stop has been delivered.        *)
NoTunnelOnDoubt ==
  Resting /\ ~restarted /\ intents = <<>> => cores = {}
=============================================================================
