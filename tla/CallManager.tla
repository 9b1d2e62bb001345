---------------------------- MODULE CallManager ----------------------------
(***************************************************************************)
(* CallManager (call_manager.py): one SIP client and one audio bridge per  *)
(* active doorbell call, on one asyncio event loop.  A step is the code a  *)
(* task or a callback runs between two awaits that really suspend.         *)
(*                                                                         *)
(* A call is named by the ring it answers.  SipClient.tla has the detail of *)
(* dialog[c]; of the bridge only what the manager depends on is kept: the  *)
(* ffmpeg process it references, the starts in flight and the starts a     *)
(* stop() has invalidated.                                                 *)
(***************************************************************************)
EXTENDS Integers, FiniteSets

CONSTANTS
    NumRings,  \* bound: rings, hence calls
    Video      \* "on" when video_enabled: ffmpeg is prewarmed during INVITE

ASSUME RingsAssumption == NumRings \in Nat \ {0}
ASSUME VideoAssumption == Video \in {"on", "off"}

Calls == 1 .. NumRings
None == 0
Ref == Calls \union {None}

\* The tasks that can be suspended inside the manager's own methods.
Tasks == ({"push", "cancel"} \X Calls) \union {<<"unload", None>>}

VARIABLES
    manager,   \* _started
    active,    \* _active_call_id
    client,    \* _sip_client, _sip_transport
    sockets,   \* _pending_*_socket, named by the call they were bound for
    spawnTask, \* _spawn_bridge_task
    maxTask,   \* _max_duration_task
    grace,     \* _grace_task: asleep, or stopping the bridge after its sleep
    dialog,    \* each call's SIP client
    spawn,     \* each call's _spawn_bridge
    sockOf,    \* the sockets each _spawn_bridge took
    stale,     \* bridge starts whose generation a stop() has passed
    running,   \* the ffmpeg AudioBridge._process refers to, named by its call
    orphans,   \* live ffmpeg processes nothing refers to
    prewarm,   \* AudioBridge._prewarm_task, or its cleanup
    frame      \* where each task is suspended in abort_active_call or async_stop

timers == <<maxTask, grace>>
bridge == <<spawn, sockOf, stale, running, orphans, prewarm>>
cmVars == <<manager, active, client, sockets, spawnTask, timers, dialog, bridge, frame>>

Live == {"inviting", "confirmed"}
Started == {"adopting", "spawning", "waiting"}
InFlight == {"scheduled"} \union Started
Idle == [pc |-> "idle", call |-> None, task |-> None]

CMTypeOK ==
    /\ manager \in {"started", "stopped"}
    /\ active \in Ref
    /\ client \in Ref
    /\ sockets \in Ref
    /\ spawnTask \in Ref
    /\ maxTask \in Ref
    /\ grace \in [Calls -> {"off", "sleeping", "stopping"}]
    /\ dialog \in [Calls -> {"idle", "connecting", "closing", "over"} \union Live]
    /\ spawn \in [Calls -> {"none", "cancelled"} \union InFlight]
    /\ sockOf \in [Calls -> Ref]
    /\ stale \in SUBSET Calls
    /\ running \in Ref
    /\ orphans \in SUBSET Calls
    /\ prewarm \in {"none", "live", "reaping"}
    /\ frame \in [Tasks -> [pc : {"idle", "spawn", "bridge"}, call : Ref, task : Ref]]

CMInit ==
    /\ manager = "started"
    /\ active = None
    /\ client = None
    /\ sockets = None
    /\ spawnTask = None
    /\ maxTask = None
    /\ grace = [c \in Calls |-> "off"]
    /\ dialog = [c \in Calls |-> "idle"]
    /\ spawn = [c \in Calls |-> "none"]
    /\ sockOf = [c \in Calls |-> None]
    /\ stale = {}
    /\ running = None
    /\ orphans = {}
    /\ prewarm = "none"
    /\ frame = [t \in Tasks |-> Idle]
-----------------------------------------------------------------------------
(* start_call.                                                             *)

CanStart == manager = "started" /\ active = None

\* Up to the TCP connect: the sockets are bound, whatever was pending.
StartConnect(c) ==
    /\ CanStart
    /\ dialog' = [dialog EXCEPT ![c] = "connecting"]
    /\ sockets' = c
    /\ UNCHANGED <<manager, active, client, spawnTask, timers, bridge, frame>>

\* The connect fails or times out: the pending sockets are closed.
ConnectFail(c) ==
    /\ dialog[c] = "connecting"
    /\ dialog' = [dialog EXCEPT ![c] = "idle"]
    /\ sockets' = None
    /\ UNCHANGED <<manager, active, client, spawnTask, timers, bridge, frame>>

\* sip_client.call raises: the connection dropped before the INVITE.
ConnectRaises(c) ==
    /\ dialog[c] = "connecting"
    /\ dialog' = [dialog EXCEPT ![c] = "idle"]
    /\ sockets' = None
    /\ client' = None
    /\ UNCHANGED <<manager, active, spawnTask, timers, bridge, frame>>

\* _max_duration_task.  Mutant: it is not created.
NoMax(c) == None
ArmMax(c) == c

\* Connected: INVITE, prewarm, max-duration timer.  Nothing is re-checked.
ConnectOk(c) ==
    /\ dialog[c] = "connecting"
    /\ dialog' = [dialog EXCEPT ![c] = "inviting"]
    /\ client' = c
    /\ active' = c
    /\ maxTask' = ArmMax(c)
    /\ prewarm' = IF Video = "on" /\ running = None /\ prewarm # "live" THEN "live" ELSE prewarm
    /\ UNCHANGED <<manager, sockets, spawnTask, grace, spawn, sockOf, stale, running, orphans, frame>>
-----------------------------------------------------------------------------
(* Callbacks of the SIP client and the timers.                             *)

Discarded == IF prewarm = "live" THEN "reaping" ELSE prewarm
\* Creating a grace task cancels the one before.
GraceFor(c) == [d \in Calls |-> IF d = c THEN "sleeping" ELSE "off"]
NoGrace == [d \in Calls |-> "off"]

\* _handle_call_terminated, after the dialog of c is over; stale calls ignored.
DropCall(c) ==
    IF c = active
      THEN /\ client' = None
           /\ sockets' = None
           /\ maxTask' = None
           /\ grace' = GraceFor(c)
           /\ prewarm' = Discarded
      ELSE UNCHANGED <<client, sockets, maxTask, grace, prewarm>>

\* self._sip_client.hang_up(c): the client knows its own call only.
HangUp(c) ==
    IF client = c /\ dialog[c] \in Live
      THEN dialog' = [dialog EXCEPT ![c] = "over"] /\ DropCall(c)
      ELSE UNCHANGED <<dialog, client, sockets, maxTask, grace, prewarm>>

\* BYE, refusal, bad answer or lost connection.
Terminated(c) ==
    /\ dialog[c] \in Live \union {"closing"}
    /\ dialog' = [dialog EXCEPT ![c] = "over"]
    /\ DropCall(c)
    /\ UNCHANGED <<manager, active, spawnTask, spawn, sockOf, stale, running, orphans, frame>>

Established(c) ==
    /\ dialog[c] = "inviting"
    /\ dialog' = [dialog EXCEPT ![c] = "confirmed"]
    /\ IF c = active
         THEN spawn' = [spawn EXCEPT ![c] = "scheduled"] /\ spawnTask' = c
         ELSE UNCHANGED <<spawn, spawnTask>>
    /\ UNCHANGED <<manager, active, client, sockets, timers, sockOf, stale, running, orphans, prewarm, frame>>

\* _auto_terminate_after.
MaxExpired(c) ==
    /\ maxTask = c
    /\ IF active = c /\ client = c /\ dialog[c] \in Live
         THEN HangUp(c)
         ELSE maxTask' = None /\ UNCHANGED <<dialog, client, sockets, grace, prewarm>>
    /\ UNCHANGED <<manager, active, spawnTask, spawn, sockOf, stale, running, orphans, frame>>
-----------------------------------------------------------------------------
(* AudioBridge.stop, and the tasks that wait for it.                       *)

\* stop() suspends only while there is a process to reap.
Reaping == running # None \/ prewarm # "none"

\* Mutant: the process is kept.
BridgeStopKeepsProcess ==
    /\ prewarm' = "none"
    /\ stale' = stale \union {c \in Calls : spawn[c] \in Started}
    /\ UNCHANGED running

BridgeStop ==
    /\ running' = None
    /\ prewarm' = "none"
    /\ stale' = stale \union {c \in Calls : spawn[c] \in Started}

\* _teardown_bridge_after_grace: superseded, suspended in stop(), or done at
\* once.  The 60 seconds outlast a bridge start with its wait of 15 seconds, and
\* the reaping of a prewarmed ffmpeg.
GraceSuperseded(c) ==
    /\ grace[c] = "sleeping"
    /\ active # c
    /\ grace' = NoGrace
    /\ UNCHANGED <<manager, active, client, sockets, spawnTask, maxTask, dialog, bridge, frame>>

GraceExpired(c) ==
    /\ grace[c] = "sleeping"
    /\ active = c
    /\ spawn[c] = "none"
    /\ prewarm # "reaping"
    /\ active' = None
    /\ BridgeStop
    /\ grace' = IF Reaping THEN [grace EXCEPT ![c] = "stopping"] ELSE NoGrace
    /\ UNCHANGED <<manager, client, sockets, spawnTask, maxTask, dialog, spawn, sockOf, orphans, frame>>

GraceEnd(c) ==
    /\ grace[c] = "stopping"
    /\ grace' = NoGrace
    /\ UNCHANGED <<manager, active, client, sockets, spawnTask, maxTask, dialog, bridge, frame>>

PrewarmReaped ==
    /\ prewarm = "reaping"
    /\ prewarm' = "none"
    /\ UNCHANGED <<manager, active, client, sockets, spawnTask, timers, dialog,
                   spawn, sockOf, stale, running, orphans, frame>>
-----------------------------------------------------------------------------
(* _spawn_bridge and the AudioBridge.start it awaits.                      *)

\* First segment: it takes whatever sockets are pending.
SpawnStart(c) ==
    /\ spawn[c] = "scheduled"
    /\ sockets # None
    /\ running = None
    /\ sockets' = None
    /\ sockOf' = [sockOf EXCEPT ![c] = sockets]
    /\ spawn' = [spawn EXCEPT ![c] = IF prewarm = "live" THEN "adopting" ELSE "spawning"]
    /\ prewarm' = IF prewarm = "live" THEN "none" ELSE prewarm
    /\ UNCHANGED <<manager, active, client, spawnTask, timers, dialog, stale, running, orphans, frame>>

SpawnWithoutSocket(c) ==
    /\ spawn[c] = "scheduled"
    /\ sockets = None
    /\ spawn' = [spawn EXCEPT ![c] = "none"]
    /\ HangUp(c)
    /\ UNCHANGED <<manager, active, spawnTask, sockOf, stale, running, orphans, frame>>

\* The process exists: it is assigned over whatever the bridge referred to.
SpawnFfmpeg(c) ==
    /\ spawn[c] \in {"adopting", "spawning"}
    /\ orphans' = IF running = None THEN orphans ELSE orphans \union {running}
    /\ IF c \in stale
         THEN running' = None /\ spawn' = [spawn EXCEPT ![c] = "none"]
         ELSE running' = c /\ spawn' = [spawn EXCEPT ![c] = "waiting"]
    /\ UNCHANGED <<manager, active, client, sockets, spawnTask, timers, dialog, sockOf, stale, prewarm, frame>>

\* ffmpeg cannot be spawned, or an endpoint cannot be opened.
SpawnFail(c) ==
    /\ spawn[c] \in Started
    /\ spawn' = [spawn EXCEPT ![c] = "none"]
    /\ running' = IF spawn[c] = "waiting" THEN None ELSE running
    /\ HangUp(c)
    /\ UNCHANGED <<manager, active, spawnTask, sockOf, stale, orphans, frame>>

\* start() finds its generation passed and unwinds what the bridge refers to.
SpawnInvalidated(c) ==
    /\ spawn[c] = "waiting"
    /\ c \in stale
    /\ spawn' = [spawn EXCEPT ![c] = "none"]
    /\ running' = None
    /\ UNCHANGED <<manager, active, client, sockets, spawnTask, timers, dialog,
                   sockOf, stale, orphans, prewarm, frame>>

\* The start() of c returns its URL: at once if an ffmpeg is running already,
\* otherwise when ffmpeg has pushed or the wait for that timed out.
Returns(c) ==
    \/ spawn[c] = "scheduled" /\ sockets # None /\ running # None
    \/ spawn[c] = "waiting" /\ c \notin stale

\* Re-validation after the awaits of start().
Current(c) == manager = "started" /\ active = c

TakeSockets(c) == sockets' = IF spawn[c] = "scheduled" THEN None ELSE sockets

\* The URL is published (on_call_active).
SpawnPublish(c) ==
    /\ Returns(c)
    /\ Current(c)
    /\ spawn' = [spawn EXCEPT ![c] = "none"]
    /\ TakeSockets(c)
    /\ UNCHANGED <<manager, active, client, spawnTask, timers, dialog,
                   sockOf, stale, running, orphans, prewarm, frame>>

SpawnSuperseded(c) ==
    /\ Returns(c)
    /\ ~Current(c)
    /\ spawn' = [spawn EXCEPT ![c] = "none"]
    /\ TakeSockets(c)
    /\ BridgeStop
    /\ UNCHANGED <<manager, active, client, spawnTask, timers, dialog, sockOf, orphans, frame>>

\* A cancelled start unwinds what the bridge refers to.
SpawnUnwind(c) ==
    /\ spawn[c] = "cancelled"
    /\ spawn' = [spawn EXCEPT ![c] = "none"]
    /\ running' = None
    /\ UNCHANGED <<manager, active, client, sockets, spawnTask, timers, dialog,
                   sockOf, stale, orphans, prewarm, frame>>
-----------------------------------------------------------------------------
(* abort_active_call(t) and async_stop(t): cancel the spawn and wait for   *)
(* it, stop the bridge and wait for that, then finish.                     *)

\* Mutant: a start in flight is not noticed.
NoSpawnNoticed == FALSE
SpawnInFlight == spawnTask # None /\ spawn[spawnTask] \in InFlight

\* _cancel_spawn_bridge_task.  A task that has not begun never does; one that
\* awaits the prewarm puts it back.
CancelSpawn(t, c) ==
    /\ SpawnInFlight
    /\ spawnTask' = None
    /\ spawn' = [spawn EXCEPT ![spawnTask] = IF @ = "scheduled" THEN "none" ELSE "cancelled"]
    /\ frame' = [frame EXCEPT ![t] = [pc |-> "spawn", call |-> c, task |-> spawnTask]]
    /\ UNCHANGED <<sockOf, stale, running, orphans>>

PutBack(otherwise) ==
    IF spawnTask # None /\ spawn[spawnTask] = "adopting" THEN "live" ELSE otherwise

\* BridgeStop with the task t suspended in it.
AwaitStop(t, c) ==
    /\ Reaping
    /\ BridgeStop
    /\ frame' = [frame EXCEPT ![t] = [pc |-> "bridge", call |-> c, task |-> None]]
    /\ UNCHANGED <<spawn, sockOf, orphans>>

HangsUp == client = active /\ dialog[active] \in Live

\* The client's transport is closed without a BYE.  Mutant: it is only dropped.
TransportDropped == dialog
TransportClosed ==
    [c \in Calls |-> IF c = client /\ dialog[c] \in Live THEN "closing" ELSE dialog[c]]

\* The part of abort_active_call that runs at once: BYE or CANCEL, then close.
DropActive ==
    /\ dialog' = IF HangsUp THEN [dialog EXCEPT ![active] = "over"] ELSE TransportClosed
    /\ grace' = IF HangsUp THEN GraceFor(active) ELSE NoGrace
    /\ client' = None
    /\ sockets' = None
    /\ maxTask' = None

AbortCancelsSpawn(t) ==
    /\ active # None
    /\ frame[t] = Idle
    /\ DropActive
    /\ CancelSpawn(t, active)
    /\ prewarm' = PutBack(IF HangsUp THEN Discarded ELSE prewarm)
    /\ UNCHANGED <<manager, active>>

AbortStopsBridge(t) ==
    /\ active # None
    /\ frame[t] = Idle
    /\ ~SpawnInFlight
    /\ DropActive
    /\ AwaitStop(t, active)
    /\ spawnTask' = None
    /\ UNCHANGED <<manager, active>>

\* Nothing to wait for: the abort completes without suspending.
AbortNow ==
    /\ active # None
    /\ ~SpawnInFlight
    /\ ~Reaping
    /\ DropActive
    /\ BridgeStop
    /\ spawnTask' = None
    /\ active' = None
    /\ UNCHANGED <<manager, spawn, sockOf, orphans, frame>>

\* The cancelled spawn is gone: on to the bridge.
AwaitedSpawn(t) == frame[t].pc = "spawn" /\ spawn[frame[t].task] = "none"

ThenStopsBridge(t) ==
    /\ AwaitedSpawn(t)
    /\ AwaitStop(t, frame[t].call)
    /\ UNCHANGED <<manager, active, client, sockets, spawnTask, timers, dialog>>

\* The task t has nothing left to wait for and runs to its end.
Resumes(t) ==
    /\ \/ frame[t].pc = "bridge" /\ UNCHANGED <<running, prewarm, stale>>
       \/ AwaitedSpawn(t) /\ ~Reaping /\ BridgeStop
    /\ frame' = [frame EXCEPT ![t] = Idle]
    /\ UNCHANGED <<spawn, sockOf, orphans>>

\* The end of abort_active_call: _active_call_id is cleared, whatever it is by
\* now, and on_call_ended fires for the call that was aborted.
AbortEnd(t) ==
    /\ Resumes(t)
    /\ active' = None
    /\ UNCHANGED <<manager, client, sockets, spawnTask, timers, dialog>>

StopCancelsSpawn(t) ==
    /\ frame[t] = Idle
    /\ CancelSpawn(t, None)
    /\ prewarm' = PutBack(prewarm)
    /\ UNCHANGED <<manager, active, client, sockets, timers, dialog>>

StopStopsBridge(t) ==
    /\ frame[t] = Idle
    /\ ~SpawnInFlight
    /\ AwaitStop(t, None)
    /\ spawnTask' = None
    /\ UNCHANGED <<manager, active, client, sockets, timers, dialog>>

\* The end of async_stop.
Cleared ==
    /\ dialog' = TransportClosed
    /\ client' = None
    /\ active' = None
    /\ maxTask' = None
    /\ grace' = NoGrace
    /\ sockets' = None
    /\ manager' = "stopped"

StopNow(t) ==
    /\ frame[t] = Idle
    /\ ~SpawnInFlight
    /\ ~Reaping
    /\ BridgeStop
    /\ spawnTask' = None
    /\ Cleared
    /\ UNCHANGED <<spawn, sockOf, orphans, frame>>

StopEnd(t) ==
    /\ Resumes(t)
    /\ Cleared
    /\ UNCHANGED spawnTask

\* What the manager takes each of its calls to be.
StageOf(c) == IF dialog[c] = "connecting" THEN "idle" ELSE dialog[c]
EndedOf(c) == IF dialog[c] = "over" THEN 1 ELSE 0

\* What the manager takes its bridge to be.  (The stop of the unload is left out:
\* a 200 OK may schedule a start while it waits, which the second stop ends.)
ValidStarts == {c \in Calls : spawn[c] \in Started /\ c \notin stale}
StartsEnding == {c \in Calls : spawn[c] \in Started \union {"cancelled"} /\ c \notin ValidStarts}
StopsBridge(t) == frame[t].pc = "bridge" /\ t # <<"unload", None>>
BridgeStage ==
    IF ValidStarts # {} THEN "starting"
    ELSE IF StartsEnding # {} \/ \E t \in Tasks : StopsBridge(t) THEN "ending"
    ELSE IF running = None THEN "empty"
    ELSE "serving"
BridgeCalls == [starting |-> ValidStarts, serving |-> {running}, ending |-> {}, empty |-> {}]

\* send_open_door and send_backlight reach the doorbell: _send_in_dialog_message
\* wants the client's own call, confirmed.
InDialog == active # None /\ client = active /\ dialog[active] = "confirmed"
=============================================================================
