---------------------------- MODULE Coordinator ----------------------------
(***************************************************************************)
(* The doorbell: IntratoneCoordinator (coordinator.py) over CallManager.   *)
(* Ring and cancel pushes arrive in order and run as concurrent tasks; the *)
(* camera ("view") and the lock ("unlock") start the call of the parked    *)
(* invite and wait for its stream; the config entry is unloaded at any     *)
(* time.  Every awaiting method is split where it really suspends.         *)
(***************************************************************************)
EXTENDS CallManager

CONSTANTS
    CancelKeys, \* what cancel pushes carry: "call_id", "uuid"
    Races       \* the windows in which pushes and the unload may arrive

ASSUME CancelKeysAssumption == CancelKeys \in SUBSET {"call_id", "uuid"}
ASSUME RacesAssumption == Races \in SUBSET {"connect", "overlap", "teardown"}

Users == {"view", "unlock"}

VARIABLES
    pending,   \* _pending, named by its ring
    started,   \* rings whose invite has started set
    ready,     \* rings whose invite has stream_ready set
    data,      \* the ring self.data describes
    streamUrl, \* the call whose URL is in data.stream_url
    sipCall,   \* _active_sip_call_id
    user,      \* where the camera pull and the unlock are suspended
    arrived,   \* ring pushes dispatched so far
    cancelled, \* rings whose cancel push was dispatched
    unloads,   \* runs of async_stop begun: by async_unload_entry, then by its hook
    parked,    \* history: rings installed with credentials, not while a bridge
               \* past its grace was stopping, and not cancelled since
    opened     \* history: <<ring whose code was sent, call it was sent in>>

pushes == <<arrived, cancelled>>
history == <<parked, opened>>
invite == <<pending, started, ready, sipCall>>
view == <<data, streamUrl>>
vars == <<cmVars, invite, view, user, pushes, unloads, history>>

TypeOK ==
    /\ CMTypeOK
    /\ pending \in Ref
    /\ started \in SUBSET Calls
    /\ ready \in SUBSET Calls
    /\ data \in Ref
    /\ streamUrl \in Ref
    /\ sipCall \in Ref
    /\ user \in [Users -> [pc : {"idle", "starting", "answering", "waiting"}, ring : Ref]]
    /\ arrived \in 0 .. NumRings
    /\ cancelled \in SUBSET Calls
    /\ unloads \in 0 .. 2
    /\ parked \in SUBSET Calls
    /\ opened \in SUBSET (Calls \X Calls)

Rest == [pc |-> "idle", ring |-> None]

Init ==
    /\ CMInit
    /\ pending = None
    /\ started = {}
    /\ ready = {}
    /\ data = None
    /\ streamUrl = None
    /\ sipCall = None
    /\ user = [u \in Users |-> Rest]
    /\ arrived = 0
    /\ cancelled = {}
    /\ unloads = 0
    /\ parked = {}
    /\ opened = {}
-----------------------------------------------------------------------------
(* set_stream_url, called back by the manager.                             *)

Pended == {pending} \ {None}
Tracked(c) == data # None /\ sipCall = c

OnCallActive(c) ==
    /\ ready' = IF Tracked(c) THEN ready \union Pended ELSE ready
    /\ streamUrl' = IF Tracked(c) THEN c ELSE streamUrl
    /\ UNCHANGED <<pending, started, sipCall, data, user, pushes, unloads, history>>

\* The URL after the end of a call.  Mutant: it stays.
UrlKept == streamUrl
NoUrl == None

OnCallEnded(c) ==
    /\ IF Tracked(c)
         THEN /\ sipCall' = None
              /\ ready' = ready \union Pended
              /\ pending' = None
              /\ streamUrl' = NoUrl
         ELSE UNCHANGED <<sipCall, ready, pending, streamUrl>>
    /\ UNCHANGED <<started, data, user, pushes, unloads, history>>
-----------------------------------------------------------------------------
(* The windows pushes and the unload may hit, and the life of the entry.   *)

Loaded == unloads = 0

Window ==
    /\ "connect" \in Races \/ \A c \in Calls : dialog[c] # "connecting"
    /\ "overlap" \in Races \/ \A t \in Tasks : frame[t] = Idle
    /\ "teardown" \in Races \/ \A c \in Calls : grace[c] # "stopping"

(* async_handle_push for a ring: abort what is tracked, then install it.   *)

\* A new CallState has no URL.
FreshUrl == None

TearingDown == \E c \in Calls : grace[c] = "stopping"

\* The credentials are parked and the new data published; a push without
\* credentials parks nothing.  endedCall is the call an abort has just ended.
Install(r, endedCall) ==
    /\ \E creds \in {"present", "missing"} :
        /\ pending' = IF creds = "present" THEN r ELSE None
        /\ parked' = IF creds = "present" /\ ~TearingDown
                       THEN parked \union ({r} \ cancelled) ELSE parked
    /\ data' = r
    /\ streamUrl' = FreshUrl
    /\ IF endedCall # None /\ Tracked(endedCall)
         THEN sipCall' = None /\ ready' = ready \union Pended
         ELSE UNCHANGED <<sipCall, ready>>
    /\ UNCHANGED <<started, user, opened>>

\* A call to abort.  Mutants: one still up only; one in its grace only.
DialogUp == client # None
InGrace == active # None /\ client = None
Tracking == active # None

Arrives(r) ==
    /\ Loaded
    /\ Window
    /\ r = arrived + 1
    /\ arrived' = r
    /\ UNCHANGED <<cancelled, unloads>>

Push(r) ==
    /\ Arrives(r)
    /\ \/ ~Tracking /\ Install(r, None) /\ UNCHANGED cmVars
       \/ Tracking /\ AbortNow /\ Install(r, active)

PushAborts(r) ==
    /\ Arrives(r)
    /\ Tracking
    /\ AbortCancelsSpawn(<<"push", r>>) \/ AbortStopsBridge(<<"push", r>>)
    /\ UNCHANGED <<invite, view, user, history>>

PushResumes(r) ==
    /\ AbortEnd(<<"push", r>>)
    /\ Install(r, frame[<<"push", r>>].call)
    /\ UNCHANGED <<pushes, unloads>>

(* _async_handle_call_cancel.                                              *)

\* A cancel carries the call_id of its ring or a uuid; only the former is
\* compared with the ring shown.
CancelArrives(r, key) ==
    /\ Loaded
    /\ Window
    /\ r \in 1 .. arrived
    /\ r \notin cancelled
    /\ cancelled' = cancelled \union {r}
    /\ parked' = IF key = "uuid" THEN {} ELSE parked \ {r}
    /\ UNCHANGED <<arrived, unloads, opened>>

\* Mutant: no cancel is out of order.
NeverOutOfOrder(r, key) == FALSE
OutOfOrder(r, key) == key = "call_id" /\ data \notin {None, r}

CancelIgnored(r) ==
    /\ \E key \in CancelKeys : CancelArrives(r, key) /\ OutOfOrder(r, key)
    /\ UNCHANGED <<cmVars, invite, view, user>>

\* Whatever invite is pending by now is woken and dropped.
DropPending(endedCall) ==
    /\ ready' = ready \union Pended
    /\ pending' = None
    /\ IF endedCall # None /\ Tracked(endedCall)
         THEN sipCall' = None /\ streamUrl' = NoUrl
         ELSE UNCHANGED <<sipCall, streamUrl>>
    /\ UNCHANGED <<started, data, user>>

Cancel(r) ==
    /\ \E key \in CancelKeys : CancelArrives(r, key) /\ ~OutOfOrder(r, key)
    /\ \/ active = None /\ DropPending(None) /\ UNCHANGED cmVars
       \/ AbortNow /\ DropPending(active)

CancelAborts(r) ==
    /\ \E key \in CancelKeys : CancelArrives(r, key) /\ ~OutOfOrder(r, key)
    /\ AbortCancelsSpawn(<<"cancel", r>>) \/ AbortStopsBridge(<<"cancel", r>>)
    /\ UNCHANGED <<invite, view, user>>

CancelResumes(r) ==
    /\ AbortEnd(<<"cancel", r>>)
    /\ DropPending(frame[<<"cancel", r>>].call)
    /\ UNCHANGED <<pushes, unloads, parked, opened>>

\* A push or a cancel that waited for the spawn goes on to wait for the bridge.
HandlerStopsBridge(t) ==
    /\ ThenStopsBridge(t)
    /\ UNCHANGED <<invite, view, user, pushes, unloads, history>>

(* async_unload_entry, and then its hook, stop the manager.                *)

Unload ==
    /\ Window
    /\ unloads < 2
    /\ unloads = 1 => manager = "stopped"
    /\ unloads' = unloads + 1
    /\ LET t == <<"unload", None>>
       IN StopCancelsSpawn(t) \/ StopStopsBridge(t) \/ StopNow(t)
    /\ UNCHANGED <<invite, view, user, pushes, history>>

UnloadResumes ==
    /\ StopEnd(<<"unload", None>>)
    /\ UNCHANGED <<invite, view, user, pushes, unloads, history>>
-----------------------------------------------------------------------------
(* The user: stream_source of the camera, async_open_door of the lock      *)
(* (async_toggle_backlight takes the same steps and sends no code).        *)

\* The end of the task: the camera returns data.stream_url, the lock sends the
\* door code of the ring shown by now in the call active by now.
Finish(u) ==
    /\ user' = [user EXCEPT ![u] = Rest]
    /\ opened' = IF u = "unlock" /\ InDialog THEN opened \union {<<data, active>>} ELSE opened
    /\ UNCHANGED <<parked, pushes, unloads>>

\* async_wait_for_stream on the invite pending by now.
Await(u) ==
    IF pending # None /\ pending \notin ready
      THEN /\ user' = [user EXCEPT ![u] = [pc |-> "waiting", ring |-> pending]]
           /\ UNCHANGED <<pushes, unloads, history>>
      ELSE Finish(u)

Taps(u) == Loaded /\ user[u] = Rest /\ data # None

ToStart == pending # None /\ pending \notin started

\* No invite, or its call was started before.
Tap(u) ==
    /\ Taps(u)
    /\ ~ToStart
    /\ Await(u)
    /\ UNCHANGED <<cmVars, invite, view>>

\* async_ensure_call_started: start_call refuses and its None is recorded.
TapRefused(u) ==
    /\ Taps(u)
    /\ ToStart
    /\ ~CanStart
    /\ sipCall' = None
    /\ Await(u)
    /\ UNCHANGED <<cmVars, pending, started, ready, view>>

\* The invite is marked before the await.  Mutant: it is not.
MarkedLater(r) == started
Marked(r) == started \union {r}

TapStarts(u) ==
    /\ Taps(u)
    /\ ToStart
    /\ StartConnect(pending)
    /\ started' = Marked(pending)
    /\ user' = [user EXCEPT ![u] = [pc |-> "starting", ring |-> pending]]
    /\ UNCHANGED <<pending, ready, sipCall, view, pushes, unloads, history>>

\* start_call returns, with the id of its call or None, or raises.
StartFails(u) ==
    LET r == user[u].ring IN
    /\ user[u].pc = "starting"
    /\ \/ ConnectFail(r) /\ sipCall' = None
       \/ ConnectRaises(r) /\ UNCHANGED sipCall
    /\ started' = started \ {r}
    /\ Await(u)
    /\ UNCHANGED <<pending, ready, view>>

StartReturns(u) ==
    LET r == user[u].ring IN
    /\ user[u].pc = "starting"
    /\ ConnectOk(r)
    /\ sipCall' = r
    /\ user' = [user EXCEPT ![u].pc = "answering"]
    /\ UNCHANGED <<pending, started, ready, view, pushes, unloads, history>>

\* The REST /answer request returns or fails.
Answered(u) ==
    /\ user[u].pc = "answering"
    /\ Await(u)
    /\ UNCHANGED <<cmVars, invite, view>>

\* stream_ready is set or the wait times out.
WaitEnds(u) ==
    /\ user[u].pc = "waiting"
    /\ Finish(u)
    /\ UNCHANGED <<cmVars, invite, view>>
-----------------------------------------------------------------------------
(* Steps of the manager that call the coordinator back, and those that do  *)
(* not.                                                                    *)

Publish(c) == SpawnPublish(c) /\ OnCallActive(c)

GraceOver(c) ==
    \/ GraceExpired(c) /\ ~Reaping /\ OnCallEnded(c)
    \/ GraceEnd(c) /\ OnCallEnded(c)

\* What the SIP server and the network do to a call.
Peer(c) ==
    /\ Terminated(c) \/ Established(c)
    /\ UNCHANGED <<invite, view, user, pushes, unloads, history>>

Internal(c) ==
    /\ \/ MaxExpired(c)
       \/ GraceSuperseded(c)
       \/ GraceExpired(c) /\ Reaping
       \/ PrewarmReaped
       \/ SpawnStart(c)
       \/ SpawnWithoutSocket(c)
       \/ SpawnFfmpeg(c)
       \/ SpawnFail(c)
       \/ SpawnInvalidated(c)
       \/ SpawnSuperseded(c)
       \/ SpawnUnwind(c)
    /\ UNCHANGED <<invite, view, user, pushes, unloads, history>>

User(u) == Tap(u) \/ TapRefused(u) \/ TapStarts(u)

UserResumes(u) == StartFails(u) \/ StartReturns(u) \/ Answered(u) \/ WaitEnds(u)

Handlers(r) ==
    Push(r) \/ PushAborts(r) \/ Cancel(r) \/ CancelIgnored(r) \/ CancelAborts(r)

Resume ==
    \/ \E r \in Calls : PushResumes(r) \/ CancelResumes(r)
    \/ \E t \in Tasks : HandlerStopsBridge(t)
    \/ UnloadResumes

Next ==
    \/ \E r \in Calls : Handlers(r)
    \/ Unload
    \/ Resume
    \/ \E u \in Users : User(u) \/ UserResumes(u)
    \/ \E c \in Calls : Peer(c) \/ Publish(c) \/ GraceOver(c) \/ Internal(c)

Spec == Init /\ [][Next]_vars

\* The event loop runs what is ready, timers expire, a process that is killed
\* exits, a close() completes, and the hook of an unloaded entry runs.  Nothing
\* is assumed of the server, the pushes or the user.
Fairness ==
    /\ \A c \in Calls :
        /\ WF_vars(Publish(c) \/ GraceOver(c) \/ Internal(c))
        /\ WF_vars(dialog[c] = "closing" /\ Peer(c))
    /\ WF_vars(Resume)
    /\ WF_vars(unloads = 1 /\ Unload)

FairSpec == Spec /\ Fairness
-----------------------------------------------------------------------------
(* Properties.                                                             *)

\* Every dialog that is up is the one the manager holds, so hang_up, the
\* door command and the timers all reach it.
ManagerTracksDialog ==
    \A c \in Calls : dialog[c] \in Live => client = c /\ active = c

Promise(c) == INSTANCE Dialog WITH stage <- StageOf(c), ended <- EndedOf(c)

\* The manager and the coordinator keep to the dialog SipClient implements,
\* whatever taps, retries, pushes and teardowns overlap: a ring is dialled
\* again only after its connection failed, never once its call was placed.
CallsKeepPromise ==
    /\ \A c \in Calls : Promise(c)!Init
    /\ [][\A c \in Calls : [Promise(c)!Next]_(Promise(c)!vars)]_vars

Contract == INSTANCE Bridge WITH
    stage <- BridgeStage, calls <- BridgeCalls[BridgeStage], ffmpeg <- running # None

\* The manager expects of the bridge what AudioBridge implements, and keeps to
\* its turns: no start begins while another start, or a handler's stop, is in
\* flight, and none takes the ffmpeg of another call away.
BridgeKeepsPromise == Contract!Spec

\* "One AudioBridge + one TCP SIP client per active Intratone call": never two
\* dialogs at a time.
OneDialog == Cardinality({c \in Calls : dialog[c] \in Live}) <= 1

\* The ring on display can be answered: until its call is placed or the ring is
\* cancelled, its invite stays pending, whatever becomes of earlier calls.  (Not
\* of a ring that came while a bridge past its grace was stopping: see parked.)
RingStaysAnswerable ==
    data \in parked /\ dialog[data] = "idle" => pending = data

\* The guard of start_call never refuses the ring on display: a push ends the
\* call before it.
RingNotBlocked == [][\A u \in Users : ~TapRefused(u)]_vars

\* A door code is sent only in the call of the ring it came with.
DoorCodeMatchesCall == \A o \in opened : o[1] = o[2]

\* The bridge of a call receives on the port that call offered.
BridgeUsesOfferedPort == \A c \in Calls : sockOf[c] \in {None, c}

\* No ffmpeg outlives the manager's interest in it: the bridge refers to every
\* one, and to that of the active call, of a start that will unwind, or of a
\* manager whose unload hook is still to run.
BridgeReaped ==
    /\ orphans = {}
    /\ running # None => running = active \/ spawn[running] # "none" \/ unloads = 1

\* A URL on display is that of the ring on display, and it is served: the bridge
\* refers to the ffmpeg of that call until its teardown begins.
StreamServed ==
    streamUrl # None =>
        /\ streamUrl = data
        /\ \/ running = streamUrl
           \/ grace[streamUrl] = "stopping" \/ \E t \in Tasks : frame[t] # Idle
           \/ unloads > 0

\* A ring is dialled by one task, however often the user taps.
DialledOnce ==
    \A u, v \in Users :
        user[u].pc = "starting" /\ user[v].pc = "starting" /\ user[u].ring = user[v].ring => u = v

\* async_stop leaves no call, no dialog and no bound socket behind.
StopIsFinal ==
    manager = "stopped" =>
        /\ active = None /\ client = None /\ sockets = None
        /\ \A c \in Calls : dialog[c] \notin Live

\* Every call that is placed ends, also when the server never sends a BYE, and
\* the manager does not stay busy with it: the next ring gets its turn.
CallSettles ==
    \A c \in Calls :
        (dialog[c] \in Live \/ active = c) ~> (dialog[c] \notin Live /\ active # c)

\* After an unload every ffmpeg is reaped, also one whose start the stop missed.
StopReaps ==
    manager = "stopped" ~> [](running = None /\ \A c \in Calls : spawn[c] = "none")
=============================================================================
