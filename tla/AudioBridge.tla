---------------------------- MODULE AudioBridge ----------------------------
(***************************************************************************)
(* AudioBridge (audio_bridge.py): the ffmpeg process and the RTP endpoints *)
(* of one call, started and stopped by tasks that interleave at every      *)
(* await.  A stop bumps the generation; a start re-checks it after each of *)
(* its awaits and unwinds what it built when a stop has passed.            *)
(*                                                                         *)
(* A start is named by its call, and so is everything it builds.  The      *)
(* ffmpeg prewarmed for a call and the one its start spawns are different  *)
(* processes.                                                              *)
(***************************************************************************)
EXTENDS Integers, FiniteSets

CONSTANTS
    NumCalls, \* bound: calls, hence starts
    NumStops, \* bound: runs of stop()
    Overlap   \* what a start may overlap: "prewarm", a stop that awaits the
              \* prewarmed ffmpeg; "starts", a start in flight

ASSUME CallsAssumption == NumCalls \in Nat \ {0}
ASSUME StopsAssumption == NumStops \in Nat
ASSUME OverlapAssumption == Overlap \in SUBSET {"prewarm", "starts"}

Calls == 1 .. NumCalls
Stops == 1 .. NumStops
None == 0
Ref == Calls \union {None}
Media == {"audio", "video", "rtcp"}
Procs == {"prewarmed", "spawned"} \X Calls
NoProc == <<"none", None>>

VARIABLES
    generation,   \* _generation
    prewarm,      \* _prewarm_task, named by the process it spawns
    cleanup,      \* _prewarm_cleanup_task, likewise
    cleaning,     \* the _cleanup_prewarm tasks that have not finished
    process,      \* _process
    pushReady,    \* _ffmpeg_push_ready, named by the start that made it
    videoRtp,     \* _video_rtp, the protocol
    endpoint,     \* _rtp_transport, _video_rtp_transport, _video_rtcp_transport
    proc,         \* the ffmpeg processes
    open,         \* the endpoints that are open
    start,        \* each start(): where it is suspended, and its locals
    stop          \* each stop()

attributes == <<prewarm, cleanup, process, pushReady, videoRtp, endpoint>>
vars == <<generation, attributes, cleaning, proc, open, start, stop>>

\* Where a start is suspended: on the prewarm task, on the end of a prewarmed
\* ffmpeg it cannot use, on the spawn, on an endpoint, on ffmpeg's first push,
\* or on the end of the ffmpeg it unwinds.
Wrapping == Media
InFlight == {"prewarm", "discard", "spawn", "push", "unwind"} \union Wrapping

TypeOK ==
    /\ generation \in 0 .. NumStops
    /\ prewarm \in Procs \union {NoProc}
    /\ cleanup \in Procs \union {NoProc}
    /\ cleaning \in SUBSET Procs
    /\ process \in Procs \union {NoProc}
    /\ pushReady \in Ref
    /\ videoRtp \in Ref
    /\ endpoint \in [Media -> Ref]
    /\ proc \in [Procs -> {"none", "spawning", "failed", "alive", "terminated", "killed", "gone"}]
    /\ open \in SUBSET (Calls \X Media)
    /\ start \in [Calls -> [pc : {"idle", "returned", "failed"} \union InFlight,
                            video : {"on", "off"},
                            generation : 0 .. NumStops,
                            held : Procs \union {NoProc}]]
    /\ stop \in [Stops -> [pc : {"idle", "prewarm", "discard", "cleanup", "reap", "done"},
                           held : Procs \union {NoProc}]]

Init ==
    /\ generation = 0
    /\ prewarm = NoProc
    /\ cleanup = NoProc
    /\ cleaning = {}
    /\ process = NoProc
    /\ pushReady = None
    /\ videoRtp = None
    /\ endpoint = [m \in Media |-> None]
    /\ proc = [p \in Procs |-> "none"]
    /\ open = {}
    /\ start = [c \in Calls |-> [pc |-> "idle", video |-> "off", generation |-> 0, held |-> NoProc]]
    /\ stop = [s \in Stops |-> [pc |-> "idle", held |-> NoProc]]
-----------------------------------------------------------------------------
(* ffmpeg.                                                                 *)

Runs(p) == p \in Procs /\ proc[p] \in {"alive", "terminated", "killed"}
IsRunning == Runs(process)

\* process.kill(): what is killed will exit.
Killed(p) ==
    IF Runs(p) THEN [proc EXCEPT ![p] = "killed"] ELSE proc

\* create_subprocess_exec completes or raises.
SpawnCompletes(p) ==
    /\ proc[p] = "spawning"
    /\ \E outcome \in {"alive", "failed"} : proc' = [proc EXCEPT ![p] = outcome]
    /\ UNCHANGED <<generation, attributes, cleaning, open, start, stop>>

\* ffmpeg exits: by itself, on SIGTERM (it may ignore that) or killed.
Exits(p) ==
    /\ Runs(p)
    /\ proc' = [proc EXCEPT ![p] = "gone"]
    /\ UNCHANGED <<generation, attributes, cleaning, open, start, stop>>
-----------------------------------------------------------------------------
(* prewarm, cancel_prewarm and _cleanup_prewarm.                           *)

Starting == {c \in Calls : start[c].pc \in InFlight}

\* The manager's use of the bridge, unless calls race: the start of a call has
\* ended, and a stop has passed it, before the next call begins.
\* Mutant: the start is not awaited.
TurnAfterStop ==
    \A c \in Calls : start[c].pc = "idle" \/ start[c].generation # generation

Turn ==
    /\ \/ "starts" \in Overlap
       \/ Starting = {} /\ \A c \in Calls : start[c].pc = "idle" \/ start[c].generation # generation
    /\ "prewarm" \in Overlap \/ \A s \in Stops : stop[s].pc \notin {"prewarm", "discard", "cleanup"}

Prewarm(c) ==
    LET p == <<"prewarmed", c>> IN
    /\ Turn
    /\ start[c].pc = "idle"
    /\ proc[p] = "none"
    /\ ~IsRunning
    /\ prewarm = NoProc
    /\ prewarm' = p
    /\ proc' = [proc EXCEPT ![p] = "spawning"]
    /\ UNCHANGED <<generation, cleanup, cleaning, process, pushReady, videoRtp, endpoint, open, start, stop>>

\* Mutant: the reference is dropped and nothing cleans up.
ForgetPrewarm == {}
CleanPrewarm == {prewarm}

CancelPrewarm ==
    /\ prewarm # NoProc
    /\ prewarm' = NoProc
    /\ cleanup' = prewarm
    /\ cleaning' = cleaning \union CleanPrewarm
    /\ UNCHANGED <<generation, process, pushReady, videoRtp, endpoint, proc, open, start, stop>>

CleanupKills(p) ==
    /\ p \in cleaning
    /\ proc[p] \in {"alive", "terminated"}
    /\ proc' = Killed(p)
    /\ UNCHANGED <<generation, attributes, cleaning, open, start, stop>>

CleanupEnds(p) ==
    /\ p \in cleaning
    /\ proc[p] \in {"failed", "gone"}
    /\ cleaning' = cleaning \ {p}
    /\ UNCHANGED <<generation, attributes, proc, open, start, stop>>
-----------------------------------------------------------------------------
(* start.  It is entered with a record s of its locals.                    *)

At(c, s, pc, held) == start' = [start EXCEPT ![c] = [s EXCEPT !.pc = pc, !.held = held]]

\* The checkpoint.  Mutant: it is left out.
NeverPassed(s) == FALSE
Passed(s) == s.generation # generation

\* _unwind_partial_start closes whatever the bridge refers to, here the
\* process p and the endpoints with those just wrapped by c, and waits for the
\* end of that ffmpeg.
Unwind(c, s, p, wrapped, procs) ==
    /\ process' = NoProc
    /\ videoRtp' = None
    /\ endpoint' = [m \in Media |-> None]
    /\ open' = open \ {<<endpoint[m], m>> : m \in Media \ wrapped}
    /\ IF Runs(p)
         THEN proc' = [procs EXCEPT ![p] = "killed"] /\ At(c, s, "unwind", p) /\ UNCHANGED pushReady
         ELSE proc' = procs /\ At(c, s, "failed", NoProc) /\ pushReady' = None

Unwound(c) ==
    /\ start[c].pc = "unwind"
    /\ proc[start[c].held] = "gone"
    /\ At(c, start[c], "failed", NoProc)
    /\ pushReady' = None
    /\ UNCHANGED <<generation, prewarm, cleanup, cleaning, process, videoRtp, endpoint, proc, open, stop>>

\* The ffmpeg p is assigned; on to the audio endpoint unless a stop has passed.
Assign(c, s, p) ==
    IF Passed(s)
      THEN Unwind(c, s, p, {}, proc)
      ELSE /\ process' = p
           /\ At(c, s, "audio", p)
           /\ UNCHANGED <<videoRtp, endpoint, open, proc>>

\* ffmpeg is spawned on demand.
SpawnNow(c, s) ==
    LET p == <<"spawned", c>> IN
    /\ pushReady' = c
    /\ proc' = [proc EXCEPT ![p] = "spawning"]
    /\ At(c, s, "spawn", p)
    /\ UNCHANGED <<process, videoRtp, endpoint, open>>

\* The prewarm task has ended: the ffmpeg is adopted, or discarded for the
\* server rejected our video, or there is none.
Consume(c, s, p) ==
    \/ Runs(p) /\ s.video = "on" /\ Assign(c, s, p) /\ (Passed(s) \/ pushReady' = c)
    \/ /\ Runs(p) /\ s.video = "off"
       /\ proc' = Killed(p)
       /\ At(c, s, "discard", p)
       /\ UNCHANGED <<process, pushReady, videoRtp, endpoint, open>>
    \/ ~Runs(p) /\ SpawnNow(c, s)

\* Idempotent while an ffmpeg runs.
StartReturnsUrl(c) ==
    /\ start[c].pc = "idle"
    /\ IsRunning
    /\ At(c, [start[c] EXCEPT !.generation = generation], "returned", NoProc)
    /\ UNCHANGED <<generation, attributes, cleaning, proc, open, stop>>

Start(c) ==
    /\ Turn
    /\ start[c].pc = "idle"
    /\ ~IsRunning
    /\ \E video \in {"on", "off"} :
         LET s == [start[c] EXCEPT !.video = video, !.generation = generation] IN
         IF prewarm # NoProc /\ proc[prewarm] = "spawning"
           THEN /\ At(c, s, "prewarm", prewarm)
                /\ UNCHANGED <<process, pushReady, videoRtp, endpoint, proc, open>>
           ELSE Consume(c, s, prewarm)
    /\ prewarm' = NoProc
    /\ UNCHANGED <<generation, cleanup, cleaning, stop>>

outside == <<generation, prewarm, cleanup, cleaning, stop>>

StartConsumes(c) ==
    /\ start[c].pc = "prewarm"
    /\ proc[start[c].held] # "spawning"
    /\ Consume(c, start[c], start[c].held)
    /\ UNCHANGED outside

StartDiscarded(c) ==
    /\ start[c].pc = "discard"
    /\ proc[start[c].held] = "gone"
    /\ SpawnNow(c, start[c])
    /\ UNCHANGED outside

\* create_subprocess_exec raises: nothing is unwound.
StartRaises(c) ==
    /\ start[c].pc = "spawn"
    /\ proc[start[c].held] = "failed"
    /\ At(c, start[c], "failed", NoProc)
    /\ UNCHANGED <<generation, attributes, cleaning, proc, open, stop>>

StartSpawned(c) ==
    /\ start[c].pc = "spawn"
    /\ proc[start[c].held] \notin {"spawning", "failed"}
    /\ Assign(c, start[c], start[c].held)
    /\ (~Passed(start[c]) => UNCHANGED pushReady)
    /\ UNCHANGED outside

\* Wrapping a socket.  An OSError unwinds, but for RTCP, which is optional.
WrapFails(c) ==
    /\ start[c].pc \in {"audio", "video"}
    /\ Unwind(c, start[c], process, {}, proc)
    /\ UNCHANGED outside

\* What follows the endpoint m, if no stop has passed: without video nothing
\* but the push, and no RTCP when a stop took the video protocol.
After(s, m) ==
    CASE m = "audio" -> IF s.video = "on" THEN "video" ELSE "push"
      [] m = "video" -> IF videoRtp # None THEN "rtcp" ELSE "push"
      [] m = "rtcp" -> "push"

\* The wait for the push uses _ffmpeg_push_ready, which is None after a stop:
\* then it raises and unwinds nothing.
Proceed(c, s, next) ==
    IF next = "push" /\ pushReady = None
      THEN At(c, s, "failed", NoProc)
      ELSE At(c, s, next, s.held)

Wrapped(c, m) ==
    LET s == start[c]
        checked == ~(m = "video" /\ videoRtp # None)
    IN
    /\ s.pc = m
    /\ IF checked /\ Passed(s)
         THEN Unwind(c, s, process, {m}, proc)
         ELSE /\ endpoint' = [endpoint EXCEPT ![m] = c]
              /\ open' = open \union {<<c, m>>}
              /\ videoRtp' = IF After(s, m) = "video" THEN c ELSE videoRtp
              /\ Proceed(c, s, After(s, m))
              /\ UNCHANGED <<process, pushReady, proc>>
    /\ UNCHANGED outside

RtcpFails(c) ==
    LET s == start[c] IN
    /\ s.pc = "rtcp"
    /\ IF Passed(s)
         THEN Unwind(c, s, process, {}, proc)
         ELSE /\ Proceed(c, s, "push")
              /\ UNCHANGED <<process, pushReady, videoRtp, endpoint, proc, open>>
    /\ UNCHANGED outside

\* ffmpeg has pushed, or the wait for that timed out, or a stop ended it.
StartEnds(c) ==
    LET s == start[c] IN
    /\ s.pc = "push"
    /\ IF Passed(s)
         THEN Unwind(c, s, process, {}, proc)
         ELSE /\ At(c, s, "returned", NoProc)
              /\ UNCHANGED <<process, pushReady, videoRtp, endpoint, proc, open>>
    /\ UNCHANGED outside

\* The manager cancels the start at an await.  The prewarm task it awaits is
\* put back; asyncio kills an ffmpeg whose spawn is cancelled.
\* Mutant: it is not put back.
LosePrewarm(s) == prewarm
PutBack(s) == IF s.pc = "prewarm" THEN s.held ELSE prewarm

CancelStart(c) ==
    LET s == start[c] IN
    /\ s.pc \in InFlight \ {"unwind"}
    /\ prewarm' = PutBack(s)
    /\ Unwind(c, s, process, {}, IF s.pc = "spawn" THEN [proc EXCEPT ![s.held] = "gone"] ELSE proc)
    /\ UNCHANGED <<generation, cleanup, cleaning, stop>>
-----------------------------------------------------------------------------
(* stop.                                                                   *)

\* Mutant: the starts in flight stay valid.
SameGeneration == generation
NextGeneration == generation + 1

StopAt(s, pc, held) == stop' = [stop EXCEPT ![s] = [pc |-> pc, held |-> held]]

\* The endpoints still open.
Closed == open \ {<<endpoint[m], m>> : m \in Media}

\* Everything the bridge refers to is dropped; ffmpeg gets a SIGTERM.
Sweep(s) ==
    /\ process' = NoProc
    /\ pushReady' = None
    /\ videoRtp' = None
    /\ endpoint' = [m \in Media |-> None]
    /\ open' = Closed
    /\ proc' = IF process # NoProc /\ proc[process] = "alive"
                 THEN [proc EXCEPT ![process] = "terminated"] ELSE proc
    /\ IF IsRunning THEN StopAt(s, "reap", process) ELSE StopAt(s, "done", NoProc)

\* The prewarm is dealt with: wait for its cleanup, or sweep.
AfterPrewarm(s) ==
    /\ cleanup' = NoProc
    /\ IF cleanup \in cleaning
         THEN /\ StopAt(s, "cleanup", cleanup)
              /\ UNCHANGED <<process, pushReady, videoRtp, endpoint, open, proc>>
         ELSE Sweep(s)

\* The spawn of the prewarmed ffmpeg p has ended: it is killed.
Discard(s, p) ==
    IF Runs(p)
      THEN /\ proc' = Killed(p)
           /\ StopAt(s, "discard", p)
           /\ UNCHANGED <<cleanup, process, pushReady, videoRtp, endpoint, open>>
      ELSE AfterPrewarm(s)

Stop(s) ==
    /\ stop[s].pc = "idle"
    /\ generation' = NextGeneration
    /\ prewarm' = NoProc
    /\ IF prewarm # NoProc /\ proc[prewarm] = "spawning"
         THEN /\ StopAt(s, "prewarm", prewarm)
              /\ UNCHANGED <<cleanup, process, pushReady, videoRtp, endpoint, open, proc>>
         ELSE Discard(s, prewarm)
    /\ UNCHANGED <<cleaning, start>>

StopDiscards(s) ==
    /\ stop[s].pc = "prewarm"
    /\ proc[stop[s].held] # "spawning"
    /\ Discard(s, stop[s].held)
    /\ UNCHANGED <<generation, prewarm, cleaning, start>>

StopDiscarded(s) ==
    /\ stop[s].pc = "discard"
    /\ proc[stop[s].held] = "gone"
    /\ AfterPrewarm(s)
    /\ UNCHANGED <<generation, prewarm, cleaning, start>>

StopSweeps(s) ==
    /\ stop[s].pc = "cleanup"
    /\ stop[s].held \notin cleaning
    /\ Sweep(s)
    /\ UNCHANGED <<generation, prewarm, cleanup, cleaning, start>>

\* ffmpeg ignored the SIGTERM for 3 seconds.  Mutant: it is left at that.
LeaveTerminated(p) == proc
AfterTimeout(p) == Killed(p)

StopKills(s) ==
    /\ stop[s].pc = "reap"
    /\ proc[stop[s].held] = "terminated"
    /\ proc' = AfterTimeout(stop[s].held)
    /\ UNCHANGED <<generation, attributes, cleaning, open, start, stop>>

StopEnds(s) ==
    /\ stop[s].pc = "reap"
    /\ proc[stop[s].held] = "gone"
    /\ StopAt(s, "done", NoProc)
    /\ UNCHANGED <<generation, attributes, cleaning, open, proc, start>>
-----------------------------------------------------------------------------
StartSteps(c) ==
    \/ StartConsumes(c) \/ StartDiscarded(c) \/ StartRaises(c) \/ StartSpawned(c)
    \/ WrapFails(c) \/ RtcpFails(c) \/ StartEnds(c) \/ Unwound(c)
    \/ \E m \in Media : Wrapped(c, m)

StopSteps(s) ==
    StopDiscards(s) \/ StopDiscarded(s) \/ StopSweeps(s) \/ StopKills(s) \/ StopEnds(s)

ProcSteps(p) == SpawnCompletes(p) \/ CleanupKills(p) \/ CleanupEnds(p)

Manager ==
    \/ \E c \in Calls : Prewarm(c) \/ StartReturnsUrl(c) \/ Start(c) \/ CancelStart(c)
    \/ CancelPrewarm
    \/ \E s \in Stops : Stop(s)

Next ==
    \/ Manager
    \/ \E c \in Calls : StartSteps(c)
    \/ \E s \in Stops : StopSteps(s)
    \/ \E p \in Procs : ProcSteps(p) \/ Exits(p)

Spec == Init /\ [][Next]_vars

\* The event loop runs its tasks, timeouts expire, a spawn completes, and an
\* ffmpeg that was killed exits.  That it heeds a SIGTERM is not assumed.
Fairness ==
    /\ \A c \in Calls : WF_vars(StartSteps(c))
    /\ \A s \in Stops : WF_vars(StopSteps(s))
    /\ \A p \in Procs :
        /\ WF_vars(ProcSteps(p))
        /\ WF_vars(proc[p] = "killed" /\ Exits(p))

FairSpec == Spec /\ Fairness
-----------------------------------------------------------------------------
(* Properties.                                                             *)

\* A live ffmpeg that the bridge refers to, or a task that waits for it does.
ProcessHeld ==
    \A p \in Procs : proc[p] = "alive" =>
        \/ p \in {process, prewarm} \union cleaning
        \/ \E c \in Calls : start[c].pc \in {"prewarm", "spawn"} /\ start[c].held = p
        \/ \E s \in Stops : stop[s].pc = "prewarm" /\ stop[s].held = p

EndpointHeld == \A c \in Calls, m \in Media : <<c, m>> \in open => endpoint[m] = c

\* No live ffmpeg and no open endpoint is ever out of everybody's reach,
\* wherever starts are cancelled and stops arrive: somebody will reap it.
NothingLost == ProcessHeld /\ EndpointHeld

\* "Its next generation checkpoint unwinds whatever it created": a start no stop
\* has passed still has what it built, its ffmpeg and its push event.
ValidStartIntact ==
    \A c \in Calls :
        start[c].pc \in Media \union {"push"} /\ ~Passed(start[c]) =>
            process = start[c].held /\ pushReady = c

\* When starts and stops have ended, the bridge holds an ffmpeg or an endpoint
\* only for a call whose start returned its URL after the last stop.
StoppedIsEmpty ==
    /\ Starting = {}
    /\ \A s \in Stops : stop[s].pc \in {"idle", "done"}
    /\ process # NoProc \/ open # {}
    => \E c \in Calls : start[c].pc = "returned" /\ ~Passed(start[c])

\* What a start unwinds is its own: "whatever is non-None on self here belongs
\* to the current start() invocation".
UnwindsItsOwn ==
    [][\A c \in Calls :
        start[c].pc \in Media \union {"push"} /\ start'[c].pc \in {"unwind", "failed"} =>
            process \in {NoProc, start[c].held} /\ \A m \in Media : endpoint[m] \in {None, c}]_vars

\* What the bridge looks like to the manager: the start no stop has passed, the
\* stops that have still to sweep, and the call whose URL is served.
Valid == {c \in Starting : start[c].pc # "unwind" /\ ~Passed(start[c])}
Sweeping == {s \in Stops : stop[s].pc \in {"prewarm", "discard", "cleanup"}}
Served == {c \in Calls : start[c].pc = "returned" /\ ~Passed(start[c]) /\ endpoint["audio"] = c}

Stage ==
    IF Valid # {} THEN "starting"
    ELSE IF Starting \union Sweeping # {} THEN "ending"
    ELSE IF process = NoProc /\ \A m \in Media : endpoint[m] = None THEN "empty"
    ELSE "serving"

CallsOf == [starting |-> Valid, serving |-> Served, ending |-> {}, empty |-> {}]

Promise == INSTANCE Bridge WITH stage <- Stage, calls <- CallsOf[Stage], ffmpeg <- process # NoProc

\* The bridge keeps what CallManager relies on, wherever its starts fail, are
\* cancelled or meet a stop: a URL that was returned is served until a stop, by
\* an ffmpeg and an endpoint of its call, and nothing is left of other starts.
ImplementsBridge == Promise!Spec

\* Every start returns or fails and every stop is done, also with an ffmpeg that
\* ignores SIGTERM: the bridge comes to rest again and again.
TasksEnd == []<>(Starting = {} /\ \A s \in Stops : stop[s].pc \in {"idle", "done"})
=============================================================================
