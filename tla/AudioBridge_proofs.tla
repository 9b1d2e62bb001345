------------------------- MODULE AudioBridge_proofs -------------------------
(***************************************************************************)
(* Proofs about AudioBridge: its type, and that no task waits in vain, for *)
(* any overlap of starts and stops; and, when the manager starts a call    *)
(* only after a stop has passed the one before, that nothing is lost, that *)
(* a valid start keeps what it built, that a stopped bridge is empty, and  *)
(* that it keeps the contract of Bridge.                                   *)
(***************************************************************************)
EXTENDS AudioBridge, FiniteSetTheorems, TLAPS

StartRecord == [pc : {"idle", "returned", "failed"} \union InFlight,
                video : {"on", "off"},
                generation : 0 .. NumStops,
                held : Procs \union {NoProc}]
StopRecord == [pc : {"idle", "prewarm", "discard", "cleanup", "reap", "done"},
               held : Procs \union {NoProc}]
ProcStates == [Procs -> {"none", "spawning", "failed", "alive", "terminated", "killed", "gone"}]

\* The types, in parts that change together.
TasksType == start \in [Calls -> StartRecord] /\ stop \in [Stops -> StopRecord]
QueueType == prewarm \in Procs \union {NoProc} /\ cleanup \in Procs \union {NoProc} /\ cleaning \in SUBSET Procs
BuiltType ==
    /\ process \in Procs \union {NoProc}
    /\ pushReady \in Ref
    /\ videoRtp \in Ref
    /\ endpoint \in [Media -> Ref]
    /\ proc \in ProcStates
    /\ open \in SUBSET (Calls \X Media)

\* Each stop bumps the generation once.
Begun == {s \in Stops : stop[s].pc # "idle"}
GenerationInv == generation = Cardinality(Begun)

Types == TasksType /\ QueueType /\ BuiltType /\ GenerationInv

\* The condition of most theorems: no start overlaps another, nor a stop that
\* waits for a prewarmed ffmpeg.
Calm == Overlap = {}

Early == {"prewarm", "discard", "spawn"}
Built == Media \union {"push"}
Serves(c) == ~Passed(start[c]) /\ start[c].pc \in Built \union {"returned"}

\* One start at a time; a stop that has still to sweep has passed it.
TurnInv ==
    /\ \A c \in Calls : start[c].generation <= generation
    /\ \A c, d \in Starting : c = d
    /\ Sweeping # {} => \A c \in Starting : Passed(start[c])

\* Who holds a process, from its spawn on.
Held(p) ==
    \/ p \in {process, prewarm} \union cleaning
    \/ \E c \in Calls : start[c].pc \in {"prewarm", "spawn"} /\ start[c].held = p
    \/ \E s \in Stops : stop[s].pc = "prewarm" /\ stop[s].held = p

HeldInv == \A p \in Procs : proc[p] \in {"spawning", "alive"} => Held(p)

\* A start that has no ffmpeg yet finds no other in its place.
ProcInv ==
    /\ process # NoProc => proc[process] \notin {"none", "spawning", "failed"}
    /\ \A c \in Calls :
        /\ start[c].pc \in Early => ~IsRunning
        /\ start[c].pc \in {"idle", "prewarm", "discard"} => proc[<<"spawned", c>>] = "none"
        /\ start[c].pc = "prewarm" => prewarm = NoProc
        /\ start[c].pc = "spawn" => start[c].held \in Procs /\ proc[start[c].held] # "none"

\* What the bridge refers to during a start is that start's.
OwnInv ==
    \A c \in Starting :
        /\ videoRtp \in {None, c}
        /\ \A m \in Media :
            /\ endpoint[m] \in {None, c}
            /\ start[c].pc \in Early \union {"audio", "unwind"} => endpoint[m] = None
        /\ start[c].pc = "video" => endpoint["video"] = None /\ endpoint["rtcp"] = None
        /\ start[c].pc = "rtcp" => endpoint["rtcp"] = None
        /\ start[c].pc \in Built => process \in {NoProc, start[c].held}
        /\ start[c].pc \in Built /\ ~Passed(start[c]) => process = start[c].held
        /\ start[c].pc \in Built \union {"spawn"} /\ ~Passed(start[c]) => pushReady = c

\* Unless a stop has still to sweep, what the bridge refers to serves a call.
SweptInv ==
    Sweeping = {} =>
        /\ process # NoProc => \E c \in Calls : Serves(c)
        /\ videoRtp # None => Serves(videoRtp)
        /\ \A m \in Media : endpoint[m] # None => Serves(endpoint[m])

Inv == TurnInv /\ HeldInv /\ ProcInv /\ OwnInv /\ SweptInv /\ EndpointHeld
-----------------------------------------------------------------------------
(* Types.                                                                  *)

LEMMA TypesAreTypeOK == Types => TypeOK
<1> SUFFICES ASSUME Types PROVE TypeOK
  OBVIOUS
<1>1. IsFiniteSet(Stops) /\ Cardinality(Stops) = NumStops
  BY StopsAssumption, FS_Interval DEF Stops
<1>2. Begun \subseteq Stops
  BY DEF Begun
<1>3. generation \in 0 .. NumStops
  BY <1>1, <1>2, FS_Subset, FS_CardinalityType, StopsAssumption DEF Types, GenerationInv
<1> QED
  BY <1>3 DEF Types, TasksType, QueueType, BuiltType, TypeOK, StartRecord, StopRecord, ProcStates

LEMMA InitTypes == Init => Types
<1> SUFFICES ASSUME Init PROVE Types
  OBVIOUS
<1>1. Begun = {}
  BY DEF Init, Begun
<1>2. GenerationInv
  BY <1>1, FS_EmptySet DEF Init, GenerationInv
<1>3. TasksType
  BY StopsAssumption DEF Init, TasksType, StartRecord, StopRecord
<1>4. QueueType /\ BuiltType
  BY DEF Init, QueueType, BuiltType, ProcStates, Ref
<1> QED
  BY <1>2, <1>3, <1>4 DEF Types

\* A start goes on to another await.
LEMMA AtType ==
    ASSUME TasksType, NEW c \in Calls, NEW s \in StartRecord,
           NEW pc \in {"idle", "returned", "failed"} \union InFlight,
           NEW held \in Procs \union {NoProc},
           At(c, s, pc, held)
    PROVE  start' \in [Calls -> StartRecord]
  BY DEF At, TasksType, StartRecord

LEMMA AtIs ==
    ASSUME TasksType, NEW c \in Calls, NEW s \in StartRecord, NEW pc, NEW held, At(c, s, pc, held)
    PROVE  /\ start' = [start EXCEPT ![c] = start'[c]]
           /\ start'[c].pc = pc /\ start'[c].held = held /\ start'[c].generation = s.generation
  BY DEF At, TasksType, StartRecord

LEMMA KilledType ==
    ASSUME BuiltType, NEW p \in Procs \union {NoProc}
    PROVE  Killed(p) \in ProcStates
  BY DEF Killed, Runs, BuiltType, ProcStates

LEMMA UnwindType ==
    ASSUME TasksType, BuiltType, NEW c \in Calls, NEW s \in StartRecord,
           NEW p \in Procs \union {NoProc}, NEW wrapped \in SUBSET Media,
           NEW procs \in ProcStates, Unwind(c, s, p, wrapped, procs)
    PROVE  BuiltType' /\ start' \in [Calls -> StartRecord]
<1>1. /\ process' \in Procs \union {NoProc} /\ videoRtp' \in Ref
      /\ endpoint' \in [Media -> Ref] /\ open' \in SUBSET (Calls \X Media)
  BY DEF Unwind, BuiltType, Ref
<1>2. pushReady' \in Ref
  BY DEF Unwind, BuiltType, Ref
<1>3. proc' \in ProcStates
  BY DEF Unwind, Runs, ProcStates
<1>4. At(c, s, "unwind", p) \/ At(c, s, "failed", NoProc)
  BY DEF Unwind
<1>5. start' \in [Calls -> StartRecord]
  BY <1>4, AtType DEF InFlight
<1> QED
  BY <1>1, <1>2, <1>3, <1>5 DEF BuiltType

LEMMA SpawnNowType ==
    ASSUME TasksType, BuiltType, NEW c \in Calls, NEW s \in StartRecord, SpawnNow(c, s)
    PROVE  BuiltType' /\ start' \in [Calls -> StartRecord]
<1>1. <<"spawned", c>> \in Procs
  BY DEF Procs
<1>2. proc' \in ProcStates /\ pushReady' \in Ref
  BY <1>1 DEF SpawnNow, BuiltType, ProcStates, Ref
<1>3. BuiltType'
  BY <1>2 DEF SpawnNow, BuiltType
<1>4. At(c, s, "spawn", <<"spawned", c>>)
  BY DEF SpawnNow
<1>5. start' \in [Calls -> StartRecord]
  BY <1>1, <1>4, AtType DEF InFlight
<1> QED
  BY <1>3, <1>5

LEMMA AssignType ==
    ASSUME TasksType, BuiltType, NEW c \in Calls, NEW s \in StartRecord,
           NEW p \in Procs \union {NoProc}, Assign(c, s, p), Passed(s) \/ pushReady' \in Ref
    PROVE  BuiltType' /\ start' \in [Calls -> StartRecord]
<1>1. CASE Passed(s)
  BY <1>1, UnwindType DEF Assign, BuiltType
<1>2. CASE ~Passed(s)
  <2>1. At(c, s, "audio", p)
    BY <1>2 DEF Assign
  <2>2. start' \in [Calls -> StartRecord]
    BY <2>1, AtType DEF InFlight, Wrapping, Media
  <2>3. BuiltType'
    BY <1>2 DEF Assign, BuiltType
  <2> QED
    BY <2>2, <2>3
<1> QED
  BY <1>1, <1>2

LEMMA ConsumeType ==
    ASSUME TasksType, BuiltType, NEW c \in Calls, NEW s \in StartRecord,
           NEW p \in Procs \union {NoProc}, Consume(c, s, p)
    PROVE  BuiltType' /\ start' \in [Calls -> StartRecord]
<1>1. CASE Runs(p) /\ Assign(c, s, p) /\ (Passed(s) \/ pushReady' = c)
  BY <1>1, AssignType DEF Runs, Ref
<1>2. CASE /\ Runs(p)
           /\ proc' = Killed(p)
           /\ At(c, s, "discard", p)
           /\ UNCHANGED <<process, pushReady, videoRtp, endpoint, open>>
  <2>1. BuiltType'
    BY <1>2, KilledType DEF BuiltType
  <2> QED
    BY <1>2, <2>1, AtType DEF InFlight
<1>3. CASE SpawnNow(c, s)
  BY <1>3, SpawnNowType
<1> QED
  BY <1>1, <1>2, <1>3 DEF Consume

\* A stop goes on to another await.
Moves(s) == \E r \in StopRecord : r.pc # "idle" /\ stop' = [stop EXCEPT ![s] = r]

LEMMA StopAtMoves ==
    ASSUME NEW s \in Stops, NEW pc \in {"prewarm", "discard", "cleanup", "reap", "done"},
           NEW held \in Procs \union {NoProc}, StopAt(s, pc, held)
    PROVE  Moves(s)
<1> DEFINE r == [pc |-> pc, held |-> held]
<1>1. r \in StopRecord /\ r.pc # "idle" /\ stop' = [stop EXCEPT ![s] = r]
  BY DEF StopAt, StopRecord
<1> QED
  BY <1>1 DEF Moves

LEMMA SweepType ==
    ASSUME TasksType, BuiltType, NEW s \in Stops, Sweep(s)
    PROVE  BuiltType' /\ Moves(s)
<1>1. BuiltType'
  BY DEF Sweep, Closed, BuiltType, ProcStates, Ref
<1>2. Moves(s)
  BY StopAtMoves DEF Sweep, BuiltType
<1> QED
  BY <1>1, <1>2

LEMMA AfterPrewarmType ==
    ASSUME TasksType, QueueType, BuiltType, NEW s \in Stops, AfterPrewarm(s)
    PROVE  BuiltType' /\ Moves(s) /\ cleanup' \in Procs \union {NoProc}
<1>1. CASE Sweep(s)
  BY <1>1, SweepType DEF AfterPrewarm
<1>2. CASE /\ StopAt(s, "cleanup", cleanup)
           /\ UNCHANGED <<process, pushReady, videoRtp, endpoint, open, proc>>
  BY <1>2, StopAtMoves DEF AfterPrewarm, QueueType, BuiltType
<1> QED
  BY <1>1, <1>2 DEF AfterPrewarm

LEMMA DiscardType ==
    ASSUME TasksType, QueueType, BuiltType, NEW s \in Stops,
           NEW p \in Procs \union {NoProc}, Discard(s, p)
    PROVE  BuiltType' /\ Moves(s) /\ cleanup' \in Procs \union {NoProc}
<1>1. CASE Runs(p)
  <2>1. BuiltType'
    BY <1>1, KilledType DEF Discard, BuiltType
  <2>2. Moves(s)
    BY <1>1, StopAtMoves DEF Discard
  <2> QED
    BY <1>1, <2>1, <2>2 DEF Discard, QueueType
<1>2. CASE ~Runs(p)
  BY <1>2, AfterPrewarmType DEF Discard
<1> QED
  BY <1>1, <1>2

LEMMA MovesType ==
    ASSUME TasksType, NEW s \in Stops, Moves(s)
    PROVE  stop' \in [Stops -> StopRecord] /\ Begun' = Begun \union {s}
  BY DEF Moves, TasksType, Begun

\* What a stop does after its first await.
LEMMA StopStepTypes == ASSUME Types, NEW s \in Stops, StopSteps(s) PROVE Types'
<1>0. TasksType /\ QueueType /\ BuiltType /\ stop[s] \in StopRecord
  BY DEF Types, TasksType
<1>1. stop[s].pc # "idle" /\ stop[s].held \in Procs \union {NoProc}
  BY <1>0 DEF StopSteps, StopDiscards, StopDiscarded, StopSweeps, StopKills, StopEnds, StopRecord
<1>2. ASSUME BuiltType', Moves(s), cleanup' \in Procs \union {NoProc},
             UNCHANGED <<generation, prewarm, cleaning, start>>
      PROVE  Types'
  <2>1. Begun' = Begun /\ stop' \in [Stops -> StopRecord]
    BY <1>0, <1>1, <1>2, MovesType DEF Begun
  <2> QED
    BY <1>2, <2>1 DEF Types, TasksType, QueueType, GenerationInv
<1>3. CASE StopDiscards(s)
  BY <1>0, <1>1, <1>2, <1>3, DiscardType DEF StopDiscards
<1>4. CASE StopDiscarded(s)
  BY <1>0, <1>2, <1>4, AfterPrewarmType DEF StopDiscarded
<1>5. CASE StopSweeps(s)
  BY <1>0, <1>2, <1>5, SweepType DEF StopSweeps, QueueType
<1>6. CASE StopKills(s)
  <2>1. BuiltType'
    BY <1>0, <1>1, <1>6, KilledType DEF StopKills, AfterTimeout, attributes, BuiltType
  <2>2. Begun' = Begun
    BY <1>6 DEF StopKills, Begun
  <2> QED
    BY <1>6, <2>1, <2>2 DEF StopKills, attributes, Types, TasksType, QueueType, GenerationInv
<1>7. CASE StopEnds(s)
  <2>1. Moves(s)
    BY <1>7, StopAtMoves DEF StopEnds
  <2>2. BuiltType' /\ cleanup' \in Procs \union {NoProc}
    BY <1>0, <1>7 DEF StopEnds, attributes, BuiltType, QueueType
  <2> QED
    BY <1>2, <1>7, <2>1, <2>2 DEF StopEnds, attributes
<1> QED
  BY <1>3, <1>4, <1>5, <1>6, <1>7 DEF StopSteps

LEMMA StopTypes == ASSUME Types, NEW s \in Stops, Stop(s) PROVE Types'
<1>0. TasksType /\ QueueType /\ BuiltType
  BY DEF Types
<1>1. BuiltType' /\ Moves(s) /\ cleanup' \in Procs \union {NoProc}
  <2>1. CASE StopAt(s, "prewarm", prewarm) /\ UNCHANGED <<cleanup, process, pushReady, videoRtp, endpoint, open, proc>>
    BY <1>0, <2>1, StopAtMoves DEF QueueType, BuiltType
  <2>2. CASE Discard(s, prewarm)
    BY <1>0, <2>2, DiscardType DEF QueueType
  <2> QED
    BY <2>1, <2>2 DEF Stop
<1>2. stop' \in [Stops -> StopRecord] /\ Begun' = Begun \union {s} /\ s \notin Begun
  BY <1>0, <1>1, MovesType DEF Stop, Begun
<1>3. IsFiniteSet(Begun)
  <2>1. IsFiniteSet(Stops)
    BY StopsAssumption, FS_Interval DEF Stops
  <2> QED
    BY <2>1, FS_Subset DEF Begun
<1>4. Cardinality(Begun') = Cardinality(Begun) + 1
  BY <1>2, <1>3, FS_AddElement
<1>5. GenerationInv'
  BY <1>4 DEF Types, GenerationInv, Stop, NextGeneration
<1> QED
  BY <1>0, <1>1, <1>2, <1>5 DEF Stop, Types, TasksType, QueueType

\* A step of a start, at whatever await it is.
LEMMA StartKeepsTypes ==
    ASSUME Types, BuiltType', start' \in [Calls -> StartRecord],
           prewarm' \in Procs \union {NoProc}, UNCHANGED <<generation, cleanup, cleaning, stop>>
    PROVE  Types'
<1>1. Begun' = Begun
  BY DEF Begun
<1> QED
  BY <1>1 DEF Types, TasksType, QueueType, GenerationInv

LEMMA WrappedTypes == ASSUME Types, NEW c \in Calls, NEW m \in Media, Wrapped(c, m) PROVE Types'
<1>0. TasksType /\ QueueType /\ BuiltType /\ start[c] \in StartRecord
  BY DEF Types, TasksType
<1>1. CASE Unwind(c, start[c], process, {m}, proc)
  <2>1. BuiltType' /\ start' \in [Calls -> StartRecord]
    BY <1>0, <1>1, UnwindType DEF BuiltType
  <2> QED
    BY <1>0, <2>1, StartKeepsTypes DEF Wrapped, outside, QueueType
<1>2. CASE /\ endpoint' = [endpoint EXCEPT ![m] = c]
           /\ open' = open \union {<<c, m>>}
           /\ videoRtp' = IF After(start[c], m) = "video" THEN c ELSE videoRtp
           /\ Proceed(c, start[c], After(start[c], m))
           /\ UNCHANGED <<process, pushReady, proc>>
  <2>1. BuiltType'
    BY <1>0, <1>2 DEF BuiltType, Ref
  <2>2. After(start[c], m) \in InFlight
    BY DEF After, InFlight, Wrapping, Media
  <2>3. start' \in [Calls -> StartRecord]
    <3>1. start[c].held \in Procs \union {NoProc}
      BY <1>0 DEF StartRecord
    <3> QED
      BY <1>0, <1>2, <2>2, <3>1, AtType DEF Proceed
  <2> QED
    BY <1>0, <2>1, <2>3, StartKeepsTypes DEF Wrapped, outside, QueueType
<1> QED
  BY <1>1, <1>2 DEF Wrapped

LEMMA StartStepTypes == ASSUME Types, NEW c \in Calls, StartSteps(c) PROVE Types'
<1>0. TasksType /\ QueueType /\ BuiltType /\ start[c] \in StartRecord
  BY DEF Types, TasksType
<1>1. start[c].held \in Procs \union {NoProc}
  BY <1>0 DEF StartRecord
<1>2. process \in Procs \union {NoProc} /\ proc \in ProcStates
  BY <1>0 DEF BuiltType
<1>3. ASSUME BuiltType', start' \in [Calls -> StartRecord], UNCHANGED outside
      PROVE  Types'
  BY <1>0, <1>3, StartKeepsTypes DEF outside, QueueType
<1>4. CASE StartConsumes(c)
  BY <1>0, <1>1, <1>3, <1>4, ConsumeType DEF StartConsumes
<1>5. CASE StartDiscarded(c)
  BY <1>0, <1>3, <1>5, SpawnNowType DEF StartDiscarded
<1>6. CASE StartRaises(c)
  <2>1. start' \in [Calls -> StartRecord]
    BY <1>0, <1>6, AtType DEF StartRaises
  <2>2. BuiltType'
    BY <1>0, <1>6 DEF StartRaises, attributes, BuiltType
  <2> QED
    BY <1>3, <1>6, <2>1, <2>2 DEF StartRaises, outside, attributes
<1>7. CASE StartSpawned(c)
  <2>1. start[c].held \in Procs \union {NoProc} /\ (Passed(start[c]) \/ pushReady' \in Ref)
    BY <1>0, <1>1, <1>7 DEF StartSpawned, BuiltType
  <2> QED
    BY <1>0, <1>3, <1>7, <2>1, AssignType DEF StartSpawned
<1>8. CASE WrapFails(c)
  BY <1>0, <1>2, <1>3, <1>8, UnwindType DEF WrapFails
<1>9. CASE RtcpFails(c)
  <2>1. CASE Unwind(c, start[c], process, {}, proc)
    BY <1>0, <1>2, <1>3, <1>9, <2>1, UnwindType DEF RtcpFails
  <2>2. CASE Proceed(c, start[c], "push") /\ UNCHANGED <<process, pushReady, videoRtp, endpoint, proc, open>>
    <3>1. start' \in [Calls -> StartRecord]
      BY <1>0, <1>1, <2>2, AtType DEF Proceed, InFlight
    <3> QED
      BY <1>0, <1>3, <1>9, <2>2, <3>1 DEF RtcpFails, BuiltType
  <2> QED
    BY <1>9, <2>1, <2>2 DEF RtcpFails
<1>10. CASE StartEnds(c)
  <2>1. CASE Unwind(c, start[c], process, {}, proc)
    BY <1>0, <1>2, <1>3, <1>10, <2>1, UnwindType DEF StartEnds
  <2>2. CASE At(c, start[c], "returned", NoProc) /\ UNCHANGED <<process, pushReady, videoRtp, endpoint, proc, open>>
    <3>1. start' \in [Calls -> StartRecord]
      BY <1>0, <2>2, AtType
    <3> QED
      BY <1>0, <1>3, <1>10, <2>2, <3>1 DEF StartEnds, BuiltType
  <2> QED
    BY <1>10, <2>1, <2>2 DEF StartEnds
<1>11. CASE Unwound(c)
  <2>1. start' \in [Calls -> StartRecord]
    BY <1>0, <1>11, AtType DEF Unwound
  <2>2. BuiltType'
    BY <1>0, <1>11 DEF Unwound, BuiltType, Ref
  <2> QED
    BY <1>3, <1>11, <2>1, <2>2 DEF Unwound, outside
<1>12. CASE \E m \in Media : Wrapped(c, m)
  BY <1>12, WrappedTypes
<1> QED
  BY <1>4, <1>5, <1>6, <1>7, <1>8, <1>9, <1>10, <1>11, <1>12 DEF StartSteps

LEMMA ManagerTypes == ASSUME Types, Manager PROVE Types'
<1>0. TasksType /\ QueueType /\ BuiltType
  BY DEF Types
<1>1. ASSUME NEW c \in Calls, Prewarm(c) PROVE Types'
  <2>1. <<"prewarmed", c>> \in Procs
    BY DEF Procs
  <2>2. BuiltType'
    BY <1>0, <1>1, <2>1 DEF Prewarm, BuiltType, ProcStates
  <2> QED
    BY <1>0, <1>1, <2>1, <2>2, StartKeepsTypes DEF Prewarm, TasksType
<1>2. ASSUME NEW c \in Calls, StartReturnsUrl(c) PROVE Types'
  <2> DEFINE s == [start[c] EXCEPT !.generation = generation]
  <2>1. s \in StartRecord
    BY <1>0, TypesAreTypeOK DEF TasksType, StartRecord, TypeOK
  <2>2. start' \in [Calls -> StartRecord]
    BY <1>0, <1>2, <2>1, AtType DEF StartReturnsUrl
  <2> QED
    BY <1>0, <1>2, <2>2, StartKeepsTypes DEF StartReturnsUrl, attributes, QueueType, BuiltType
<1>3. ASSUME NEW c \in Calls, Start(c) PROVE Types'
  <2>1. PICK video \in {"on", "off"} :
          LET s == [start[c] EXCEPT !.video = video, !.generation = generation] IN
          \/ At(c, s, "prewarm", prewarm) /\ UNCHANGED <<process, pushReady, videoRtp, endpoint, proc, open>>
          \/ Consume(c, s, prewarm)
    BY <1>3 DEF Start
  <2> DEFINE s == [start[c] EXCEPT !.video = video, !.generation = generation]
  <2>2. s \in StartRecord
    BY <1>0, TypesAreTypeOK DEF TasksType, StartRecord, TypeOK
  <2> HIDE DEF s
  <2>3. CASE At(c, s, "prewarm", prewarm) /\ UNCHANGED <<process, pushReady, videoRtp, endpoint, proc, open>>
    <3>1. start' \in [Calls -> StartRecord]
      BY <1>0, <2>2, <2>3, AtType DEF InFlight, QueueType
    <3> QED
      BY <1>0, <1>3, <2>3, <3>1, StartKeepsTypes DEF Start, BuiltType
  <2>4. CASE Consume(c, s, prewarm)
    <3>1. BuiltType' /\ start' \in [Calls -> StartRecord]
      BY <1>0, <2>2, <2>4, ConsumeType DEF QueueType
    <3> QED
      BY <1>3, <3>1, StartKeepsTypes DEF Start
  <2> QED
    BY <2>1, <2>3, <2>4 DEF s
<1>4. ASSUME NEW c \in Calls, CancelStart(c) PROVE Types'
  <2>1. start[c] \in StartRecord /\ prewarm' \in Procs \union {NoProc}
    BY <1>0, <1>4 DEF CancelStart, PutBack, TasksType, StartRecord, QueueType
  <2>2. (IF start[c].pc = "spawn" THEN [proc EXCEPT ![start[c].held] = "gone"] ELSE proc) \in ProcStates
    BY <1>0 DEF BuiltType, ProcStates
  <2>3. BuiltType' /\ start' \in [Calls -> StartRecord]
    BY <1>0, <1>4, <2>1, <2>2, UnwindType DEF CancelStart, BuiltType
  <2> QED
    BY <1>4, <2>1, <2>3, StartKeepsTypes DEF CancelStart
<1>5. CASE CancelPrewarm
  <2>1. QueueType'
    BY <1>0, <1>5 DEF CancelPrewarm, CleanPrewarm, QueueType
  <2>2. Begun' = Begun
    BY <1>5 DEF CancelPrewarm, Begun
  <2> QED
    BY <1>0, <1>5, <2>1, <2>2 DEF CancelPrewarm, Types, TasksType, BuiltType, GenerationInv
<1> QED
  BY <1>1, <1>2, <1>3, <1>4, <1>5, StopTypes DEF Manager

LEMMA ProcessTypes == ASSUME Types, NEW p \in Procs, ProcSteps(p) \/ Exits(p) PROVE Types'
<1>0. TasksType /\ QueueType /\ BuiltType
  BY DEF Types
<1>1. Begun' = Begun
  BY DEF ProcSteps, SpawnCompletes, CleanupKills, CleanupEnds, Exits, Begun
<1>2. proc' \in ProcStates
  BY <1>0, KilledType DEF ProcSteps, SpawnCompletes, CleanupKills, CleanupEnds, Exits, BuiltType, ProcStates
<1>3. BuiltType' /\ QueueType'
  BY <1>0, <1>2 DEF ProcSteps, SpawnCompletes, CleanupKills, CleanupEnds, Exits, attributes, BuiltType, QueueType
<1> QED
  BY <1>0, <1>1, <1>3 DEF ProcSteps, SpawnCompletes, CleanupKills, CleanupEnds, Exits, attributes, Types, TasksType, GenerationInv

LEMMA NextTypes == Types /\ [Next]_vars => Types'
<1> SUFFICES ASSUME Types, [Next]_vars PROVE Types'
  OBVIOUS
<1>1. CASE UNCHANGED vars
  BY <1>1 DEF vars, attributes, Types, TasksType, QueueType, BuiltType, GenerationInv, Begun
<1> QED
  BY <1>1, ManagerTypes, StartStepTypes, StopStepTypes, ProcessTypes DEF Next
-----------------------------------------------------------------------------
(* A start in flight.                                                      *)

\* The start of c takes a step, as s, and no other is in flight.
Acts(c, s) ==
    /\ s \in StartRecord /\ s.generation <= generation
    /\ Starting \subseteq {c}
    /\ Sweeping # {} => Passed(s)
    /\ UNCHANGED <<generation, cleanup, cleaning, stop>>
    /\ start' = [start EXCEPT ![c] = start'[c]]
    /\ start'[c].pc # "idle" /\ start'[c].generation = s.generation

LEMMA ActsTurn ==
    ASSUME Types, Types', Inv, NEW c \in Calls, NEW s, Acts(c, s)
    PROVE  /\ TurnInv'
           /\ Starting' \subseteq {c}
           /\ Sweeping' = Sweeping
           /\ \A d \in Calls \ {c} : start'[d] = start[d] /\ start[d].pc \notin InFlight
           /\ Passed(start[c])' <=> Passed(s)
<1>1. \A d \in Calls \ {c} : start'[d] = start[d] /\ start[d].pc \notin InFlight
  BY DEF Acts, Starting, Types, TasksType
<1>2. Sweeping' = Sweeping /\ Starting' \subseteq {c} /\ (Passed(start[c])' <=> Passed(s))
  BY <1>1 DEF Acts, Sweeping, Starting, Passed
<1>3. TurnInv'
  BY <1>1, <1>2 DEF Acts, Inv, TurnInv, Passed
<1> QED
  BY <1>1, <1>2, <1>3

\* An unwinding leaves nothing behind.
LEMMA UnwindKeeps ==
    ASSUME Types, Types', Inv, NEW c \in Calls, NEW s, Acts(c, s),
           NEW p \in Procs \union {NoProc}, NEW wrapped \in SUBSET Media, NEW procs \in ProcStates,
           Unwind(c, s, p, wrapped, procs),
           \A m \in wrapped : endpoint[m] = None,
           p = process \/ ~IsRunning,
           p \in Procs => proc[p] # "spawning",
           \A q \in Procs : procs[q] \in {"spawning", "alive", "none"} \/ proc[q] = "none" => procs[q] = proc[q],
           prewarm \in {NoProc, prewarm', p},
           start[c].pc \in {"prewarm", "spawn"} =>
               \/ start[c].held \in {prewarm', p, NoProc}
               \/ procs[start[c].held] \notin {"spawning", "alive"}
    PROVE  Inv'
<1>1. /\ TurnInv' /\ Starting' \subseteq {c} /\ Sweeping' = Sweeping
      /\ \A d \in Calls \ {c} : start'[d] = start[d] /\ start[d].pc \notin InFlight
  BY ActsTurn
<1>2. start'[c].pc \in {"unwind", "failed"}
  <2>1. s \in StartRecord /\ TasksType
    BY DEF Acts, Types
  <2>2. At(c, s, "unwind", p) \/ At(c, s, "failed", NoProc)
    BY DEF Unwind
  <2> QED
    BY <2>1, <2>2 DEF At, TasksType, StartRecord
<1>3. process' = NoProc /\ videoRtp' = None /\ \A m \in Media : endpoint'[m] = None
  BY DEF Unwind
<1>4. open' = {}
  <2>1. ASSUME NEW d \in Calls, NEW m \in Media, <<d, m>> \in open PROVE <<d, m>> \notin open'
    <3>1. endpoint[m] = d /\ d # None
      BY <2>1 DEF Inv, EndpointHeld, Calls, None
    <3> QED
      BY <3>1 DEF Unwind
  <2> QED
    BY <2>1 DEF Unwind, Types, BuiltType
<1>5. \A q \in Procs : /\ q # p => proc'[q] = procs[q]
                       /\ q = p => proc'[q] \notin {"spawning", "alive"}
                       /\ proc[q] = "none" => proc'[q] = "none"
  BY DEF Unwind, Runs, ProcStates
<1>6. NoProc \notin Procs
  BY DEF NoProc, Procs
<1>7. HeldInv'
  <2> SUFFICES ASSUME NEW q \in Procs, proc'[q] \in {"spawning", "alive"} PROVE Held(q)'
    BY DEF HeldInv
  <2>1. q # p /\ procs[q] = proc'[q] /\ proc[q] = proc'[q]
    BY <1>5
  <2>2. q # process
    BY <1>6, <2>1 DEF IsRunning, Runs, Inv, ProcInv
  <2>3. Held(q)
    BY <2>1 DEF Inv, HeldInv
  <2>4. CASE q \in {prewarm} \union cleaning
    BY <1>6, <2>1, <2>4 DEF Held, Acts
  <2>5. CASE \E d \in Calls : start[d].pc \in {"prewarm", "spawn"} /\ start[d].held = q
    BY <1>1, <1>6, <2>1, <2>5 DEF Held, InFlight
  <2>6. CASE \E t \in Stops : stop[t].pc = "prewarm" /\ stop[t].held = q
    BY <2>6 DEF Held, Acts
  <2> QED
    BY <2>2, <2>3, <2>4, <2>5, <2>6 DEF Held
<1>8. ProcInv'
  <2> SUFFICES ASSUME NEW d \in Calls
               PROVE  /\ start'[d].pc \notin Early
                      /\ start'[d].pc = "idle" => proc'[<<"spawned", d>>] = "none"
    BY <1>3 DEF ProcInv, Early
  <2>1. CASE d = c
    BY <1>2, <2>1 DEF Early
  <2>2. CASE d # c
    <3>1. <<"spawned", d>> \in Procs
      BY DEF Procs
    <3> QED
      BY <1>1, <1>5, <2>2, <3>1 DEF Inv, ProcInv, Early, InFlight
  <2> QED
    BY <2>1, <2>2
<1>9. OwnInv' /\ SweptInv' /\ EndpointHeld'
  BY <1>1, <1>2, <1>3, <1>4 DEF OwnInv, SweptInv, EndpointHeld, Built, Early, Media
<1> QED
  BY <1>1, <1>7, <1>8, <1>9 DEF Inv

\* An ffmpeg is assigned to the bridge, which has no other.
LEMMA AssignKeeps ==
    ASSUME Types, Types', Inv, NEW c \in Calls, NEW s, Acts(c, s),
           NEW p \in Procs, Assign(c, s, p),
           ~IsRunning, videoRtp \in {None, c}, \A m \in Media : endpoint[m] = None,
           proc[p] \notin {"none", "spawning", "failed"},
           prewarm \in {NoProc, prewarm', p},
           start[c].pc \in {"prewarm", "spawn"} => start[c].held = p,
           Passed(s) \/ pushReady' = c
    PROVE  Inv'
<1>1. CASE Passed(s)
  BY <1>1, UnwindKeeps DEF Assign, Types, BuiltType
<1>2. CASE ~Passed(s)
  <2>1. /\ TurnInv' /\ Starting' \subseteq {c} /\ Sweeping' = Sweeping /\ Sweeping = {}
        /\ \A d \in Calls \ {c} : start'[d] = start[d] /\ start[d].pc \notin InFlight
        /\ ~Passed(start[c])'
    BY <1>2, ActsTurn DEF Acts
  <2>2. /\ process' = p /\ UNCHANGED <<videoRtp, endpoint, open, proc>>
        /\ start'[c].pc = "audio" /\ start'[c].held = p
    <3>1. s \in StartRecord /\ TasksType
      BY DEF Acts, Types
    <3>2. At(c, s, "audio", p)
      BY <1>2 DEF Assign
    <3>3. start'[c].pc = "audio" /\ start'[c].held = p
      BY <3>1, <3>2 DEF At, TasksType, StartRecord
    <3> QED
      BY <1>2, <3>3 DEF Assign
  <2>3. HeldInv'
    <3> SUFFICES ASSUME NEW q \in Procs, proc[q] \in {"spawning", "alive"}, q # p PROVE Held(q)'
      BY <2>2 DEF HeldInv, Held
    <3>1. Held(q) /\ q # process
      BY DEF Inv, HeldInv, ProcInv, IsRunning, Runs, NoProc, Procs
    <3>2. CASE q \in {prewarm} \union cleaning
      BY <3>2 DEF Held, Acts, NoProc, Procs
    <3>3. CASE \E d \in Calls : start[d].pc \in {"prewarm", "spawn"} /\ start[d].held = q
      BY <2>1, <3>3 DEF InFlight
    <3>4. CASE \E t \in Stops : stop[t].pc = "prewarm" /\ stop[t].held = q
      BY <3>4 DEF Held, Acts
    <3> QED
      BY <3>1, <3>2, <3>3, <3>4 DEF Held
  <2>4. ProcInv'
    BY <2>1, <2>2 DEF Inv, ProcInv, Early, InFlight
  <2>5. OwnInv'
    BY <1>2, <2>1, <2>2 DEF OwnInv, Built, Early, Media
  <2>6. SweptInv'
    <3>1. Serves(c)'
      BY <2>1, <2>2 DEF Serves, Built, Media
    <3> QED
      BY <2>2, <3>1 DEF SweptInv
  <2>7. EndpointHeld'
    BY <2>2 DEF Inv, EndpointHeld
  <2> QED
    BY <2>1, <2>3, <2>4, <2>5, <2>6, <2>7 DEF Inv
<1> QED
  BY <1>1, <1>2

\* An ffmpeg is spawned, and nobody else has this one.
LEMMA SpawnKeeps ==
    ASSUME Types, Types', Inv, NEW c \in Calls, NEW s, Acts(c, s), SpawnNow(c, s),
           start[c].pc \in {"idle", "prewarm", "discard"},
           ~IsRunning, videoRtp \in {None, c}, \A m \in Media : endpoint[m] = None,
           prewarm = prewarm' \/ prewarm = NoProc \/ proc[prewarm] \notin {"spawning", "alive"},
           start[c].pc = "prewarm" =>
               start[c].held = NoProc \/ proc[start[c].held] \notin {"spawning", "alive"}
    PROVE  Inv'
<1> DEFINE p == <<"spawned", c>>
<1>1. /\ TurnInv' /\ Starting' \subseteq {c} /\ Sweeping' = Sweeping
      /\ \A d \in Calls \ {c} : start'[d] = start[d] /\ start[d].pc \notin InFlight
  BY ActsTurn
<1>2. /\ UNCHANGED <<process, videoRtp, endpoint, open>> /\ pushReady' = c
      /\ start'[c].pc = "spawn" /\ start'[c].held = p
  <2>1. s \in StartRecord /\ TasksType
    BY DEF Acts, Types
  <2>2. At(c, s, "spawn", p)
    BY DEF SpawnNow
  <2>3. start'[c].pc = "spawn" /\ start'[c].held = p
    BY <2>1, <2>2 DEF At, TasksType, StartRecord
  <2> QED
    BY <2>3 DEF SpawnNow
<1>3. /\ p \in Procs /\ proc[p] = "none" /\ proc'[p] = "spawning"
      /\ \A q \in Procs \ {p} : proc'[q] = proc[q]
      /\ \A d \in Calls \ {c} : <<"spawned", d>> \in Procs \ {p}
  BY DEF SpawnNow, Procs, Types, BuiltType, ProcStates, Inv, ProcInv
<1>4. HeldInv'
  <2> SUFFICES ASSUME NEW q \in Procs, q # p, proc[q] \in {"spawning", "alive"} PROVE Held(q)'
    BY <1>2, <1>3 DEF HeldInv, Held
  <2>1. Held(q) /\ q # process /\ q # NoProc
    BY DEF Inv, HeldInv, ProcInv, IsRunning, Runs, NoProc, Procs
  <2>2. CASE q \in {prewarm} \union cleaning
    BY <2>1, <2>2 DEF Held, Acts
  <2>3. CASE \E d \in Calls : start[d].pc \in {"prewarm", "spawn"} /\ start[d].held = q
    BY <1>1, <2>1, <2>3 DEF InFlight
  <2>4. CASE \E t \in Stops : stop[t].pc = "prewarm" /\ stop[t].held = q
    BY <2>4 DEF Held, Acts
  <2> QED
    BY <2>1, <2>2, <2>3, <2>4 DEF Held
<1>5. process # p /\ (process # NoProc => process \in Procs)
  BY <1>3 DEF Inv, ProcInv, Types, BuiltType, NoProc, Procs
<1>6. ~IsRunning'
  BY <1>2, <1>3, <1>5 DEF IsRunning, Runs
<1>7. ProcInv'
  <2>1. process' # NoProc => proc'[process'] \notin {"none", "spawning", "failed"}
    BY <1>2, <1>3, <1>5 DEF Inv, ProcInv
  <2>2. ASSUME NEW d \in Calls
        PROVE  /\ start'[d].pc \in {"idle", "prewarm", "discard"} => proc'[<<"spawned", d>>] = "none"
               /\ start'[d].pc # "prewarm"
               /\ start'[d].pc = "spawn" => start'[d].held \in Procs /\ proc'[start'[d].held] # "none"
    BY <1>1, <1>2, <1>3 DEF Inv, ProcInv, InFlight
  <2> QED
    BY <1>6, <2>1, <2>2 DEF ProcInv
<1>8. OwnInv'
  BY <1>1, <1>2 DEF OwnInv, Built, Early, Media
<1>9. SweptInv'
  <2>1. \A d \in Calls : Serves(d) => Serves(d)'
    BY <1>1 DEF Serves, Passed, Acts, Built, Media
  <2>2. videoRtp # None => videoRtp \in Calls
    BY DEF Types, BuiltType, Ref
  <2> QED
    BY <1>1, <1>2, <2>1, <2>2 DEF Inv, SweptInv
<1>10. EndpointHeld'
  BY <1>2 DEF Inv, EndpointHeld
<1> QED
  BY <1>1, <1>4, <1>7, <1>8, <1>9, <1>10 DEF Inv

LEMMA ActsAt ==
    ASSUME Types, NEW c \in Calls, NEW s \in StartRecord, s.generation <= generation,
           Starting \subseteq {c}, Sweeping # {} => Passed(s),
           UNCHANGED <<generation, cleanup, cleaning, stop>>,
           NEW pc, pc # "idle", NEW held, At(c, s, pc, held)
    PROVE  Acts(c, s)
  BY AtIs DEF Acts, Types

\* A start in flight is the one that acts.
LEMMA InFlightActs ==
    ASSUME Types, Inv, NEW c \in Calls, start[c].pc \in InFlight,
           UNCHANGED <<generation, cleanup, cleaning, stop>>,
           NEW pc, pc # "idle", NEW held, At(c, start[c], pc, held)
    PROVE  Acts(c, start[c])
<1>1. start[c] \in StartRecord
  BY DEF Types, TasksType
<1>2. /\ start[c].generation <= generation /\ Starting \subseteq {c}
      /\ Sweeping # {} => Passed(start[c])
  BY DEF Inv, TurnInv, Starting
<1> QED
  BY <1>1, <1>2, ActsAt

\* A prewarmed ffmpeg is adopted, discarded, or not there.
LEMMA ConsumeKeeps ==
    ASSUME Types, Types', Inv, NEW c \in Calls, NEW s \in StartRecord, s.generation <= generation,
           Starting \subseteq {c}, Sweeping # {} => Passed(s),
           UNCHANGED <<generation, cleanup, cleaning, stop>>,
           NEW p \in Procs \union {NoProc}, Consume(c, s, p),
           start[c].pc \in {"idle", "prewarm"},
           p \in Procs => proc[p] # "spawning",
           prewarm' = NoProc, prewarm \in {NoProc, p},
           start[c].pc = "prewarm" => start[c].held = p,
           ~IsRunning, videoRtp \in {None, c}, \A m \in Media : endpoint[m] = None
    PROVE  Inv'
<1>1. CASE Runs(p) /\ Assign(c, s, p) /\ (Passed(s) \/ pushReady' = c)
  <2>1. Acts(c, s)
    BY <1>1, ActsAt DEF Assign, Unwind
  <2>2. p \in Procs /\ proc[p] \notin {"none", "spawning", "failed"}
    BY <1>1 DEF Runs
  <2> QED
    BY <1>1, <2>1, <2>2, AssignKeeps
<1>2. CASE /\ Runs(p)
           /\ proc' = Killed(p)
           /\ At(c, s, "discard", p)
           /\ UNCHANGED <<process, pushReady, videoRtp, endpoint, open>>
  <2>1. Acts(c, s)
    BY <1>2, ActsAt
  <2>2. /\ TurnInv' /\ Starting' \subseteq {c} /\ Sweeping' = Sweeping
        /\ \A d \in Calls \ {c} : start'[d] = start[d] /\ start[d].pc \notin InFlight
    BY <2>1, ActsTurn
  <2>3. start'[c].pc = "discard"
    BY <1>2, AtIs DEF Types
  <2>4. /\ p \in Procs /\ proc'[p] = "killed" /\ proc[p] \notin {"none", "spawning"}
        /\ \A q \in Procs \ {p} : proc'[q] = proc[q]
        /\ \A d \in Calls : <<"spawned", d>> \in Procs
    BY <1>2 DEF Killed, Runs, Types, BuiltType, ProcStates, Procs
  <2>5. HeldInv'
    <3> SUFFICES ASSUME NEW q \in Procs, q # p, proc[q] \in {"spawning", "alive"} PROVE Held(q)'
      BY <2>4 DEF HeldInv
    <3>1. Held(q) /\ q # NoProc
      BY DEF Inv, HeldInv, NoProc, Procs
    <3>2. CASE q \in {process, prewarm} \union cleaning
      BY <1>2, <3>1, <3>2 DEF Held
    <3>3. CASE \E d \in Calls : start[d].pc \in {"prewarm", "spawn"} /\ start[d].held = q
      BY <2>2, <3>3 DEF InFlight
    <3>4. CASE \E t \in Stops : stop[t].pc = "prewarm" /\ stop[t].held = q
      BY <3>4 DEF Held
    <3> QED
      BY <3>1, <3>2, <3>3, <3>4 DEF Held
  <2>6. ~IsRunning' /\ (process' # NoProc => proc'[process'] \notin {"none", "spawning", "failed"})
    BY <1>2, <2>4 DEF Inv, ProcInv, IsRunning, Runs, Types, BuiltType
  <2>7. ProcInv'
    BY <2>2, <2>3, <2>4, <2>6 DEF Inv, ProcInv, InFlight
  <2>8. OwnInv'
    BY <1>2, <2>2, <2>3 DEF OwnInv, Built, Early, Media
  <2>9. SweptInv'
    <3>1. \A d \in Calls : Serves(d) => Serves(d)'
      BY <2>1, <2>2 DEF Serves, Passed, Acts, Built, Media
    <3>2. videoRtp # None => videoRtp \in Calls
      BY DEF Types, BuiltType, Ref
    <3> QED
      BY <1>2, <2>2, <3>1, <3>2 DEF Inv, SweptInv
  <2>10. EndpointHeld'
    BY <1>2 DEF Inv, EndpointHeld
  <2> QED
    BY <2>2, <2>5, <2>7, <2>8, <2>9, <2>10 DEF Inv
<1>3. CASE ~Runs(p) /\ SpawnNow(c, s)
  <2>1. Acts(c, s)
    BY <1>3, ActsAt DEF SpawnNow
  <2>2. p # NoProc => proc[p] \notin {"spawning", "alive"}
    BY <1>3 DEF Runs
  <2> QED
    BY <1>3, <2>1, <2>2, SpawnKeeps
<1> QED
  BY <1>1, <1>2, <1>3 DEF Consume

\* A start goes on, or ends, and leaves the bridge as it is.
LEMMA RestsKeeps ==
    ASSUME Types, Types', Inv, NEW c \in Calls, Acts(c, start[c]),
           start[c].pc \in {"spawn", "rtcp", "push", "unwind"},
           start[c].pc = "spawn" => proc[start[c].held] = "failed",
           UNCHANGED <<prewarm, process, videoRtp, endpoint, open, proc>>,
           \/ start'[c].pc = "push" /\ start[c].pc = "rtcp"
              /\ start'[c].held = start[c].held /\ pushReady' = pushReady
           \/ start'[c].pc = "returned" /\ start[c].pc = "push"
           \/ start'[c].pc = "failed" /\ ~Serves(c)
    PROVE  Inv'
<1>1. /\ TurnInv' /\ Starting' \subseteq {c} /\ Sweeping' = Sweeping
      /\ \A d \in Calls \ {c} : start'[d] = start[d] /\ start[d].pc \notin InFlight
      /\ Passed(start[c])' <=> Passed(start[c])
  BY ActsTurn
<1>2. HeldInv'
  <2> SUFFICES ASSUME NEW q \in Procs, proc[q] \in {"spawning", "alive"} PROVE Held(q)'
    BY DEF HeldInv
  <2>1. Held(q)
    BY DEF Inv, HeldInv
  <2>2. CASE \E d \in Calls : start[d].pc \in {"prewarm", "spawn"} /\ start[d].held = q
    BY <1>1, <2>2 DEF InFlight
  <2>3. CASE ~\E d \in Calls : start[d].pc \in {"prewarm", "spawn"} /\ start[d].held = q
    BY <2>1, <2>3 DEF Held, Acts
  <2> QED
    BY <2>2, <2>3
<1>3. ProcInv'
  BY <1>1 DEF Inv, ProcInv, IsRunning, Runs, Early, InFlight
<1>4. OwnInv'
  BY <1>1 DEF Inv, OwnInv, Starting, InFlight, Wrapping, Built, Early, Media
<1>5. SweptInv'
  <2>1. \A d \in Calls : Serves(d) => Serves(d)'
    BY <1>1 DEF Serves, Passed, Acts, Built, Media
  <2>2. /\ videoRtp # None => videoRtp \in Calls
        /\ \A m \in Media : endpoint[m] # None => endpoint[m] \in Calls
    BY DEF Types, BuiltType, Ref
  <2> QED
    BY <1>1, <2>1, <2>2 DEF Inv, SweptInv
<1> QED
  BY <1>1, <1>2, <1>3, <1>4, <1>5 DEF Inv, EndpointHeld

\* A start finds what it built, or nothing, at each of its awaits.
LEMMA WrappedKeeps ==
    ASSUME Types, Types', Inv, NEW c \in Calls, NEW m \in Media, Wrapped(c, m) PROVE Inv'
<1>1. /\ start[c] \in StartRecord /\ process \in Procs \union {NoProc} /\ proc \in ProcStates
      /\ c \in Starting /\ start[c].pc \in InFlight /\ start[c].pc = m
      /\ UNCHANGED <<generation, prewarm, cleanup, cleaning, stop>>
  BY DEF Types, TasksType, BuiltType, Wrapped, outside, Starting, InFlight, Wrapping
<1>2. endpoint[m] = None /\ videoRtp \in {None, c}
  BY <1>1 DEF Inv, OwnInv, Media
<1>3. CASE Passed(start[c]) /\ Unwind(c, start[c], process, {m}, proc)
  <2>1. Acts(c, start[c])
    BY <1>1, <1>3, InFlightActs DEF Unwind
  <2>2. process \in Procs => proc[process] # "spawning"
    BY DEF Inv, ProcInv, NoProc, Procs
  <2> QED
    BY <1>1, <1>2, <1>3, <2>1, <2>2, UnwindKeeps DEF Media
<1>4. CASE /\ (m = "video" /\ videoRtp # None) \/ ~Passed(start[c])
           /\ endpoint' = [endpoint EXCEPT ![m] = c]
           /\ open' = open \union {<<c, m>>}
           /\ videoRtp' = IF After(start[c], m) = "video" THEN c ELSE videoRtp
           /\ Proceed(c, start[c], After(start[c], m))
           /\ UNCHANGED <<process, pushReady, proc>>
  <2> DEFINE next == After(start[c], m)
  <2>0. /\ m = "audio" => next = IF start[c].video = "on" THEN "video" ELSE "push"
        /\ m = "video" => next = IF videoRtp # None THEN "rtcp" ELSE "push"
        /\ m = "rtcp" => next = "push"
    BY DEF After
  <2> HIDE DEF next
  <2>1. \/ /\ m = "audio"
           /\ next \in {"video", "push"}
        \/ /\ m = "video"
           /\ next \in {"rtcp", "push"}
        \/ /\ m = "rtcp"
           /\ next = "push"
    BY <2>0 DEF Media
  <2>2. \/ next = "push" /\ pushReady = None /\ At(c, start[c], "failed", NoProc)
        \/ At(c, start[c], next, start[c].held)
    BY <1>4 DEF Proceed, next
  <2>3. Acts(c, start[c])
    BY <1>1, <2>1, <2>2, InFlightActs
  <2>4. \/ start'[c].pc = "failed" /\ pushReady = None
        \/ start'[c].pc = next /\ start'[c].held = start[c].held
    BY <1>1, <2>2, AtIs DEF Types
  <2>5. /\ TurnInv' /\ Starting' \subseteq {c} /\ Sweeping' = Sweeping
        /\ \A d \in Calls \ {c} : start'[d] = start[d] /\ start[d].pc \notin InFlight
        /\ Passed(start[c])' <=> Passed(start[c])
    BY <2>3, ActsTurn
  <2>6. /\ videoRtp' \in {None, c} /\ endpoint'[m] = c
        /\ \A k \in Media \ {m} : endpoint'[k] = endpoint[k]
    BY <1>2, <1>4 DEF Types, BuiltType
  <2>7. HeldInv'
    <3> SUFFICES ASSUME NEW q \in Procs, proc[q] \in {"spawning", "alive"} PROVE Held(q)'
      BY <1>4 DEF HeldInv
    <3>1. Held(q)
      BY DEF Inv, HeldInv
    <3>2. ~\E d \in Calls : start[d].pc \in {"prewarm", "spawn"} /\ start[d].held = q
      BY <1>1, <2>5 DEF InFlight, Media
    <3> QED
      BY <1>1, <1>4, <3>1, <3>2 DEF Held
  <2>8. ProcInv'
    BY <1>1, <1>4, <2>1, <2>4, <2>5 DEF Inv, ProcInv, IsRunning, Runs, Early, InFlight
  <2>9. OwnInv'
    <3>1. /\ \A k \in Media : endpoint[k] \in {None, c}
          /\ m = "audio" => \A k \in Media : endpoint[k] = None
          /\ m = "video" => endpoint["rtcp"] = None
          /\ process \in {NoProc, start[c].held}
          /\ ~Passed(start[c]) => process = start[c].held /\ pushReady = c
      BY <1>1 DEF Inv, OwnInv, Built, Media
    <3>2. \A k \in Media : endpoint'[k] \in {None, c}
      BY <2>6, <3>1
    <3>3. next = "video" => endpoint'["video"] = None /\ endpoint'["rtcp"] = None
      BY <2>1, <2>6, <3>1 DEF Media
    <3>4. next = "rtcp" => endpoint'["rtcp"] = None
      BY <2>1, <2>6, <3>1 DEF Media
    <3>5. next \in {"video", "rtcp", "push"}
      BY <2>1
    <3> QED
      BY <1>4, <2>4, <2>5, <2>6, <3>1, <3>2, <3>3, <3>4, <3>5
      DEF OwnInv, Starting, InFlight, Wrapping, Built, Early, Media
  <2>10. SweptInv'
    <3> SUFFICES ASSUME Sweeping = {} PROVE SweptInv'
      BY <2>5 DEF SweptInv
    <3>1. ~Passed(start[c])
      BY <1>2, <1>4 DEF Inv, SweptInv, Serves
    <3>2. pushReady = c /\ c # None
      BY <1>1, <3>1 DEF Inv, OwnInv, Built, Calls, None
    <3>3. Serves(c)'
      BY <2>1, <2>4, <2>5, <3>1, <3>2 DEF Serves, Built, Media
    <3>4. \A k \in Media : endpoint[k] \in {None, c}
      BY <1>1 DEF Inv, OwnInv
    <3> QED
      BY <2>6, <3>3, <3>4 DEF SweptInv
  <2>11. EndpointHeld'
    <3> SUFFICES ASSUME NEW d \in Calls, NEW k \in Media, <<d, k>> \in open' PROVE endpoint'[k] = d
      BY DEF EndpointHeld
    <3>1. CASE <<d, k>> = <<c, m>>
      BY <2>6, <3>1
    <3>2. CASE <<d, k>> \in open
      <4>1. endpoint[k] = d /\ d # None
        BY <3>2 DEF Inv, EndpointHeld, Calls, None
      <4> QED
        BY <1>2, <2>6, <4>1
    <3> QED
      BY <1>4, <3>1, <3>2
  <2> QED
    BY <2>5, <2>7, <2>8, <2>9, <2>10, <2>11 DEF Inv
<1> QED
  BY <1>3, <1>4 DEF Wrapped

LEMMA StartStepKeeps ==
    ASSUME Types, Types', Inv, NEW c \in Calls, StartSteps(c) PROVE Inv'
<1>1. /\ start[c] \in StartRecord /\ start[c].held \in Procs \union {NoProc}
      /\ process \in Procs \union {NoProc} /\ proc \in ProcStates /\ TasksType
  BY DEF Types, TasksType, BuiltType, StartRecord
<1>2. /\ start[c].pc \in InFlight /\ c \in Starting
      /\ UNCHANGED <<generation, prewarm, cleanup, cleaning, stop>>
  BY DEF StartSteps, StartConsumes, StartDiscarded, StartRaises, StartSpawned, WrapFails, RtcpFails,
         StartEnds, Unwound, Wrapped, outside, attributes, Starting, InFlight, Wrapping, Media
<1>3. /\ start[c].generation <= generation /\ Starting \subseteq {c}
      /\ Sweeping # {} => Passed(start[c])
  BY <1>2 DEF Inv, TurnInv, Starting
<1>4. process # NoProc => proc[process] \notin {"none", "spawning", "failed"}
  BY DEF Inv, ProcInv
<1>5. videoRtp \in {None, c}
  BY <1>2 DEF Inv, OwnInv
<1>6. start[c].pc \in Early => ~IsRunning /\ \A m \in Media : endpoint[m] = None
  BY <1>2 DEF Inv, ProcInv, OwnInv
<1>7. ASSUME Unwind(c, start[c], process, {}, proc), start[c].pc \notin {"prewarm", "spawn"} PROVE Inv'
  <2>1. Acts(c, start[c])
    BY <1>2, <1>7, InFlightActs DEF Unwind
  <2> QED
    BY <1>1, <1>2, <1>4, <1>7, <2>1, UnwindKeeps DEF NoProc, Procs
<1>8. CASE StartConsumes(c)
  <2>1. start[c].pc = "prewarm" /\ prewarm = NoProc
    BY <1>8 DEF StartConsumes, Inv, ProcInv
  <2> QED
    BY <1>1, <1>2, <1>3, <1>5, <1>6, <1>8, <2>1, ConsumeKeeps DEF StartConsumes, Early
<1>9. CASE StartDiscarded(c)
  <2>1. Acts(c, start[c])
    BY <1>2, <1>9, InFlightActs DEF StartDiscarded, SpawnNow
  <2> QED
    BY <1>2, <1>5, <1>6, <1>9, <2>1, SpawnKeeps DEF StartDiscarded, Early
<1>10. CASE StartRaises(c)
  <2>1. At(c, start[c], "failed", NoProc)
    BY <1>10 DEF StartRaises
  <2>2. Acts(c, start[c]) /\ start'[c].pc = "failed"
    BY <1>1, <1>2, <2>1, InFlightActs, AtIs
  <2>3. ~Serves(c)
    BY <1>10 DEF StartRaises, Serves, Built, Media
  <2> QED
    BY <1>10, <2>2, <2>3, RestsKeeps DEF StartRaises, attributes
<1>11. CASE StartSpawned(c)
  <2>1. start[c].held \in Procs /\ proc[start[c].held] \notin {"none", "spawning", "failed"}
    BY <1>11 DEF StartSpawned, Inv, ProcInv
  <2>2. Acts(c, start[c])
    BY <1>2, <1>11, InFlightActs DEF StartSpawned, Assign, Unwind
  <2>3. Passed(start[c]) \/ pushReady' = c
    BY <1>2, <1>11 DEF StartSpawned, Inv, OwnInv
  <2> QED
    BY <1>2, <1>5, <1>6, <1>11, <2>1, <2>2, <2>3, AssignKeeps DEF StartSpawned, Early
<1>12. CASE WrapFails(c)
  BY <1>7, <1>12 DEF WrapFails
<1>13. CASE RtcpFails(c)
  <2>1. CASE Passed(start[c])
    BY <1>7, <1>13, <2>1 DEF RtcpFails
  <2>2. CASE ~Passed(start[c])
    <3>1. pushReady = c /\ c # None
      BY <1>2, <1>13, <2>2 DEF RtcpFails, Inv, OwnInv, Built, Media, Calls, None
    <3>2. At(c, start[c], "push", start[c].held)
      BY <1>13, <2>2, <3>1 DEF RtcpFails, Proceed
    <3>3. Acts(c, start[c]) /\ start'[c].pc = "push" /\ start'[c].held = start[c].held
      BY <1>1, <1>2, <3>2, InFlightActs, AtIs
    <3> QED
      BY <1>2, <1>13, <2>2, <3>3, RestsKeeps DEF RtcpFails
  <2> QED
    BY <2>1, <2>2
<1>14. CASE StartEnds(c)
  <2>1. CASE Passed(start[c])
    BY <1>7, <1>14, <2>1 DEF StartEnds
  <2>2. CASE ~Passed(start[c])
    <3>1. At(c, start[c], "returned", NoProc)
      BY <1>14, <2>2 DEF StartEnds
    <3>2. Acts(c, start[c]) /\ start'[c].pc = "returned"
      BY <1>1, <1>2, <3>1, InFlightActs, AtIs
    <3> QED
      BY <1>2, <1>14, <2>2, <3>2, RestsKeeps DEF StartEnds
  <2> QED
    BY <2>1, <2>2
<1>15. CASE Unwound(c)
  <2>1. At(c, start[c], "failed", NoProc)
    BY <1>15 DEF Unwound
  <2>2. Acts(c, start[c]) /\ start'[c].pc = "failed"
    BY <1>1, <1>2, <2>1, InFlightActs, AtIs
  <2>3. ~Serves(c)
    BY <1>15 DEF Unwound, Serves, Built, Media
  <2> QED
    BY <1>15, <2>2, <2>3, RestsKeeps DEF Unwound
<1>16. CASE \E m \in Media : Wrapped(c, m)
  BY <1>16, WrappedKeeps
<1> QED
  BY <1>8, <1>9, <1>10, <1>11, <1>12, <1>13, <1>14, <1>15, <1>16 DEF StartSteps
-----------------------------------------------------------------------------
(* A stop.                                                                 *)

\* Every start in flight has been passed; what the stop lets go of is dead.
Stopping(s) ==
    /\ generation' >= generation
    /\ UNCHANGED <<start, cleaning>>
    /\ \A c \in Starting : Passed(start[c])'
    /\ prewarm' \in {prewarm, NoProc}
    /\ prewarm' # prewarm => proc'[prewarm] \notin {"spawning", "alive"} \/ (Moves(s) /\ stop'[s] = [pc |-> "prewarm", held |-> prewarm])
    /\ stop[s].pc = "prewarm" => stop[s].held = NoProc \/ proc'[stop[s].held] \notin {"spawning", "alive"}

LEMMA StoppingTurn ==
    ASSUME Types, Types', Inv, NEW s \in Stops, Stopping(s)
    PROVE  TurnInv' /\ Starting' = Starting
<1>1. Starting' = Starting /\ UNCHANGED start
  BY DEF Stopping, Starting
<1>2. generation \in Int /\ generation' \in Int /\ \A c \in Calls : start[c].generation \in Int
  <2>1. TypeOK /\ TypeOK'
    BY TypesAreTypeOK, PTL
  <2> QED
    BY <2>1, StopsAssumption DEF TypeOK
<1>3. \A c \in Calls : start[c].generation <= generation'
  BY <1>2 DEF Stopping, Inv, TurnInv
<1> QED
  BY <1>1, <1>3 DEF Stopping, Inv, TurnInv

\* The stop moves; who else holds a process still does.
LEMMA StoppingHolds ==
    ASSUME Types, Types', Inv, NEW s \in Stops, Stopping(s), Moves(s),
           \A q \in Procs : proc'[q] \in {"spawning", "alive"} => proc'[q] = proc[q],
           process' = process \/ process = NoProc \/ proc'[process] \notin {"spawning", "alive"}
    PROVE  HeldInv'
<1> SUFFICES ASSUME NEW q \in Procs, proc[q] \in {"spawning", "alive"}, proc'[q] = proc[q]
             PROVE  Held(q)'
  BY DEF HeldInv
<1>1. Held(q) /\ q # NoProc
  BY DEF Inv, HeldInv, NoProc, Procs
<1>2. CASE q = process
  BY <1>1, <1>2 DEF Held
<1>3. CASE q = prewarm
  BY <1>1, <1>3 DEF Stopping, Held
<1>4. CASE q \in cleaning
  BY <1>4 DEF Stopping, Held
<1>5. CASE \E c \in Calls : start[c].pc \in {"prewarm", "spawn"} /\ start[c].held = q
  BY <1>5 DEF Stopping, Held
<1>6. CASE \E t \in Stops : stop[t].pc = "prewarm" /\ stop[t].held = q
  <2>1. PICK t \in Stops : stop[t].pc = "prewarm" /\ stop[t].held = q
    BY <1>6
  <2>2. t # s /\ stop'[t] = stop[t]
    BY <1>1, <2>1 DEF Stopping, Moves, Types, TasksType
  <2> QED
    BY <2>1, <2>2 DEF Held
<1> QED
  BY <1>1, <1>2, <1>3, <1>4, <1>5, <1>6 DEF Held

\* Nothing is left when the bridge is swept.
LEMMA SweepKeeps ==
    ASSUME Types, Types', Inv, NEW s \in Stops, Stopping(s), Sweep(s)
    PROVE  Inv'
<1>1. TurnInv' /\ Starting' = Starting /\ UNCHANGED start
  BY StoppingTurn DEF Stopping
<1>2. /\ process' = NoProc /\ videoRtp' = None /\ \A m \in Media : endpoint'[m] = None
  BY DEF Sweep
<1>3. open' = {}
  <2>1. ASSUME NEW d \in Calls, NEW m \in Media, <<d, m>> \in open PROVE <<d, m>> \notin open'
    BY <2>1 DEF Sweep, Closed, Inv, EndpointHeld
  <2> QED
    BY <2>1 DEF Sweep, Closed, Types, BuiltType
<1>4. /\ \A q \in Procs : proc'[q] = proc[q] \/ (q = process /\ proc[q] = "alive" /\ proc'[q] = "terminated")
      /\ process # NoProc => proc'[process] \notin {"spawning", "alive"}
  BY DEF Sweep, Types, BuiltType, ProcStates, Inv, ProcInv
<1>5. HeldInv'
  <2>1. Moves(s)
    BY SweepType DEF Types
  <2> QED
    BY <1>4, <2>1, StoppingHolds
<1>6. ProcInv'
  <2>1. ~IsRunning'
    BY <1>2 DEF IsRunning, Runs, NoProc, Procs
  <2>2. ASSUME NEW c \in Calls
        PROVE  /\ start[c].pc \in {"idle", "prewarm", "discard"} => proc'[<<"spawned", c>>] = "none"
               /\ start[c].pc = "prewarm" => prewarm' = NoProc
               /\ start[c].pc = "spawn" => start[c].held \in Procs /\ proc'[start[c].held] # "none"
    <3>1. <<"spawned", c>> \in Procs
      BY DEF Procs
    <3> QED
      BY <1>4, <3>1 DEF Stopping, Inv, ProcInv
  <2> QED
    BY <1>1, <1>2, <2>1, <2>2 DEF ProcInv
<1>7. OwnInv'
  <2>1. \A c \in Starting : start'[c].generation # generation'
    BY DEF Stopping, Passed
  <2>2. \A m \in Media : endpoint'[m] = None
    BY <1>2
  <2>3. "video" \in Media /\ "rtcp" \in Media
    BY DEF Media
  <2> QED
    BY <1>1, <1>2, <2>1, <2>2, <2>3 DEF OwnInv, Passed
<1>8. SweptInv' /\ EndpointHeld'
  BY <1>2, <1>3 DEF SweptInv, EndpointHeld
<1> QED
  BY <1>1, <1>5, <1>6, <1>7, <1>8 DEF Inv

\* The sweep is still to come.
LEMMA WaitKeeps ==
    ASSUME Types, Types', Inv, NEW s \in Stops, Stopping(s),
           Moves(s), stop'[s].pc \in {"prewarm", "discard", "cleanup"},
           UNCHANGED <<process, pushReady, videoRtp, endpoint, open>>,
           proc' = proc \/ \E p \in Procs : Runs(p) /\ proc' = Killed(p)
    PROVE  Inv'
<1>1. TurnInv' /\ Starting' = Starting /\ UNCHANGED start
  BY StoppingTurn DEF Stopping
<1>2. Sweeping' # {}
  BY DEF Sweeping
<1>3. \A q \in Procs : proc'[q] = proc[q] \/ (Runs(q) /\ proc'[q] = "killed")
  BY DEF Killed, Types, BuiltType, ProcStates
<1>4. HeldInv'
  BY <1>3, StoppingHolds
<1>5. ProcInv'
  <2>1. /\ process' # NoProc => proc'[process'] \notin {"none", "spawning", "failed"}
        /\ IsRunning' => IsRunning
    BY <1>3 DEF Inv, ProcInv, IsRunning, Runs, Types, BuiltType
  <2>2. ASSUME NEW c \in Calls
        PROVE  /\ start[c].pc \in {"idle", "prewarm", "discard"} => proc'[<<"spawned", c>>] = "none"
               /\ start[c].pc = "prewarm" => prewarm' = NoProc
               /\ start[c].pc = "spawn" => start[c].held \in Procs /\ proc'[start[c].held] # "none"
    <3>1. <<"spawned", c>> \in Procs
      BY DEF Procs
    <3> QED
      BY <1>3, <3>1 DEF Stopping, Inv, ProcInv, Runs
  <2> QED
    BY <1>1, <2>1, <2>2 DEF Inv, ProcInv
<1>6. OwnInv'
  BY <1>1 DEF Inv, OwnInv, Stopping
<1>7. SweptInv' /\ EndpointHeld'
  BY <1>2 DEF SweptInv, Inv, EndpointHeld
<1> QED
  BY <1>1, <1>4, <1>5, <1>6, <1>7 DEF Inv

LEMMA AfterPrewarmKeeps ==
    ASSUME Types, Types', Inv, NEW s \in Stops, Stopping(s), AfterPrewarm(s) PROVE Inv'
<1>1. CASE Sweep(s)
  BY <1>1, SweepKeeps
<1>2. CASE /\ StopAt(s, "cleanup", cleanup)
           /\ UNCHANGED <<process, pushReady, videoRtp, endpoint, open, proc>>
  <2>1. Moves(s)
    BY <1>2, StopAtMoves DEF Types, QueueType
  <2>2. stop'[s].pc = "cleanup"
    BY <1>2 DEF StopAt, Types, TasksType
  <2> QED
    BY <1>2, <2>1, <2>2, WaitKeeps
<1> QED
  BY <1>1, <1>2 DEF AfterPrewarm

LEMMA DiscardKeeps ==
    ASSUME Types, Types', Inv, NEW s \in Stops, Stopping(s),
           NEW p \in Procs \union {NoProc}, Discard(s, p)
    PROVE  Inv'
<1>1. CASE Runs(p)
  <2>1. Moves(s)
    BY <1>1, StopAtMoves DEF Discard
  <2>2. stop'[s].pc = "discard"
    BY <1>1 DEF Discard, StopAt, Types, TasksType
  <2>3. p \in Procs
    BY <1>1 DEF Runs
  <2> QED
    BY <1>1, <2>1, <2>2, <2>3, WaitKeeps DEF Discard
<1>2. CASE ~Runs(p)
  BY <1>2, AfterPrewarmKeeps DEF Discard
<1> QED
  BY <1>1, <1>2

\* A prewarmed ffmpeg whose spawn has ended does not outlive its discarding.
LEMMA DiscardKills ==
    ASSUME Types, NEW s \in Stops, NEW p \in Procs, Discard(s, p), proc[p] # "spawning"
    PROVE  proc'[p] \notin {"spawning", "alive"}
<1>1. CASE Runs(p)
  BY <1>1 DEF Discard, Killed, Types, BuiltType, ProcStates
<1>2. CASE ~Runs(p)
  BY <1>2 DEF Discard, AfterPrewarm, Sweep, Runs, Types, BuiltType, ProcStates
<1> QED
  BY <1>1, <1>2

LEMMA StopKeeps == ASSUME Types, Types', Inv, NEW s \in Stops, Stop(s) PROVE Inv'
<1>1. generation' >= generation /\ \A c \in Starting : Passed(start[c])'
  <2>1. generation \in Int /\ \A c \in Calls : start[c].generation \in Int
    BY TypesAreTypeOK, StopsAssumption DEF TypeOK
  <2> QED
    BY <2>1 DEF Stop, NextGeneration, Inv, TurnInv, Passed, Starting
<1>2. UNCHANGED <<start, cleaning>> /\ prewarm' = NoProc /\ stop[s].pc = "idle"
      /\ prewarm \in Procs \union {NoProc}
  BY DEF Stop, Types, QueueType
<1>3. CASE /\ proc[prewarm] = "spawning"
           /\ StopAt(s, "prewarm", prewarm)
           /\ UNCHANGED <<cleanup, process, pushReady, videoRtp, endpoint, open, proc>>
  <2>1. Moves(s) /\ stop'[s] = [pc |-> "prewarm", held |-> prewarm]
    BY <1>2, <1>3, StopAtMoves DEF StopAt, Types, TasksType
  <2>2. Stopping(s)
    BY <1>1, <1>2, <2>1 DEF Stopping
  <2> QED
    BY <1>3, <2>1, <2>2, WaitKeeps
<1>4. CASE Discard(s, prewarm) /\ (prewarm # NoProc => proc[prewarm] # "spawning")
  <2>1. prewarm # NoProc => proc'[prewarm] \notin {"spawning", "alive"}
    BY <1>2, <1>4, DiscardKills
  <2>2. Stopping(s)
    BY <1>1, <1>2, <2>1 DEF Stopping
  <2> QED
    BY <1>2, <1>4, <2>2, DiscardKeeps
<1> QED
  BY <1>3, <1>4 DEF Stop

LEMMA StopStepKeeps == ASSUME Types, Types', Inv, NEW s \in Stops, StopSteps(s) PROVE Inv'
<1>1. /\ generation \in Int /\ stop[s].held \in Procs \union {NoProc}
  BY TypesAreTypeOK, StopsAssumption DEF TypeOK
<1>2. ASSUME stop[s].pc \in {"prewarm", "discard", "cleanup"},
             UNCHANGED <<generation, prewarm, cleaning, start>>,
             stop[s].pc = "prewarm" => stop[s].held = NoProc \/ proc'[stop[s].held] \notin {"spawning", "alive"}
      PROVE  Stopping(s)
  <2>1. Sweeping # {}
    BY <1>2 DEF Sweeping
  <2> QED
    BY <1>1, <1>2, <2>1 DEF Stopping, Inv, TurnInv, Passed
<1>3. CASE StopDiscards(s)
  <2>1. stop[s].held = NoProc \/ proc'[stop[s].held] \notin {"spawning", "alive"}
    BY <1>1, <1>3, DiscardKills DEF StopDiscards
  <2>2. Stopping(s)
    BY <1>2, <1>3, <2>1 DEF StopDiscards
  <2> QED
    BY <1>1, <1>3, <2>2, DiscardKeeps DEF StopDiscards
<1>4. CASE StopDiscarded(s)
  BY <1>2, <1>4, AfterPrewarmKeeps DEF StopDiscarded
<1>5. CASE StopSweeps(s)
  BY <1>2, <1>5, SweepKeeps DEF StopSweeps
<1>6. CASE StopKills(s) \/ StopEnds(s)
  <2>1. /\ UNCHANGED <<generation, attributes, cleaning, open, start>>
        /\ \A q \in Procs : proc'[q] = proc[q] \/ (Runs(q) /\ proc'[q] = "killed")
        /\ stop'[s].pc \notin {"prewarm", "discard", "cleanup"}
        /\ \A t \in Stops \ {s} : stop'[t] = stop[t]
        /\ stop[s].pc = "reap"
    BY <1>6 DEF StopKills, StopEnds, AfterTimeout, Killed, Runs, StopAt, Types, TasksType, BuiltType, ProcStates
  <2>2. Sweeping' = Sweeping
    BY <2>1 DEF Sweeping
  <2>3. TurnInv' /\ OwnInv' /\ SweptInv' /\ EndpointHeld'
    BY <2>1, <2>2 DEF attributes, Inv, TurnInv, OwnInv, SweptInv, EndpointHeld, Starting, Passed, Serves
  <2>4. HeldInv'
    <3> SUFFICES ASSUME NEW q \in Procs, proc[q] \in {"spawning", "alive"} PROVE Held(q)'
      BY <2>1 DEF HeldInv
    <3>1. Held(q)
      BY DEF Inv, HeldInv
    <3> QED
      BY <2>1, <3>1 DEF Held, attributes
  <2>5. ProcInv'
    <3>1. IsRunning' => IsRunning
      BY <2>1 DEF IsRunning, Runs, attributes
    <3>2. \A c \in Calls : <<"spawned", c>> \in Procs
      BY DEF Procs
    <3>3. process # NoProc => process \in Procs
      BY DEF Types, BuiltType
    <3> QED
      BY <2>1, <3>1, <3>2, <3>3 DEF Inv, ProcInv, Runs, attributes
  <2> QED
    BY <2>3, <2>4, <2>5 DEF Inv
<1> QED
  BY <1>3, <1>4, <1>5, <1>6 DEF StopSteps
-----------------------------------------------------------------------------
(* The manager and the processes.                                          *)

\* A call takes its turn: the bridge is empty.
LEMMA TurnIsClean ==
    ASSUME Calm, Types, Inv, Turn
    PROVE  /\ Starting = {} /\ Sweeping = {}
           /\ process = NoProc /\ videoRtp = None /\ \A m \in Media : endpoint[m] = None
<1>1. /\ Starting = {} /\ Sweeping = {}
      /\ \A c \in Calls : start[c].pc = "idle" \/ Passed(start[c])
  BY DEF Turn, Calm, Sweeping, Passed
<1>2. \A c \in Calls : ~Serves(c)
  BY <1>1 DEF Serves, Built, Media
<1>3. /\ videoRtp # None => videoRtp \in Calls
      /\ \A m \in Media : endpoint[m] # None => endpoint[m] \in Calls
  BY DEF Types, BuiltType, Ref
<1> QED
  BY <1>1, <1>2, <1>3 DEF Inv, SweptInv

LEMMA StartKeeps == ASSUME Calm, Types, Types', Inv, NEW c \in Calls, Start(c) PROVE Inv'
<1>1. /\ Starting = {} /\ Sweeping = {} /\ ~IsRunning
      /\ process = NoProc /\ videoRtp = None /\ \A m \in Media : endpoint[m] = None
  BY TurnIsClean DEF Start
<1>2. /\ start[c].pc = "idle" /\ prewarm' = NoProc /\ prewarm \in Procs \union {NoProc}
      /\ UNCHANGED <<generation, cleanup, cleaning, stop>>
  BY DEF Start, Types, QueueType
<1>3. PICK video \in {"on", "off"} :
        LET s == [start[c] EXCEPT !.video = video, !.generation = generation] IN
        IF prewarm # NoProc /\ proc[prewarm] = "spawning"
          THEN At(c, s, "prewarm", prewarm) /\ UNCHANGED <<process, pushReady, videoRtp, endpoint, proc, open>>
          ELSE Consume(c, s, prewarm)
  BY DEF Start
<1> DEFINE s == [start[c] EXCEPT !.video = video, !.generation = generation]
<1>4. s \in StartRecord /\ s.generation = generation /\ generation \in Int
  <2>1. start[c] \in StartRecord /\ generation \in 0 .. NumStops
    BY TypesAreTypeOK DEF Types, TasksType, TypeOK
  <2>2. video \in {"on", "off"}
    BY <1>3
  <2>3. s \in StartRecord
    BY <2>1, <2>2 DEF StartRecord
  <2>4. s.generation = generation
    BY <2>1 DEF StartRecord
  <2> QED
    BY <2>1, <2>3, <2>4, StopsAssumption
<1> HIDE DEF s
<1>5. s.generation <= generation /\ Starting \subseteq {c}
  BY <1>1, <1>4
<1>6. CASE /\ prewarm # NoProc /\ proc[prewarm] = "spawning"
           /\ At(c, s, "prewarm", prewarm)
           /\ UNCHANGED <<process, pushReady, videoRtp, endpoint, proc, open>>
  <2>1. Acts(c, s)
    BY <1>1, <1>2, <1>4, <1>5, <1>6, ActsAt
  <2>2. /\ TurnInv' /\ Starting' \subseteq {c} /\ Sweeping' = Sweeping
        /\ \A d \in Calls \ {c} : start'[d] = start[d] /\ start[d].pc \notin InFlight
    BY <2>1, ActsTurn
  <2>3. start'[c].pc = "prewarm" /\ start'[c].held = prewarm
    BY <1>4, <1>6, AtIs DEF Types
  <2>4. HeldInv'
    <3> SUFFICES ASSUME NEW q \in Procs, proc[q] \in {"spawning", "alive"} PROVE Held(q)'
      BY <1>6 DEF HeldInv
    <3>1. Held(q)
      BY DEF Inv, HeldInv
    <3>2. ~\E d \in Calls : start[d].pc \in {"prewarm", "spawn"} /\ start[d].held = q
      BY <1>2, <2>2 DEF InFlight
    <3> QED
      BY <1>2, <1>6, <2>3, <3>1, <3>2 DEF Held
  <2>5. ProcInv'
    <3>1. ~IsRunning'
      BY <1>1, <1>6 DEF IsRunning, Runs
    <3>2. \A d \in Calls :
            /\ start'[d].pc \in {"idle", "prewarm", "discard"} => proc'[<<"spawned", d>>] = "none"
            /\ start'[d].pc # "spawn"
      BY <1>2, <1>6, <2>2, <2>3 DEF Inv, ProcInv, InFlight
    <3> QED
      BY <1>1, <1>2, <1>6, <3>1, <3>2 DEF ProcInv
  <2>6. OwnInv'
    BY <1>1, <1>6, <2>2, <2>3 DEF OwnInv, Built, Media
  <2>7. SweptInv' /\ EndpointHeld'
    BY <1>1, <1>6 DEF SweptInv, Inv, EndpointHeld
  <2> QED
    BY <2>2, <2>4, <2>5, <2>6, <2>7 DEF Inv
<1>7. CASE Consume(c, s, prewarm) /\ ~(prewarm # NoProc /\ proc[prewarm] = "spawning")
  <2>1. prewarm \in Procs => proc[prewarm] # "spawning"
    BY <1>7 DEF NoProc, Procs
  <2> QED
    BY <1>1, <1>2, <1>4, <1>5, <1>7, <2>1, ConsumeKeeps
<1> QED
  BY <1>3, <1>6, <1>7 DEF s

LEMMA CancelStartKeeps == ASSUME Types, Types', Inv, NEW c \in Calls, CancelStart(c) PROVE Inv'
<1> DEFINE procs == IF start[c].pc = "spawn" THEN [proc EXCEPT ![start[c].held] = "gone"] ELSE proc
<1>1. /\ Unwind(c, start[c], process, {}, procs) /\ start[c].pc \in InFlight
      /\ UNCHANGED <<generation, cleanup, cleaning, stop>>
      /\ prewarm' = PutBack(start[c])
  BY DEF CancelStart
<1>2. /\ procs \in ProcStates
      /\ start[c].pc = "spawn" => procs[start[c].held] = "gone"
      /\ \A q \in Procs : procs[q] \in {"spawning", "alive", "none"} \/ proc[q] = "none" => procs[q] = proc[q]
  BY DEF Types, BuiltType, ProcStates, Inv, ProcInv
<1> HIDE DEF procs
<1>3. Acts(c, start[c])
  BY <1>1, InFlightActs DEF Unwind
<1>4. /\ start[c].pc = "prewarm" => prewarm = NoProc /\ prewarm' = start[c].held
      /\ start[c].pc # "prewarm" => prewarm' = prewarm
  BY <1>1 DEF PutBack, Inv, ProcInv
<1>5. process \in Procs \union {NoProc} /\ (process \in Procs => proc[process] # "spawning")
  BY DEF Types, BuiltType, Inv, ProcInv, NoProc, Procs
<1>6. start[c].pc \in {"prewarm", "spawn"} =>
        start[c].held \in {prewarm', process, NoProc} \/ procs[start[c].held] \notin {"spawning", "alive"}
  BY <1>2, <1>4
<1> QED
  BY <1>1, <1>2, <1>3, <1>4, <1>5, <1>6, UnwindKeeps

LEMMA ManagerKeeps == ASSUME Calm, Types, Types', Inv, Manager PROVE Inv'
<1>1. ASSUME NEW c \in Calls, Prewarm(c) PROVE Inv'
  <2> DEFINE p == <<"prewarmed", c>>
  <2>1. /\ Starting = {} /\ Sweeping = {}
        /\ process = NoProc /\ videoRtp = None /\ \A m \in Media : endpoint[m] = None
    BY <1>1, TurnIsClean DEF Prewarm
  <2>2. /\ prewarm = NoProc /\ prewarm' = p /\ p \in Procs
        /\ \A q \in Procs \ {p} : proc'[q] = proc[q]
        /\ \A d \in Calls : <<"spawned", d>> \in Procs \ {p}
        /\ UNCHANGED <<generation, cleaning, process, videoRtp, endpoint, open, start, stop>>
    BY <1>1 DEF Prewarm, Procs, Types, BuiltType, ProcStates
  <2>3. HeldInv'
    <3> SUFFICES ASSUME NEW q \in Procs, q # p, proc[q] \in {"spawning", "alive"} PROVE Held(q)'
      BY <2>2 DEF HeldInv, Held
    <3>1. Held(q) /\ q # NoProc
      BY DEF Inv, HeldInv, NoProc, Procs
    <3> QED
      BY <2>2, <3>1 DEF Held
  <2>4. ProcInv'
    <3>1. \A d \in Calls : start[d].pc \notin Early
      BY <2>1 DEF Starting, InFlight, Early
    <3> QED
      BY <2>1, <2>2, <3>1 DEF Inv, ProcInv, Early
  <2>5. TurnInv' /\ OwnInv' /\ SweptInv' /\ EndpointHeld'
    BY <2>1, <2>2 DEF Inv, TurnInv, OwnInv, SweptInv, EndpointHeld, Starting, Sweeping, Passed
  <2> QED
    BY <2>3, <2>4, <2>5 DEF Inv
<1>2. ASSUME NEW c \in Calls, StartReturnsUrl(c) PROVE Inv'
  <2> DEFINE s == [start[c] EXCEPT !.generation = generation]
  <2>1. s \in StartRecord /\ s.generation = generation /\ generation \in Int
    <3>1. start[c] \in StartRecord /\ generation \in 0 .. NumStops
      BY TypesAreTypeOK DEF Types, TasksType, TypeOK
    <3> QED
      BY <3>1, StopsAssumption DEF StartRecord
  <2> HIDE DEF s
  <2>2. /\ start[c].pc = "idle" /\ At(c, s, "returned", NoProc)
        /\ UNCHANGED <<generation, attributes, cleaning, proc, open, stop>>
    BY <1>2 DEF StartReturnsUrl, s
  <2>3. /\ start'[c].pc = "returned" /\ start'[c].generation = generation
        /\ \A d \in Calls \ {c} : start'[d] = start[d]
    BY <2>1, <2>2, AtIs DEF Types, TasksType
  <2>4. Starting' = Starting /\ Sweeping' = Sweeping /\ c \notin Starting
    BY <2>2, <2>3 DEF Starting, Sweeping, InFlight, Wrapping, Media
  <2>5. TurnInv'
    BY <2>1, <2>2, <2>3, <2>4 DEF Inv, TurnInv, Passed, Starting
  <2>6. HeldInv'
    BY <2>2, <2>3 DEF Inv, HeldInv, Held, attributes
  <2>7. ProcInv'
    BY <2>2, <2>3 DEF Inv, ProcInv, IsRunning, Runs, Early, attributes
  <2>8. OwnInv'
    BY <2>2, <2>3, <2>4 DEF Inv, OwnInv, Passed, Starting, attributes
  <2>9. SweptInv' /\ EndpointHeld'
    <3>1. \A d \in Calls : Serves(d) => Serves(d)'
      BY <2>2, <2>3 DEF Serves, Passed, Built, Media
    <3>2. /\ videoRtp # None => videoRtp \in Calls
          /\ \A m \in Media : endpoint[m] # None => endpoint[m] \in Calls
      BY DEF Types, BuiltType, Ref
    <3> QED
      BY <2>2, <2>4, <3>1, <3>2 DEF Inv, SweptInv, EndpointHeld, attributes
  <2> QED
    BY <2>5, <2>6, <2>7, <2>8, <2>9 DEF Inv
<1>3. CASE CancelPrewarm
  <2>1. TurnInv' /\ OwnInv' /\ SweptInv' /\ EndpointHeld'
    BY <1>3 DEF CancelPrewarm, Inv, TurnInv, OwnInv, SweptInv, EndpointHeld, Starting, Sweeping, Passed, Serves
  <2>2. HeldInv' /\ ProcInv'
    BY <1>3 DEF CancelPrewarm, CleanPrewarm, Inv, HeldInv, Held, ProcInv, IsRunning, Runs
  <2> QED
    BY <2>1, <2>2 DEF Inv
<1> QED
  BY <1>1, <1>2, <1>3, StartKeeps, CancelStartKeeps, StopKeeps DEF Manager

\* Processes start, exit and are killed by themselves.
LEMMA ProcessKeeps ==
    ASSUME Types, Types', Inv, NEW p \in Procs, ProcSteps(p) \/ Exits(p) PROVE Inv'
<1>1. /\ UNCHANGED <<generation, attributes, open, start, stop>>
      /\ \A q \in Procs \ {p} : proc'[q] = proc[q]
      /\ \/ proc[p] = "spawning" /\ proc'[p] \in {"alive", "failed"}
         \/ proc'[p] = proc[p]
         \/ Runs(p) /\ proc'[p] \in {"killed", "gone"}
      /\ cleaning' = cleaning \/ (cleaning' = cleaning \ {p} /\ proc'[p] \notin {"spawning", "alive"})
  BY DEF ProcSteps, SpawnCompletes, CleanupKills, CleanupEnds, Exits, Killed, Runs, attributes, Types, BuiltType, ProcStates
<1>2. HeldInv'
  <2> SUFFICES ASSUME NEW q \in Procs, proc'[q] \in {"spawning", "alive"} PROVE Held(q)'
    BY DEF HeldInv
  <2>1. proc[q] \in {"spawning", "alive"} /\ (q \in cleaning => q \in cleaning')
    BY <1>1
  <2>2. Held(q)
    BY <2>1 DEF Inv, HeldInv
  <2> QED
    BY <1>1, <2>1, <2>2 DEF Held, attributes
<1>3. ProcInv'
  <2>1. /\ process' # NoProc => proc'[process'] \notin {"none", "spawning", "failed"}
        /\ IsRunning' => IsRunning
    BY <1>1 DEF Inv, ProcInv, IsRunning, Runs, attributes, Types, BuiltType, NoProc, Procs
  <2>2. \A c \in Calls : <<"spawned", c>> \in Procs
    BY DEF Procs
  <2> QED
    BY <1>1, <2>1, <2>2 DEF Inv, ProcInv, Runs, attributes
<1>4. TurnInv' /\ OwnInv' /\ SweptInv' /\ EndpointHeld'
  BY <1>1 DEF attributes, Inv, TurnInv, OwnInv, SweptInv, EndpointHeld, Starting, Sweeping, Passed, Serves
<1> QED
  BY <1>2, <1>3, <1>4 DEF Inv

LEMMA InvInit == Init => Inv
<1> SUFFICES ASSUME Init PROVE Inv
  OBVIOUS
<1>1. Starting = {} /\ Sweeping = {}
  BY DEF Init, Starting, Sweeping, InFlight, Wrapping, Media
<1>2. TurnInv /\ OwnInv /\ SweptInv /\ EndpointHeld
  BY <1>1 DEF Init, TurnInv, OwnInv, SweptInv, EndpointHeld
<1>3. HeldInv /\ ProcInv
  <2>1. \A c \in Calls : <<"spawned", c>> \in Procs
    BY DEF Procs
  <2> QED
    BY <2>1 DEF Init, HeldInv, ProcInv, IsRunning, Runs, Early, NoProc, Procs
<1> QED
  BY <1>2, <1>3 DEF Inv

LEMMA InvStep == ASSUME Calm, Types, Types', Inv, [Next]_vars PROVE Inv'
<1>1. CASE UNCHANGED vars
  BY <1>1 DEF vars, attributes, Inv, TurnInv, HeldInv, Held, ProcInv, OwnInv, SweptInv, EndpointHeld,
              Starting, Sweeping, Passed, Serves, IsRunning, Runs
<1> QED
  BY <1>1, ManagerKeeps, StartStepKeeps, StopStepKeeps, ProcessKeeps DEF Next
-----------------------------------------------------------------------------
(* The bridge keeps its promise.                                           *)

\* A start that is on its way has what it should have by now, and a bridge
\* that neither starts nor serves a call has nothing.
WholeInv ==
    /\ \A c \in Starting :
        /\ start[c].pc \in Early \union {"unwind"} => process = NoProc
        /\ start[c].pc \in Built /\ ~Passed(start[c]) => process # NoProc
        /\ start[c].pc \in Built \ {"audio"} /\ ~Passed(start[c]) => endpoint["audio"] = c
        /\ Passed(start[c]) /\ Sweeping = {} => process = NoProc /\ \A m \in Media : endpoint[m] = None
    /\ \A m \in Media : endpoint[m] # None => start[endpoint[m]].pc # "idle"
    /\ Served # {} => Starting = {} /\ Sweeping = {} /\ process # NoProc
    /\ Starting = {} /\ Sweeping = {} /\ Served = {} =>
        process = NoProc /\ \A m \in Media : endpoint[m] = None

Promised == [Promise!Next]_(Promise!vars)

\* How the stage is told.
LEMMA StageIs ==
    /\ Valid # {} => Stage = "starting" /\ CallsOf[Stage] = Valid
    /\ Valid = {} /\ Starting \union Sweeping # {} => Stage = "ending" /\ CallsOf[Stage] = {}
    /\ Starting = {} /\ Sweeping = {} /\ process = NoProc /\ (\A m \in Media : endpoint[m] = None) =>
        Stage = "empty" /\ CallsOf[Stage] = {}
    /\ Starting = {} /\ Sweeping = {} /\ process # NoProc => Stage = "serving" /\ CallsOf[Stage] = Served
    /\ Stage \in {"empty", "starting", "serving", "ending"}
<1>1. Starting = {} => Valid = {}
  BY DEF Valid
<1> QED
  BY <1>1 DEF Stage, CallsOf

LEMMA StageBefore ==
    ASSUME WholeInv
    PROVE  /\ Stage = "serving" => process # NoProc
           /\ Stage = "empty" => process = NoProc /\ CallsOf[Stage] = {} /\ Served = {} /\ Sweeping = {} /\ Starting = {}
                                 /\ \A m \in Media : endpoint[m] = None
           /\ Stage = "ending" => CallsOf[Stage] = {}
<1>1. Starting = {} => Valid = {}
  BY DEF Valid
<1>2. Stage = "serving" => process # NoProc
  BY <1>1 DEF Stage, WholeInv
<1>3. Stage = "empty" => /\ Starting = {} /\ Sweeping = {} /\ process = NoProc /\ CallsOf[Stage] = {}
                         /\ \A m \in Media : endpoint[m] = None
  BY DEF Stage, CallsOf
<1>4. Stage = "ending" => CallsOf[Stage] = {}
  BY DEF CallsOf
<1> QED
  BY <1>2, <1>3, <1>4 DEF WholeInv

LEMMA Stutters ==
    ASSUME Stage' = Stage, CallsOf'[Stage'] = CallsOf[Stage], process' # NoProc <=> process # NoProc
    PROVE  Promised
<1>1. (process # NoProc)' = (process # NoProc)
  BY Zenon
<1>2. (CallsOf[Stage])' = CallsOf[Stage]
  OBVIOUS
<1> QED
  BY <1>1, <1>2 DEF Promised, Promise!vars

\* The bridge lets go of all it has, or goes on having nothing.
LEMMA Cleared ==
    ASSUME Types', WholeInv, Valid' = {}, process' = NoProc, \A m \in Media : endpoint'[m] = None
    PROVE  WholeInv' /\ Promised
<1>1. Served' = {}
  BY DEF Served, Calls, None, Media
<1>2. \A c \in Starting' : start'[c].pc = "unwind" \/ Passed(start[c])'
  BY DEF Valid
<1>3. "unwind" \notin Built
  BY DEF Built, Media
<1>4. WholeInv'
  BY <1>1, <1>2, <1>3 DEF WholeInv
<1>5. /\ Stage' \in {"ending", "empty"} /\ (CallsOf[Stage])' = {}
  <2>1. /\ (Valid = {} /\ Starting \union Sweeping # {} => Stage = "ending" /\ CallsOf[Stage] = {})'
        /\ (Starting = {} /\ Sweeping = {} /\ process = NoProc /\ (\A m \in Media : endpoint[m] = None) =>
              Stage = "empty" /\ CallsOf[Stage] = {})'
    BY StageIs, PTL
  <2> QED
    BY <2>1
<1>6. (process # NoProc)' = FALSE
  OBVIOUS
<1>7. CASE Stage' = "empty" /\ Stage # "empty"
  BY <1>4, <1>5, <1>6, <1>7 DEF Promised, Promise!Next, Promise!End
<1>8. CASE Stage' = "empty" /\ Stage = "empty"
  BY <1>4, <1>5, <1>8, StageBefore, Stutters
<1>9. CASE Stage' = "ending" /\ Stage # "ending"
  BY <1>4, <1>5, <1>6, <1>9 DEF Promised, Promise!Next, Promise!Abandon
<1>10. CASE Stage' = "ending" /\ Stage = "ending"
  BY <1>4, <1>5, <1>6, <1>10, StageBefore DEF Promised, Promise!Next, Promise!Release
<1> QED
  BY <1>4, <1>5, <1>7, <1>8, <1>9, <1>10

\* A stop has still to sweep.
LEMMA Waits ==
    ASSUME WholeInv, Valid' = {}, Served' = {}, Sweeping' # {}, process' = process,
           \A c \in Starting' : start'[c].pc \in Early \union {"unwind"} => process' = NoProc,
           \A m \in Media : endpoint'[m] # None => start'[endpoint'[m]].pc # "idle"
    PROVE  WholeInv' /\ Promised
<1>1. \A c \in Starting' : start'[c].pc = "unwind" \/ Passed(start[c])'
  BY DEF Valid
<1>2. "unwind" \notin Built
  BY DEF Built, Media
<1>3. WholeInv'
  BY <1>1, <1>2 DEF WholeInv
<1>4. Stage' = "ending" /\ (CallsOf[Stage])' = {}
  <2>1. (Valid = {} /\ Starting \union Sweeping # {} => Stage = "ending" /\ CallsOf[Stage] = {})'
    BY StageIs, PTL
  <2> QED
    BY <2>1
<1>5. CASE Stage = "ending"
  BY <1>3, <1>4, <1>5, StageBefore, Stutters
<1>6. CASE Stage # "ending"
  <2>1. (process # NoProc)' \in {FALSE, process # NoProc}
    OBVIOUS
  <2> QED
    BY <1>3, <1>4, <1>6, <2>1 DEF Promised, Promise!Next, Promise!Abandon
<1> QED
  BY <1>3, <1>5, <1>6

LEMMA Untouched ==
    ASSUME WholeInv, UNCHANGED <<generation, start, process, endpoint>>, Sweeping' = Sweeping
    PROVE  WholeInv' /\ Promised
<1>1. Starting' = Starting /\ Valid' = Valid /\ Served' = Served
  BY DEF Starting, Valid, Served, Passed
<1>2. WholeInv'
  BY <1>1 DEF WholeInv, Passed
<1>3. Stage' = Stage /\ CallsOf' = CallsOf
  BY <1>1 DEF Stage, CallsOf
<1> QED
  BY <1>2, <1>3, Stutters

\* The start of c is called, or goes on to another await.
Enters(c, s) ==
    \/ s = start[c] /\ start[c].pc \in InFlight \ {"unwind"}
    \/ Stage = "empty" /\ ~Passed(s)

LEMMA GoesOn ==
    ASSUME Types, Types', Inv, Inv', WholeInv, NEW c \in Calls, NEW s, Acts(c, s), Enters(c, s), ~Passed(s),
           start'[c].pc \in InFlight \ {"unwind"},
           process # NoProc => process' # NoProc,
           start'[c].pc \in Early => process' = NoProc,
           start'[c].pc \in Built => process' # NoProc,
           start'[c].pc \in Built \ {"audio"} => endpoint'["audio"] = c
    PROVE  WholeInv' /\ Promised
<1>1. /\ Starting' = {c} /\ Sweeping' = {} /\ ~Passed(start[c])'
  BY ActsTurn DEF Acts, Starting
<1>2. Valid' = {c} /\ Served' = {}
  <2>1. Valid' = {c}
    BY <1>1 DEF Valid
  <2>2. \A d \in Calls : endpoint'["audio"] = d => d = c
    BY <1>1 DEF Inv, OwnInv, Media, Calls, None
  <2>3. start'[c].pc # "returned"
    BY DEF InFlight, Wrapping, Media
  <2> QED
    BY <2>1, <2>2, <2>3 DEF Served
<1>3. WholeInv'
  <2>1. \A m \in Media : endpoint'[m] \in {None, c}
    BY <1>1 DEF Inv, OwnInv
  <2>2. start'[c].pc # "idle"
    BY DEF Acts
  <2> QED
    BY <1>1, <1>2, <2>1, <2>2 DEF WholeInv
<1>4. Stage' = "starting" /\ (CallsOf[Stage])' = {c}
  <2>1. (Valid # {} => Stage = "starting" /\ CallsOf[Stage] = Valid)'
    BY StageIs, PTL
  <2> QED
    BY <1>2, <2>1
<1>5. CASE Stage = "empty"
  BY <1>3, <1>4, <1>5 DEF Promised, Promise!Next, Promise!Begin
<1>6. CASE Stage # "empty"
  <2>1. s = start[c] /\ start[c].pc \in InFlight \ {"unwind"}
    BY <1>6 DEF Enters
  <2>2. Valid = {c}
    BY <2>1 DEF Valid, Acts, Starting
  <2>3. Stage = "starting" /\ CallsOf[Stage] = {c}
    BY <2>2, StageIs
  <2>4. CASE process # NoProc \/ process' = NoProc
    BY <1>3, <1>4, <2>3, <2>4, Stutters
  <2>5. CASE process = NoProc /\ process' # NoProc
    <3>1. (process # NoProc)' = TRUE /\ ~(process # NoProc)
      BY <2>5
    <3> QED
      BY <1>3, <1>4, <2>3, <3>1 DEF Promised, Promise!Next, Promise!TakeUp
  <2> QED
    BY <2>4, <2>5
<1> QED
  BY <1>3, <1>5, <1>6

\* An ffmpeg is awaited, or its end.
LEMMA EarlyGoesOn ==
    ASSUME Types, Types', Inv, Inv', WholeInv, NEW c \in Calls, NEW s, Acts(c, s), Enters(c, s),
           start'[c].pc \in Early, process' = NoProc, process = NoProc,
           \A m \in Media : endpoint'[m] = None
    PROVE  WholeInv' /\ Promised
<1>1. start'[c].pc \in InFlight \ {"unwind"} /\ start'[c].pc \notin Built
  BY DEF Early, InFlight, Built, Media
<1>2. CASE Passed(s)
  <2>1. Starting' \subseteq {c} /\ Passed(start[c])'
    BY <1>2, ActsTurn
  <2>2. Valid' = {}
    BY <2>1 DEF Valid
  <2> QED
    BY <2>2, Cleared
<1>3. CASE ~Passed(s)
  BY <1>1, <1>3, GoesOn
<1> QED
  BY <1>2, <1>3

LEMMA UnwindClears ==
    ASSUME Types, Types', Inv, Inv', WholeInv, NEW c \in Calls, NEW s, Acts(c, s),
           NEW p, NEW wrapped, NEW procs, Unwind(c, s, p, wrapped, procs)
    PROVE  WholeInv' /\ Promised
<1>1. Starting' \subseteq {c}
  BY ActsTurn
<1>2. start'[c].pc \in {"unwind", "failed"}
  <2>1. At(c, s, "unwind", p) \/ At(c, s, "failed", NoProc)
    BY DEF Unwind
  <2>2. s \in StartRecord /\ TasksType
    BY DEF Acts, Types
  <2> QED
    BY <2>1, <2>2, AtIs
<1>3. Valid' = {}
  BY <1>1, <1>2 DEF Valid, Starting, InFlight, Wrapping, Media
<1>4. process' = NoProc /\ \A m \in Media : endpoint'[m] = None
  BY DEF Unwind
<1> QED
  BY <1>3, <1>4, Cleared

\* The ffmpeg is there.
LEMMA AssignPromised ==
    ASSUME Types, Types', Inv, Inv', WholeInv, NEW c \in Calls, NEW s, Acts(c, s), Enters(c, s),
           NEW p \in Procs, Assign(c, s, p), process = NoProc
    PROVE  WholeInv' /\ Promised
<1>1. CASE Passed(s)
  BY <1>1, UnwindClears DEF Assign
<1>2. CASE ~Passed(s)
  <2>1. process' = p /\ p # NoProc /\ At(c, s, "audio", p)
    BY <1>2 DEF Assign, Procs, NoProc
  <2>2. start'[c].pc = "audio"
    BY <2>1, AtIs DEF Acts, Types
  <2> QED
    BY <1>2, <2>1, <2>2, GoesOn DEF Early, InFlight, Wrapping, Media
<1> QED
  BY <1>1, <1>2

LEMMA SpawnPromised ==
    ASSUME Types, Types', Inv, Inv', WholeInv, NEW c \in Calls, NEW s, Acts(c, s), Enters(c, s),
           SpawnNow(c, s), process = NoProc, \A m \in Media : endpoint[m] = None
    PROVE  WholeInv' /\ Promised
<1>1. start'[c].pc = "spawn"
  BY AtIs DEF SpawnNow, Acts, Types
<1> QED
  BY <1>1, EarlyGoesOn DEF SpawnNow, Early

LEMMA ConsumePromised ==
    ASSUME Types, Types', Inv, Inv', WholeInv, NEW c \in Calls, NEW s, Acts(c, s), Enters(c, s),
           NEW p, Consume(c, s, p), process = NoProc, \A m \in Media : endpoint[m] = None
    PROVE  WholeInv' /\ Promised
<1>1. CASE Runs(p) /\ Assign(c, s, p)
  BY <1>1, AssignPromised DEF Runs
<1>2. CASE At(c, s, "discard", p) /\ UNCHANGED <<process, endpoint>>
  <2>1. start'[c].pc = "discard"
    BY <1>2, AtIs DEF Acts, Types
  <2> QED
    BY <1>2, <2>1, EarlyGoesOn DEF Early
<1>3. CASE SpawnNow(c, s)
  BY <1>3, SpawnPromised
<1> QED
  BY <1>1, <1>2, <1>3 DEF Consume

LEMMA WrappedPromised ==
    ASSUME Types, Types', Inv, Inv', WholeInv, NEW c \in Calls, NEW m \in Media, Wrapped(c, m)
    PROVE  WholeInv' /\ Promised
<1>1. /\ start[c] \in StartRecord /\ start[c].pc = m /\ c \in Starting /\ TasksType
      /\ start[c].pc \in Built /\ start[c].pc \in InFlight \ {"unwind"}
      /\ UNCHANGED <<generation, prewarm, cleanup, cleaning, stop>>
  BY DEF Wrapped, Types, TasksType, Starting, InFlight, Wrapping, Built, Media, outside
<1>2. CASE Unwind(c, start[c], process, {m}, proc)
  <2>1. Acts(c, start[c])
    BY <1>1, <1>2, InFlightActs DEF Unwind
  <2> QED
    BY <1>2, <2>1, UnwindClears
<1>3. CASE /\ (m = "video" /\ videoRtp # None) \/ ~Passed(start[c])
           /\ endpoint' = [endpoint EXCEPT ![m] = c]
           /\ Proceed(c, start[c], After(start[c], m))
           /\ UNCHANGED <<process, pushReady, proc>>
  <2>1. ~Passed(start[c]) => pushReady # None
    BY <1>1 DEF Inv, OwnInv, Calls, None
  <2>2. m = "video" /\ videoRtp # None => After(start[c], m) = "rtcp"
    BY DEF After
  <2>3. /\ At(c, start[c], After(start[c], m), start[c].held)
        /\ After(start[c], m) \in {"video", "rtcp", "push"}
    BY <1>1, <1>3, <2>1, <2>2 DEF Proceed, After, Media
  <2>4. Acts(c, start[c]) /\ start'[c].pc \in {"video", "rtcp", "push"}
    BY <1>1, <2>3, InFlightActs, AtIs
  <2>5. start'[c].pc \in InFlight \ {"unwind"} /\ start'[c].pc \in Built \ {"audio"} /\ start'[c].pc \notin Early
    BY <2>4 DEF InFlight, Wrapping, Media, Built, Early
  <2>6. CASE ~Passed(start[c])
    <3>1. process' = process /\ process # NoProc
      BY <1>1, <1>3, <2>6 DEF WholeInv
    <3>2. endpoint'["audio"] = c
      BY <1>1, <1>3, <2>6 DEF WholeInv, Types, BuiltType, Media
    <3> QED
      BY <1>1, <2>4, <2>5, <2>6, <3>1, <3>2, GoesOn DEF Enters
  <2>7. CASE Passed(start[c])
    <3>1. Sweeping # {}
      BY <1>1, <1>3, <2>7 DEF Inv, SweptInv, Serves, OwnInv
    <3>2. /\ Starting' \subseteq {c} /\ Sweeping' # {} /\ Passed(start[c])'
          /\ \A d \in Calls \ {c} : start'[d] = start[d]
      BY <2>4, <2>7, <3>1, ActsTurn
    <3>3. Valid' = {}
      BY <3>2 DEF Valid
    <3>4. \A k \in Media : endpoint'[k] \in {None, c}
      BY <1>1, <1>3 DEF Inv, OwnInv, Types, BuiltType
    <3>5. Served' = {}
      BY <2>4, <3>4 DEF Served, Media, Calls, None
    <3> QED
      BY <1>3, <2>4, <2>5, <3>2, <3>3, <3>4, <3>5, Waits DEF InFlight, Wrapping, Media
  <2> QED
    BY <2>6, <2>7
<1> QED
  BY <1>2, <1>3 DEF Wrapped

\* A start ends, having nothing.
LEMMA EmptyEnds ==
    ASSUME Types, Types', Inv, Inv', WholeInv, NEW c \in Calls, Acts(c, start[c]),
           start'[c].pc = "failed", process = NoProc, process' = NoProc, endpoint' = endpoint,
           \A m \in Media : endpoint[m] = None
    PROVE  WholeInv' /\ Promised
<1>1. Starting' \subseteq {c}
  BY ActsTurn
<1>2. Valid' = {}
  BY <1>1 DEF Valid, Starting, InFlight, Wrapping, Media
<1> QED
  BY <1>2, Cleared

LEMMA ReturnsServes ==
    ASSUME Types, Types', Inv, Inv', WholeInv, NEW c \in Calls, Acts(c, start[c]),
           start[c].pc = "push", start'[c].pc = "returned", ~Passed(start[c]),
           UNCHANGED <<process, endpoint>>
    PROVE  WholeInv' /\ Promised
<1>1. /\ Starting' \subseteq {c} /\ ~Passed(start[c])' /\ Sweeping' = {}
      /\ \A d \in Calls \ {c} : start'[d] = start[d]
  BY ActsTurn DEF Acts
<1>2. c \in Starting /\ Valid = {c} /\ process # NoProc /\ endpoint["audio"] = c
  <2>1. c \in Starting /\ start[c].pc \in Built \ {"audio"}
    BY DEF Starting, InFlight, Built, Media
  <2>2. process # NoProc /\ endpoint["audio"] = c
    BY <2>1 DEF WholeInv
  <2>3. Valid = {c}
    BY <2>1 DEF Valid, Acts
  <2> QED
    BY <2>1, <2>2, <2>3
<1>3. Starting' = {}
  BY <1>1 DEF Starting, InFlight, Wrapping, Media
<1>4. Served' = {c}
  BY <1>1, <1>2, <1>3 DEF Served
<1>5. \A m \in Media : endpoint[m] \in {None, c}
  BY <1>2 DEF Inv, OwnInv
<1>6. WholeInv'
  BY <1>1, <1>2, <1>3, <1>4, <1>5 DEF WholeInv
<1>7. Stage = "starting" /\ CallsOf[Stage] = {c}
  BY <1>2, StageIs
<1>8. Stage' = "serving" /\ (CallsOf[Stage])' = {c}
  <2>1. (Starting = {} /\ Sweeping = {} /\ process # NoProc => Stage = "serving" /\ CallsOf[Stage] = Served)'
    BY StageIs, PTL
  <2> QED
    BY <1>1, <1>2, <1>3, <1>4, <2>1
<1>9. process # NoProc /\ (process # NoProc)' = (process # NoProc)
  BY <1>2, Zenon
<1> QED
  BY <1>6, <1>7, <1>8, <1>9 DEF Promised, Promise!Next, Promise!Serve

LEMMA StartStepPromised ==
    ASSUME Types, Types', Inv, Inv', WholeInv, NEW c \in Calls, StartSteps(c)
    PROVE  WholeInv' /\ Promised
<1>1. /\ start[c] \in StartRecord /\ TasksType
      /\ start[c].pc \in InFlight /\ c \in Starting
      /\ UNCHANGED <<generation, prewarm, cleanup, cleaning, stop>>
  BY DEF StartSteps, StartConsumes, StartDiscarded, StartRaises, StartSpawned, WrapFails, RtcpFails,
         StartEnds, Unwound, Wrapped, outside, attributes, Starting, InFlight, Wrapping, Media, Types, TasksType
<1>2. /\ start[c].pc \in Early \union {"unwind"} => process = NoProc
      /\ start[c].pc \in Early \union {"unwind"} => \A m \in Media : endpoint[m] = None
      /\ start[c].pc \in Built /\ ~Passed(start[c]) => process # NoProc /\ pushReady # None
  BY <1>1 DEF WholeInv, Inv, OwnInv, Calls, None
<1>3. ASSUME Unwind(c, start[c], process, {}, proc) PROVE WholeInv' /\ Promised
  <2>1. Acts(c, start[c])
    BY <1>1, <1>3, InFlightActs DEF Unwind
  <2> QED
    BY <1>3, <2>1, UnwindClears
<1>4. CASE StartConsumes(c)
  <2>1. start[c].pc = "prewarm" /\ Consume(c, start[c], start[c].held)
    BY <1>4 DEF StartConsumes
  <2>2. Acts(c, start[c])
    BY <1>1, <2>1, InFlightActs DEF Consume, Assign, Unwind, SpawnNow
  <2> QED
    BY <1>1, <1>2, <2>1, <2>2, ConsumePromised DEF Enters, Early
<1>5. CASE StartDiscarded(c)
  <2>1. start[c].pc = "discard" /\ SpawnNow(c, start[c])
    BY <1>5 DEF StartDiscarded
  <2>2. Acts(c, start[c])
    BY <1>1, <2>1, InFlightActs DEF SpawnNow
  <2> QED
    BY <1>1, <1>2, <2>1, <2>2, SpawnPromised DEF Enters, Early
<1>6. CASE StartRaises(c)
  <2>1. start[c].pc = "spawn" /\ At(c, start[c], "failed", NoProc) /\ UNCHANGED <<process, endpoint>>
    BY <1>6 DEF StartRaises, attributes
  <2>2. Acts(c, start[c]) /\ start'[c].pc = "failed"
    BY <1>1, <2>1, InFlightActs, AtIs
  <2> QED
    BY <1>2, <2>1, <2>2, EmptyEnds DEF Early
<1>7. CASE StartSpawned(c)
  <2>1. start[c].pc = "spawn" /\ Assign(c, start[c], start[c].held) /\ start[c].held \in Procs
    BY <1>7 DEF StartSpawned, Inv, ProcInv
  <2>2. Acts(c, start[c])
    BY <1>1, <2>1, InFlightActs DEF Assign, Unwind
  <2> QED
    BY <1>1, <1>2, <2>1, <2>2, AssignPromised DEF Enters, Early
<1>8. CASE WrapFails(c)
  BY <1>3, <1>8 DEF WrapFails
<1>9. CASE RtcpFails(c)
  <2>1. CASE Passed(start[c])
    BY <1>3, <1>9, <2>1 DEF RtcpFails
  <2>2. CASE ~Passed(start[c])
    <3>1. /\ start[c].pc = "rtcp" /\ start[c].pc \in Built \ {"audio"} /\ start[c].pc \in InFlight \ {"unwind"}
          /\ UNCHANGED <<process, endpoint>>
      BY <1>9, <2>2 DEF RtcpFails, Built, Media, InFlight, Wrapping
    <3>2. At(c, start[c], "push", start[c].held)
      BY <1>2, <1>9, <2>2, <3>1 DEF RtcpFails, Proceed
    <3>3. Acts(c, start[c]) /\ start'[c].pc = "push"
      BY <1>1, <3>2, InFlightActs, AtIs
    <3>4. process # NoProc /\ endpoint["audio"] = c
      BY <1>1, <2>2, <3>1 DEF WholeInv
    <3> QED
      BY <2>2, <3>1, <3>3, <3>4, GoesOn DEF Enters, InFlight, Early
  <2> QED
    BY <2>1, <2>2
<1>10. CASE StartEnds(c)
  <2>1. CASE Passed(start[c])
    BY <1>3, <1>10, <2>1 DEF StartEnds
  <2>2. CASE ~Passed(start[c])
    <3>1. start[c].pc = "push" /\ At(c, start[c], "returned", NoProc) /\ UNCHANGED <<process, endpoint>>
      BY <1>10, <2>2 DEF StartEnds
    <3>2. Acts(c, start[c]) /\ start'[c].pc = "returned"
      BY <1>1, <3>1, InFlightActs, AtIs
    <3> QED
      BY <2>2, <3>1, <3>2, ReturnsServes
  <2> QED
    BY <2>1, <2>2
<1>11. CASE Unwound(c)
  <2>1. start[c].pc = "unwind" /\ At(c, start[c], "failed", NoProc) /\ UNCHANGED <<process, endpoint>>
    BY <1>11 DEF Unwound
  <2>2. Acts(c, start[c]) /\ start'[c].pc = "failed"
    BY <1>1, <2>1, InFlightActs, AtIs
  <2> QED
    BY <1>2, <2>1, <2>2, EmptyEnds
<1>12. CASE \E m \in Media : Wrapped(c, m)
  BY <1>12, WrappedPromised
<1> QED
  BY <1>4, <1>5, <1>6, <1>7, <1>8, <1>9, <1>10, <1>11, <1>12 DEF StartSteps

\* A stop, once it has passed all starts: it waits, or sweeps.
LEMMA StopPromised ==
    ASSUME Types, Types', Inv, Inv', WholeInv, NEW s \in Stops, start' = start,
           \A c \in Starting : Passed(start[c])',
           endpoint' = endpoint => Served' = {},
           \/ process' = NoProc /\ \A m \in Media : endpoint'[m] = None
           \/ UNCHANGED <<process, endpoint>> /\ Sweeping' # {}
    PROVE  WholeInv' /\ Promised
<1>1. Starting' = Starting /\ Valid' = {}
  BY DEF Starting, Valid
<1>2. \A c \in Starting' : start'[c].pc \in Early \union {"unwind"} => process = NoProc
  BY <1>1 DEF WholeInv
<1>3. \A m \in Media : endpoint[m] # None => start[endpoint[m]].pc # "idle"
  BY DEF WholeInv
<1> QED
  BY <1>1, <1>2, <1>3, Cleared, Waits

LEMMA DiscardSweepsOrWaits ==
    ASSUME Types, NEW s \in Stops, NEW p, Discard(s, p) \/ AfterPrewarm(s) \/ Sweep(s)
    PROVE  \/ process' = NoProc /\ \A m \in Media : endpoint'[m] = None
           \/ UNCHANGED <<process, endpoint>> /\ Sweeping' # {}
<1>1. ASSUME NEW pc \in {"prewarm", "discard", "cleanup"}, NEW held, StopAt(s, pc, held) PROVE Sweeping' # {}
  BY <1>1 DEF StopAt, Sweeping, Types, TasksType
<1>2. CASE Sweep(s)
  BY <1>2 DEF Sweep
<1>3. CASE AfterPrewarm(s)
  BY <1>1, <1>2, <1>3 DEF AfterPrewarm
<1>4. CASE Discard(s, p)
  BY <1>1, <1>3, <1>4 DEF Discard
<1> QED
  BY <1>2, <1>3, <1>4

LEMMA StopFirstPromised ==
    ASSUME Types, Types', Inv, Inv', WholeInv, NEW s \in Stops, Stop(s)
    PROVE  WholeInv' /\ Promised
<1>1. start' = start
  BY DEF Stop
<1>2. \A c \in Calls : Passed(start[c])'
  <2>1. generation \in Int /\ \A c \in Calls : start[c].generation \in Int
    BY TypesAreTypeOK, StopsAssumption DEF TypeOK
  <2> QED
    BY <1>1, <2>1 DEF Stop, NextGeneration, Inv, TurnInv, Passed
<1>3. \/ process' = NoProc /\ \A m \in Media : endpoint'[m] = None
      \/ UNCHANGED <<process, endpoint>> /\ Sweeping' # {}
  <2>1. CASE StopAt(s, "prewarm", prewarm) /\ UNCHANGED <<process, endpoint>>
    BY <2>1 DEF StopAt, Sweeping, Types, TasksType
  <2> QED
    BY <2>1, DiscardSweepsOrWaits DEF Stop
<1>4. Starting \subseteq Calls /\ Served' = {}
  BY <1>2 DEF Starting, Served
<1> QED
  BY <1>1, <1>2, <1>3, <1>4, StopPromised

LEMMA StopStepPromised ==
    ASSUME Types, Types', Inv, Inv', WholeInv, NEW s \in Stops, StopSteps(s)
    PROVE  WholeInv' /\ Promised
<1>1. CASE StopDiscards(s) \/ StopDiscarded(s) \/ StopSweeps(s)
  <2>1. start' = start /\ generation' = generation /\ Sweeping # {}
    BY <1>1 DEF StopDiscards, StopDiscarded, StopSweeps, Sweeping
  <2>2. \A c \in Starting : Passed(start[c])'
    BY <2>1 DEF Inv, TurnInv, Passed
  <2>3. endpoint' = endpoint => Served' = {}
    BY <2>1 DEF WholeInv, Served, Passed
  <2>4. \/ process' = NoProc /\ \A m \in Media : endpoint'[m] = None
        \/ UNCHANGED <<process, endpoint>> /\ Sweeping' # {}
    BY <1>1, DiscardSweepsOrWaits DEF StopDiscards, StopDiscarded, StopSweeps
  <2> QED
    BY <2>1, <2>2, <2>3, <2>4, StopPromised
<1>2. CASE StopKills(s) \/ StopEnds(s)
  <2>1. UNCHANGED <<generation, start, process, endpoint>>
    BY <1>2 DEF StopKills, StopEnds, attributes
  <2>2. Sweeping' = Sweeping
    BY <1>2 DEF StopKills, StopEnds, StopAt, Sweeping, Types, TasksType
  <2> QED
    BY <2>1, <2>2, Untouched
<1> QED
  BY <1>1, <1>2 DEF StopSteps

LEMMA ManagerPromised ==
    ASSUME Calm, Types, Types', Inv, Inv', WholeInv, Manager PROVE WholeInv' /\ Promised
<1>1. ASSUME NEW c \in Calls, Prewarm(c) PROVE WholeInv' /\ Promised
  BY <1>1, Untouched DEF Prewarm, Sweeping
<1>2. ASSUME NEW c \in Calls, StartReturnsUrl(c) PROVE WholeInv' /\ Promised
  <2> DEFINE s == [start[c] EXCEPT !.generation = generation]
  <2>1. /\ start[c].pc = "idle" /\ process # NoProc /\ At(c, s, "returned", NoProc)
        /\ UNCHANGED <<generation, process, endpoint, stop>>
    BY <1>2 DEF StartReturnsUrl, attributes, IsRunning, Runs, NoProc, Procs
  <2>2. start[c] \in StartRecord /\ generation \in 0 .. NumStops
    BY TypesAreTypeOK DEF Types, TasksType, TypeOK
  <2>3. /\ start'[c].pc = "returned" /\ \A d \in Calls \ {c} : start'[d] = start[d]
    BY <2>1, <2>2 DEF At, StartRecord, Types, TasksType
  <2>4. Starting' = Starting /\ Valid' = Valid /\ Sweeping' = Sweeping /\ c \notin Starting
    BY <2>1, <2>3 DEF Starting, Valid, Sweeping, Passed, InFlight, Wrapping, Media
  <2>5. \A m \in Media : endpoint[m] # c
    BY <2>1 DEF WholeInv, Calls, None
  <2>6. Served' = Served
    BY <2>1, <2>3, <2>5 DEF Served, Passed, Media
  <2>7. \A m \in Media : endpoint[m] # None => endpoint[m] \in Calls \ {c}
    BY <2>5 DEF Types, BuiltType, Ref
  <2>8. WholeInv'
    BY <2>1, <2>3, <2>4, <2>6, <2>7 DEF WholeInv, Passed, Starting
  <2>9. Stage' = Stage /\ CallsOf' = CallsOf
    BY <2>1, <2>4, <2>6 DEF Stage, CallsOf
  <2> QED
    BY <2>1, <2>8, <2>9, Stutters
<1>3. ASSUME NEW c \in Calls, Start(c) PROVE WholeInv' /\ Promised
  <2>1. /\ Starting = {} /\ Sweeping = {} /\ process = NoProc /\ \A m \in Media : endpoint[m] = None
    BY <1>3, TurnIsClean DEF Start
  <2>2. Stage = "empty"
    BY <2>1, StageIs
  <2>3. PICK video \in {"on", "off"} :
          LET s == [start[c] EXCEPT !.video = video, !.generation = generation] IN
          IF prewarm # NoProc /\ proc[prewarm] = "spawning"
            THEN At(c, s, "prewarm", prewarm) /\ UNCHANGED <<process, endpoint>>
            ELSE Consume(c, s, prewarm)
    BY <1>3 DEF Start
  <2> DEFINE s == [start[c] EXCEPT !.video = video, !.generation = generation]
  <2>4. s \in StartRecord /\ s.generation = generation /\ s.generation <= generation
    <3>1. start[c] \in StartRecord /\ generation \in 0 .. NumStops
      BY TypesAreTypeOK DEF Types, TasksType, TypeOK
    <3>2. s \in StartRecord /\ s.generation = generation
      BY <2>3, <3>1 DEF StartRecord
    <3> QED
      BY <3>1, <3>2, StopsAssumption
  <2> HIDE DEF s
  <2>5. Enters(c, s)
    BY <2>2, <2>4 DEF Enters, Passed
  <2>6. UNCHANGED <<generation, cleanup, cleaning, stop>>
    BY <1>3 DEF Start
  <2>7. CASE At(c, s, "prewarm", prewarm) /\ UNCHANGED <<process, endpoint>>
    <3>1. Acts(c, s) /\ start'[c].pc = "prewarm"
      BY <2>1, <2>4, <2>6, <2>7, ActsAt, AtIs DEF Types
    <3> QED
      BY <2>1, <2>5, <2>7, <3>1, EarlyGoesOn DEF Early
  <2>8. CASE Consume(c, s, prewarm)
    <3>1. Acts(c, s)
      BY <2>1, <2>4, <2>6, <2>8, ActsAt DEF Consume, Assign, Unwind, SpawnNow
    <3> QED
      BY <2>1, <2>5, <2>8, <3>1, ConsumePromised
  <2> QED
    BY <2>3, <2>7, <2>8 DEF s
<1>4. ASSUME NEW c \in Calls, CancelStart(c) PROVE WholeInv' /\ Promised
  <2>1. PICK procs : Unwind(c, start[c], process, {}, procs)
    BY <1>4 DEF CancelStart
  <2>2. Acts(c, start[c])
    BY <1>4, <2>1, InFlightActs DEF CancelStart, Unwind
  <2> QED
    BY <2>1, <2>2, UnwindClears
<1>5. CASE CancelPrewarm
  BY <1>5, Untouched DEF CancelPrewarm, Sweeping
<1> QED
  BY <1>1, <1>2, <1>3, <1>4, <1>5, StopFirstPromised DEF Manager

LEMMA WholeInit == Init => WholeInv /\ Promise!Init
<1> SUFFICES ASSUME Init PROVE WholeInv /\ Promise!Init
  OBVIOUS
<1>1. Starting = {} /\ Sweeping = {} /\ Served = {}
  BY DEF Init, Starting, Sweeping, Served, InFlight, Wrapping, Media
<1>2. process = NoProc /\ \A m \in Media : endpoint[m] = None
  BY DEF Init
<1>3. Stage = "empty" /\ CallsOf[Stage] = {}
  BY <1>1, <1>2, StageIs
<1>4. (process # NoProc) = FALSE
  BY <1>2, Zenon
<1> QED
  BY <1>1, <1>2, <1>3, <1>4 DEF WholeInv, Promise!Init

LEMMA StepPromised ==
    ASSUME Calm, Types, Types', Inv, WholeInv, [Next]_vars PROVE WholeInv' /\ Promised
<1>1. Inv'
  BY InvStep
<1>2. CASE UNCHANGED vars
  BY <1>2, Untouched DEF vars, attributes, Sweeping
<1>3. ASSUME NEW p \in Procs, ProcSteps(p) \/ Exits(p) PROVE WholeInv' /\ Promised
  BY <1>3, Untouched DEF ProcSteps, SpawnCompletes, CleanupKills, CleanupEnds, Exits, attributes, Sweeping
<1> QED
  BY <1>1, <1>2, <1>3, ManagerPromised, StartStepPromised, StopStepPromised DEF Next
-----------------------------------------------------------------------------
(***************************************************************************)
(* Waiting, however starts and stops overlap.  A process only ever         *)
(* advances: spawned, terminated, killed, gone.  What a task waits for is  *)
(* a process on its way: one that is being spawned or has been, where it   *)
(* waits for a spawn; one that is killed, where nothing else would end it; *)
(* one that is terminated at least, where it waits with a timeout.         *)
(***************************************************************************)
Coming(p) == p \in Procs /\ proc[p] # "none"
Ending(p) == p \in Procs /\ proc[p] \in {"killed", "gone"}
Leaving(p) == p \in Procs /\ proc[p] \in {"terminated", "killed", "gone"}

StartAwaits(c) ==
    /\ start[c].pc \in {"prewarm", "spawn"} => Coming(start[c].held)
    /\ start[c].pc \in {"discard", "unwind"} => Ending(start[c].held)

StopAwaits(s) ==
    /\ stop[s].pc = "prewarm" => Coming(stop[s].held)
    /\ stop[s].pc = "discard" => Ending(stop[s].held)
    /\ stop[s].pc = "reap" => Leaving(stop[s].held)

\* No task waits for a process that nobody spawns or ends.
NobodyWaitsInVain ==
    /\ \A c \in Calls : StartAwaits(c)
    /\ \A s \in Stops : StopAwaits(s)
    /\ \A p \in cleaning : Coming(p)

\* A start that has yet to spawn its ffmpeg.
Unspawned == {"idle", "prewarm", "discard"}
Spawned(c) == <<"spawned", c>>

AwaitInv ==
    /\ NobodyWaitsInVain
    /\ prewarm # NoProc => Coming(prewarm)
    /\ \A c \in Calls : start[c].pc \in Unspawned => proc[Spawned(c)] = "none"

\* A process goes one way.
ProcessAdvances ==
    \A p \in Procs :
        /\ Coming(p) => Coming(p)'
        /\ Ending(p) => Ending(p)'
        /\ Leaving(p) => Leaving(p)'
        /\ proc[p] = "gone" => proc'[p] = "gone"

OnlySpawns(C) ==
    \A d \in Calls : proc[Spawned(d)] = "none" /\ proc'[Spawned(d)] # "none" => d \in C

\* What a step of the start c comes to, and what a step of the stop s.
StartGoes(c) ==
    /\ start' = [start EXCEPT ![c] = start'[c]]
    /\ ProcessAdvances
    /\ StartAwaits(c)'
    /\ start'[c].pc \in Unspawned => start[c].pc \in Unspawned /\ OnlySpawns({})
    /\ OnlySpawns({c})

StopGoes(s) ==
    /\ \E r : stop' = [stop EXCEPT ![s] = r]
    /\ ProcessAdvances
    /\ StopAwaits(s)'
    /\ OnlySpawns({})

LEMMA ProcsAre ==
    /\ \A c \in Calls : Spawned(c) \in Procs /\ <<"prewarmed", c>> \in Procs /\ Spawned(c) # <<"prewarmed", c>>
    /\ \A c, d \in Calls : Spawned(c) = Spawned(d) => c = d
    /\ \A c, d \in Calls : Spawned(c) # <<"prewarmed", d>>
    /\ NoProc \notin Procs
BY DEF Procs, Spawned, NoProc

\* Some processes are killed, some are found gone, the others go on.
LEMMA Advance ==
    ASSUME BuiltType,
           \A p \in Procs :
             \/ proc'[p] = proc[p]
             \/ proc[p] \in {"alive", "terminated", "killed"} /\ proc'[p] = "killed"
             \/ proc[p] \in {"alive", "terminated", "killed"} /\ proc'[p] = "gone"
             \/ proc[p] \in {"spawning", "failed"} /\ proc'[p] \in {"alive", "failed", "gone"}
             \/ proc[p] = "alive" /\ proc'[p] = "terminated"
    PROVE  ProcessAdvances /\ OnlySpawns({})
<1>1. ProcessAdvances
  BY DEF ProcessAdvances, Coming, Ending, Leaving
<1>2. OnlySpawns({})
  BY ProcsAre DEF OnlySpawns
<1> QED
  BY <1>1, <1>2

LEMMA KillAdvances ==
    ASSUME BuiltType, NEW p \in Procs, Runs(p), proc' = Killed(p) \/ proc' = [proc EXCEPT ![p] = "killed"]
    PROVE  ProcessAdvances /\ OnlySpawns({}) /\ Ending(p)'
<1>1. proc' = [proc EXCEPT ![p] = "killed"] /\ proc[p] \in {"alive", "terminated", "killed"}
  BY DEF Killed, Runs
<1>2. Ending(p)'
  BY <1>1 DEF BuiltType, ProcStates, Ending
<1>3. \A q \in Procs : proc'[q] = proc[q] \/ (proc[q] \in {"alive", "terminated", "killed"} /\ proc'[q] = "killed")
  BY <1>1 DEF BuiltType, ProcStates
<1> QED
  BY <1>2, <1>3, Advance

LEMMA UnwindGoes ==
    ASSUME TasksType, BuiltType, NEW c \in Calls, NEW s \in StartRecord,
           NEW p \in Procs \union {NoProc}, NEW wrapped, NEW procs \in ProcStates,
           \A q \in Procs : procs[q] = proc[q] \/
               (proc[q] \in {"spawning", "failed", "alive", "terminated", "killed", "gone"} /\ procs[q] = "gone"),
           Unwind(c, s, p, wrapped, procs)
    PROVE  StartGoes(c)
<1>1. CASE Runs(p)
  <2>1. proc' = [procs EXCEPT ![p] = "killed"] /\ At(c, s, "unwind", p) /\ p \in Procs
    BY <1>1 DEF Unwind, Runs
  <2>2. /\ start' = [start EXCEPT ![c] = start'[c]]
        /\ start'[c].pc = "unwind" /\ start'[c].held = p
    BY <2>1, AtIs
  <2>3. proc'[p] = "killed" /\ \A q \in Procs : q # p => proc'[q] = procs[q]
    BY <2>1 DEF ProcStates
  <2>4. proc[p] \in {"alive", "terminated", "killed"}
    BY <1>1 DEF Runs
  <2>5. ProcessAdvances
    BY <2>3, <2>4 DEF ProcessAdvances, Coming, Ending, Leaving
  <2>6. OnlySpawns({}) /\ OnlySpawns({c})
    BY <2>3, <2>4, ProcsAre DEF OnlySpawns
  <2>7. StartAwaits(c)'
    BY <2>1, <2>2, <2>3 DEF StartAwaits, Ending
  <2> QED
    BY <2>2, <2>5, <2>6, <2>7 DEF StartGoes, Unspawned
<1>2. CASE ~Runs(p)
  <2>1. proc' = procs /\ At(c, s, "failed", NoProc)
    BY <1>2 DEF Unwind
  <2>2. start' = [start EXCEPT ![c] = start'[c]] /\ start'[c].pc = "failed"
    BY <2>1, AtIs
  <2>3. ProcessAdvances
    BY <2>1 DEF ProcessAdvances, Coming, Ending, Leaving
  <2>4. OnlySpawns({}) /\ OnlySpawns({c})
    BY <2>1, ProcsAre DEF OnlySpawns
  <2> QED
    BY <2>2, <2>3, <2>4 DEF StartGoes, StartAwaits, Unspawned
<1> QED
  BY <1>1, <1>2

LEMMA SpawnGoes ==
    ASSUME TasksType, BuiltType, NEW c \in Calls, NEW s \in StartRecord,
           proc[Spawned(c)] = "none", SpawnNow(c, s)
    PROVE  StartGoes(c)
<1>1. proc' = [proc EXCEPT ![Spawned(c)] = "spawning"] /\ At(c, s, "spawn", Spawned(c))
  BY DEF SpawnNow, Spawned
<1>2. /\ start' = [start EXCEPT ![c] = start'[c]]
      /\ start'[c].pc = "spawn" /\ start'[c].held = Spawned(c)
  BY <1>1, AtIs
<1>3. proc'[Spawned(c)] = "spawning" /\ \A q \in Procs : q # Spawned(c) => proc'[q] = proc[q]
  BY <1>1, ProcsAre DEF BuiltType, ProcStates
<1>4. ProcessAdvances
  BY <1>3 DEF ProcessAdvances, Coming, Ending, Leaving
<1>5. OnlySpawns({c})
  BY <1>3, ProcsAre DEF OnlySpawns
<1>6. StartAwaits(c)'
  BY <1>2, <1>3, ProcsAre DEF StartAwaits, Coming
<1> QED
  BY <1>2, <1>4, <1>5, <1>6 DEF StartGoes, Unspawned

\* A start goes on to an await for which it holds no process.
LEMMA FreeGoes ==
    ASSUME TasksType, BuiltType, NEW c \in Calls, NEW s \in StartRecord, NEW held,
           NEW pc \in {"returned", "failed", "push"} \union Wrapping,
           At(c, s, pc, held), proc' = proc
    PROVE  StartGoes(c)
<1>1. start' = [start EXCEPT ![c] = start'[c]] /\ start'[c].pc = pc
  BY AtIs
<1>2. ProcessAdvances /\ OnlySpawns({})
  BY Advance
<1>3. pc \notin Unspawned \union {"spawn", "unwind"}
  BY DEF Unspawned, Wrapping, Media
<1> QED
  BY <1>1, <1>2, <1>3 DEF StartGoes, StartAwaits, Unspawned, OnlySpawns

LEMMA AssignGoes ==
    ASSUME TasksType, BuiltType, NEW c \in Calls, NEW s \in StartRecord,
           NEW p \in Procs \union {NoProc}, Assign(c, s, p)
    PROVE  StartGoes(c)
<1>1. CASE Passed(s)
  BY <1>1, UnwindGoes DEF Assign, BuiltType
<1>2. CASE ~Passed(s)
  BY <1>2, FreeGoes DEF Assign, Wrapping, Media
<1> QED
  BY <1>1, <1>2

LEMMA ConsumeGoes ==
    ASSUME TasksType, BuiltType, NEW c \in Calls, NEW s \in StartRecord,
           NEW p \in Procs \union {NoProc}, start[c].pc \in Unspawned, proc[Spawned(c)] = "none",
           Consume(c, s, p)
    PROVE  StartGoes(c)
<1>1. CASE Runs(p) /\ Assign(c, s, p)
  BY <1>1, AssignGoes
<1>2. CASE Runs(p) /\ proc' = Killed(p) /\ At(c, s, "discard", p)
  <2>1. ProcessAdvances /\ OnlySpawns({}) /\ Ending(p)'
    BY <1>2, KillAdvances DEF Runs
  <2>2. /\ start' = [start EXCEPT ![c] = start'[c]]
        /\ start'[c].pc = "discard" /\ start'[c].held = p
    BY <1>2, AtIs
  <2> QED
    BY <2>1, <2>2 DEF StartGoes, StartAwaits, Ending, OnlySpawns
<1>3. CASE SpawnNow(c, s)
  BY <1>3, SpawnGoes
<1> QED
  BY <1>1, <1>2, <1>3 DEF Consume

\* A step of a start keeps the invariant.
LEMMA StartGoesOn ==
    ASSUME Types, Types', AwaitInv, NEW c \in Calls, StartGoes(c), UNCHANGED <<cleaning, stop>>,
           prewarm' # NoProc => Coming(prewarm')
    PROVE  AwaitInv' /\ ProcessAdvances
<1>1. \A d \in Calls : d # c => start'[d] = start[d]
  BY DEF Types, TasksType, StartGoes
<1>2. \A d \in Calls : StartAwaits(d)'
  BY <1>1 DEF StartGoes, AwaitInv, NobodyWaitsInVain, StartAwaits, ProcessAdvances, Coming, Ending
<1>3. \A s \in Stops : StopAwaits(s)'
  BY DEF StartGoes, AwaitInv, NobodyWaitsInVain, StopAwaits, ProcessAdvances, Coming, Ending, Leaving
<1>4. \A p \in cleaning' : Coming(p)'
  BY DEF StartGoes, AwaitInv, NobodyWaitsInVain, ProcessAdvances, Coming
<1>5. prewarm' # NoProc => Coming(prewarm)'
  BY DEF StartGoes, ProcessAdvances, Coming
<1>6. ASSUME NEW d \in Calls, start'[d].pc \in Unspawned PROVE proc'[Spawned(d)] = "none"
  BY <1>1, <1>6 DEF StartGoes, OnlySpawns, AwaitInv
<1> QED
  BY <1>2, <1>3, <1>4, <1>5, <1>6 DEF AwaitInv, NobodyWaitsInVain, StartGoes

\* So does a step of a stop.
LEMMA StopGoesOn ==
    ASSUME Types, Types', AwaitInv, NEW s \in Stops, StopGoes(s), UNCHANGED <<cleaning, start>>,
           prewarm' # NoProc => Coming(prewarm')
    PROVE  AwaitInv' /\ ProcessAdvances
<1>1. \A r \in Stops : r # s => stop'[r] = stop[r]
  BY DEF Types, TasksType, StopGoes
<1>2. \A c \in Calls : StartAwaits(c)'
  BY DEF StopGoes, AwaitInv, NobodyWaitsInVain, StartAwaits, ProcessAdvances, Coming, Ending
<1>3. \A r \in Stops : StopAwaits(r)'
  BY <1>1 DEF StopGoes, AwaitInv, NobodyWaitsInVain, StopAwaits, ProcessAdvances, Coming, Ending, Leaving
<1>4. \A p \in cleaning' : Coming(p)'
  BY DEF StopGoes, AwaitInv, NobodyWaitsInVain, ProcessAdvances, Coming
<1>5. prewarm' # NoProc => Coming(prewarm)'
  BY DEF StopGoes, ProcessAdvances, Coming
<1>6. \A c \in Calls : start'[c].pc \in Unspawned => proc'[Spawned(c)] = "none"
  BY DEF StopGoes, OnlySpawns, AwaitInv
<1> QED
  BY <1>2, <1>3, <1>4, <1>5, <1>6 DEF AwaitInv, NobodyWaitsInVain, StopGoes

\* And one that leaves the tasks where they are.
LEMMA ProcessGoesOn ==
    ASSUME Types, AwaitInv, ProcessAdvances, UNCHANGED <<start, stop>>,
           \A c \in Calls : start[c].pc \in Unspawned => proc'[Spawned(c)] = proc[Spawned(c)],
           \A p \in cleaning' : Coming(p)',
           prewarm' # NoProc => Coming(prewarm)'
    PROVE  AwaitInv'
<1>1. \A c \in Calls : StartAwaits(c)'
  BY DEF AwaitInv, NobodyWaitsInVain, StartAwaits, ProcessAdvances, Coming, Ending
<1>2. \A s \in Stops : StopAwaits(s)'
  BY DEF AwaitInv, NobodyWaitsInVain, StopAwaits, ProcessAdvances, Coming, Ending, Leaving
<1> QED
  BY <1>1, <1>2 DEF AwaitInv, NobodyWaitsInVain

LEMMA SweepGoes ==
    ASSUME TasksType, BuiltType, NEW s \in Stops, Sweep(s)
    PROVE  StopGoes(s)
<1>1. CASE IsRunning
  <2>1. /\ process \in Procs /\ proc[process] \in {"alive", "terminated", "killed"}
        /\ stop' = [stop EXCEPT ![s] = [pc |-> "reap", held |-> process]]
        /\ proc' = [proc EXCEPT ![process] = IF proc[process] = "alive" THEN "terminated" ELSE proc[process]]
    BY <1>1, ProcsAre DEF Sweep, StopAt, IsRunning, Runs, BuiltType, ProcStates
  <2>2. /\ \A q \in Procs : proc'[q] = proc[q] \/ (proc[q] = "alive" /\ proc'[q] = "terminated")
        /\ proc'[process] \in {"terminated", "killed"}
    BY <2>1 DEF BuiltType, ProcStates
  <2>3. ProcessAdvances /\ OnlySpawns({})
    BY <2>2, Advance
  <2>4. stop'[s].pc = "reap" /\ stop'[s].held = process
    BY <2>1 DEF TasksType
  <2> QED
    BY <2>1, <2>2, <2>3, <2>4 DEF StopGoes, StopAwaits, Leaving
<1>2. CASE ~IsRunning
  <2>1. stop' = [stop EXCEPT ![s] = [pc |-> "done", held |-> NoProc]]
    BY <1>2 DEF Sweep, StopAt
  <2>2. proc' = proc
    BY <1>2 DEF Sweep, IsRunning, Runs, BuiltType
  <2>3. stop'[s].pc = "done"
    BY <2>1 DEF TasksType
  <2>4. ProcessAdvances /\ OnlySpawns({})
    BY <2>2, Advance
  <2> QED
    BY <2>1, <2>3, <2>4 DEF StopGoes, StopAwaits
<1> QED
  BY <1>1, <1>2

\* A stop goes on to wait for a prewarm or its cleanup.
LEMMA StopWaits ==
    ASSUME TasksType, BuiltType, NEW s \in Stops, NEW pc \in {"prewarm", "cleanup", "done"}, NEW held,
           StopAt(s, pc, held), proc' = proc, pc = "prewarm" => Coming(held)
    PROVE  StopGoes(s)
<1>1. stop' = [stop EXCEPT ![s] = [pc |-> pc, held |-> held]] /\ stop'[s].pc = pc /\ stop'[s].held = held
  BY DEF StopAt, TasksType
<1>2. ProcessAdvances /\ OnlySpawns({})
  BY Advance
<1> QED
  BY <1>1, <1>2 DEF StopGoes, StopAwaits, Coming

LEMMA AfterPrewarmGoes ==
    ASSUME TasksType, BuiltType, NEW s \in Stops, AfterPrewarm(s)
    PROVE  StopGoes(s)
BY SweepGoes, StopWaits DEF AfterPrewarm

LEMMA DiscardGoes ==
    ASSUME TasksType, BuiltType, NEW s \in Stops, NEW p \in Procs \union {NoProc}, Discard(s, p)
    PROVE  StopGoes(s)
<1>1. CASE Runs(p)
  <2>1. proc' = Killed(p) /\ stop' = [stop EXCEPT ![s] = [pc |-> "discard", held |-> p]] /\ p \in Procs
    BY <1>1 DEF Discard, StopAt, Runs
  <2>2. ProcessAdvances /\ OnlySpawns({}) /\ Ending(p)'
    BY <1>1, <2>1, KillAdvances
  <2>3. stop'[s].pc = "discard" /\ stop'[s].held = p
    BY <2>1 DEF TasksType
  <2> QED
    BY <2>1, <2>2, <2>3 DEF StopGoes, StopAwaits, Ending
<1>2. CASE ~Runs(p)
  BY <1>2, AfterPrewarmGoes DEF Discard
<1> QED
  BY <1>1, <1>2

LEMMA StartStepAwaits ==
    ASSUME Types, Types', AwaitInv, NEW c \in Calls, StartSteps(c)
    PROVE  AwaitInv' /\ ProcessAdvances
<1>0. /\ TasksType /\ BuiltType /\ start[c] \in StartRecord
      /\ start[c].held \in Procs \union {NoProc} /\ process \in Procs \union {NoProc} /\ proc \in ProcStates
  BY DEF Types, TasksType, BuiltType, StartRecord
<1>1. prewarm' = prewarm /\ UNCHANGED <<cleaning, stop>>
  BY DEF StartSteps, StartConsumes, StartDiscarded, StartRaises, StartSpawned, WrapFails, RtcpFails,
         StartEnds, Unwound, Wrapped, outside, attributes
<1>2. StartGoes(c)
  <2>1. CASE StartConsumes(c)
    BY <1>0, <2>1, ConsumeGoes DEF StartConsumes, AwaitInv, Unspawned
  <2>2. CASE StartDiscarded(c)
    BY <1>0, <2>2, SpawnGoes DEF StartDiscarded, AwaitInv, Unspawned
  <2>3. CASE StartRaises(c)
    BY <1>0, <2>3, FreeGoes DEF StartRaises
  <2>4. CASE StartSpawned(c)
    BY <1>0, <2>4, AssignGoes DEF StartSpawned
  <2>5. CASE WrapFails(c)
    BY <1>0, <2>5, UnwindGoes DEF WrapFails
  <2>6. ASSUME NEW next \in {"video", "rtcp", "push"}, Proceed(c, start[c], next), proc' = proc PROVE StartGoes(c)
    BY <1>0, <2>6, FreeGoes DEF Proceed, Wrapping, Media
  <2>7. CASE RtcpFails(c)
    BY <1>0, <2>6, <2>7, UnwindGoes DEF RtcpFails
  <2>8. CASE StartEnds(c)
    BY <1>0, <2>8, FreeGoes, UnwindGoes DEF StartEnds
  <2>9. CASE Unwound(c)
    BY <1>0, <2>9, FreeGoes DEF Unwound
  <2>10. ASSUME NEW m \in Media, Wrapped(c, m) PROVE StartGoes(c)
    <3>1. After(start[c], m) \in {"video", "rtcp", "push"}
      BY DEF After, Media
    <3>2. \/ Unwind(c, start[c], process, {m}, proc)
          \/ Proceed(c, start[c], After(start[c], m)) /\ proc' = proc
      BY <2>10 DEF Wrapped
    <3> QED
      BY <1>0, <2>6, <3>1, <3>2, UnwindGoes
  <2> QED
    BY <2>1, <2>2, <2>3, <2>4, <2>5, <2>7, <2>8, <2>9, <2>10 DEF StartSteps
<1> QED
  BY <1>1, <1>2, StartGoesOn DEF AwaitInv

LEMMA StopStepAwaits ==
    ASSUME Types, Types', AwaitInv, NEW s \in Stops, Stop(s) \/ StopSteps(s)
    PROVE  AwaitInv' /\ ProcessAdvances
<1>0. /\ TasksType /\ BuiltType /\ stop[s] \in StopRecord /\ prewarm \in Procs \union {NoProc}
      /\ stop[s].held \in Procs \union {NoProc} /\ proc \in ProcStates
  BY DEF Types, TasksType, QueueType, BuiltType, StopRecord
<1>1. UNCHANGED <<cleaning, start>> /\ prewarm' \in {prewarm, NoProc}
  BY DEF Stop, StopSteps, StopDiscards, StopDiscarded, StopSweeps, StopKills, StopEnds, attributes
<1>2. CASE StopKills(s)
  <2>1. stop[s].held \in Procs /\ proc[stop[s].held] = "terminated" /\ proc' = Killed(stop[s].held)
    BY <1>2 DEF StopKills, AfterTimeout, AwaitInv, NobodyWaitsInVain, StopAwaits, Leaving
  <2>2. ProcessAdvances /\ OnlySpawns({})
    BY <1>0, <2>1, KillAdvances DEF Runs
  <2>3. \A c \in Calls : start[c].pc \in Unspawned => proc'[Spawned(c)] = proc[Spawned(c)]
    BY <2>2 DEF OnlySpawns, AwaitInv
  <2> QED
    BY <1>2, <2>2, <2>3, ProcessGoesOn
       DEF StopKills, attributes, AwaitInv, NobodyWaitsInVain, ProcessAdvances, Coming
<1>3. CASE StopEnds(s)
  BY <1>0, <1>1, <1>3, StopWaits, StopGoesOn DEF StopEnds, AwaitInv
<1>4. CASE Stop(s)
  <2>1. CASE StopAt(s, "prewarm", prewarm) /\ prewarm # NoProc /\ proc' = proc
    BY <1>0, <1>1, <2>1, StopWaits, StopGoesOn DEF AwaitInv
  <2>2. CASE Discard(s, prewarm)
    BY <1>0, <1>1, <2>2, DiscardGoes, StopGoesOn DEF AwaitInv
  <2> QED
    BY <1>4, <2>1, <2>2 DEF Stop
<1>5. CASE StopDiscards(s)
  BY <1>0, <1>1, <1>5, DiscardGoes, StopGoesOn DEF StopDiscards, AwaitInv
<1>6. CASE StopDiscarded(s)
  BY <1>0, <1>1, <1>6, AfterPrewarmGoes, StopGoesOn DEF StopDiscarded, AwaitInv
<1>7. CASE StopSweeps(s)
  BY <1>0, <1>1, <1>7, SweepGoes, StopGoesOn DEF StopSweeps, AwaitInv
<1> QED
  BY <1>2, <1>3, <1>4, <1>5, <1>6, <1>7 DEF StopSteps

LEMMA ManagerAwaits ==
    ASSUME Types, Types', AwaitInv, Manager
    PROVE  AwaitInv' /\ ProcessAdvances
<1>0. /\ TasksType /\ BuiltType /\ prewarm \in Procs \union {NoProc}
      /\ process \in Procs \union {NoProc} /\ proc \in ProcStates
      /\ \A c \in Calls : start[c] \in StartRecord /\ start[c].held \in Procs \union {NoProc}
  BY DEF Types, TasksType, QueueType, BuiltType, StartRecord
<1>1. ASSUME NEW c \in Calls, Prewarm(c) PROVE AwaitInv' /\ ProcessAdvances
  <2> DEFINE p == <<"prewarmed", c>>
  <2>1. /\ p \in Procs /\ prewarm' = p /\ UNCHANGED <<start, stop, cleaning>>
        /\ proc[p] = "none" /\ proc' = [proc EXCEPT ![p] = "spawning"]
        /\ \A d \in Calls : Spawned(d) # p
    BY <1>1, ProcsAre DEF Prewarm
  <2> HIDE DEF p
  <2>2. proc'[p] = "spawning" /\ \A q \in Procs : q # p => proc'[q] = proc[q]
    BY <1>0, <2>1 DEF ProcStates
  <2>3. ProcessAdvances
    BY <2>1, <2>2 DEF ProcessAdvances, Coming, Ending, Leaving
  <2>4. Coming(prewarm)'
    BY <2>1, <2>2 DEF Coming
  <2>5. \A q \in cleaning' : Coming(q)'
    BY <2>1, <2>3 DEF AwaitInv, NobodyWaitsInVain, ProcessAdvances, Coming
  <2>6. \A d \in Calls : proc'[Spawned(d)] = proc[Spawned(d)]
    BY <2>1, <2>2, ProcsAre
  <2> QED
    BY <2>1, <2>3, <2>4, <2>5, <2>6, ProcessGoesOn
<1>2. ASSUME NEW c \in Calls, StartReturnsUrl(c) PROVE AwaitInv' /\ ProcessAdvances
  <2>1. [start[c] EXCEPT !.generation = generation] \in StartRecord
    BY <1>0, TypesAreTypeOK DEF StartRecord, TypeOK
  <2>2. StartGoes(c)
    BY <1>0, <1>2, <2>1, FreeGoes DEF StartReturnsUrl
  <2> QED
    BY <1>2, <2>2, StartGoesOn DEF StartReturnsUrl, attributes, AwaitInv
<1>3. ASSUME NEW c \in Calls, Start(c) PROVE AwaitInv' /\ ProcessAdvances
  <2>1. PICK video \in {"on", "off"} :
          LET s == [start[c] EXCEPT !.video = video, !.generation = generation] IN
          IF prewarm # NoProc /\ proc[prewarm] = "spawning"
            THEN At(c, s, "prewarm", prewarm) /\ proc' = proc
            ELSE Consume(c, s, prewarm)
    BY <1>3 DEF Start
  <2> DEFINE s == [start[c] EXCEPT !.video = video, !.generation = generation]
  <2>2. s \in StartRecord
    BY <1>0, TypesAreTypeOK DEF StartRecord, TypeOK
  <2>3. start[c].pc \in Unspawned /\ proc[Spawned(c)] = "none" /\ prewarm' = NoProc /\ UNCHANGED <<cleaning, stop>>
    BY <1>3 DEF Start, Unspawned, AwaitInv
  <2> HIDE DEF s
  <2>4. StartGoes(c)
    <3>1. CASE At(c, s, "prewarm", prewarm) /\ prewarm # NoProc /\ proc' = proc
      <4>1. /\ start' = [start EXCEPT ![c] = start'[c]]
            /\ start'[c].pc = "prewarm" /\ start'[c].held = prewarm
        BY <1>0, <2>2, <3>1, AtIs
      <4>2. ProcessAdvances /\ OnlySpawns({})
        BY <1>0, <3>1, Advance
      <4>3. StartAwaits(c)'
        BY <3>1, <4>1 DEF StartAwaits, AwaitInv, Coming
      <4> QED
        BY <2>3, <4>1, <4>2, <4>3 DEF StartGoes, OnlySpawns
    <3>2. CASE Consume(c, s, prewarm)
      BY <1>0, <2>2, <2>3, <3>2, ConsumeGoes
    <3> QED
      BY <2>1, <3>1, <3>2 DEF s
  <2> QED
    BY <2>3, <2>4, StartGoesOn
<1>4. ASSUME NEW c \in Calls, CancelStart(c) PROVE AwaitInv' /\ ProcessAdvances
  <2> DEFINE procs == IF start[c].pc = "spawn" THEN [proc EXCEPT ![start[c].held] = "gone"] ELSE proc
  <2>1. /\ procs \in ProcStates
        /\ \A q \in Procs : procs[q] = proc[q] \/ (proc[q] # "none" /\ procs[q] = "gone")
    BY <1>0 DEF ProcStates, AwaitInv, NobodyWaitsInVain, StartAwaits, Coming
  <2>2. \A q \in Procs : procs[q] = proc[q] \/
            (proc[q] \in {"spawning", "failed", "alive", "terminated", "killed", "gone"} /\ procs[q] = "gone")
    BY <1>0, <2>1 DEF ProcStates
  <2>3. Unwind(c, start[c], process, {}, procs)
    BY <1>4 DEF CancelStart
  <2> HIDE DEF procs
  <2>4. StartGoes(c)
    BY <1>0, <2>1, <2>2, <2>3, UnwindGoes
  <2>5. prewarm' # NoProc => Coming(prewarm')
    BY <1>4 DEF CancelStart, PutBack, AwaitInv, NobodyWaitsInVain, StartAwaits
  <2> QED
    BY <1>4, <2>4, <2>5, StartGoesOn DEF CancelStart
<1>5. CASE CancelPrewarm
  <2>1. /\ UNCHANGED <<start, stop, proc>> /\ prewarm' = NoProc
        /\ cleaning' = cleaning \union {prewarm} /\ prewarm # NoProc
    BY <1>5 DEF CancelPrewarm, CleanPrewarm
  <2>2. ProcessAdvances
    BY <1>0, <2>1, Advance
  <2>3. \A p \in cleaning' : Coming(p)'
    BY <2>1 DEF AwaitInv, NobodyWaitsInVain, Coming
  <2> QED
    BY <2>1, <2>2, <2>3, ProcessGoesOn
<1>6. ASSUME NEW s \in Stops, Stop(s) PROVE AwaitInv' /\ ProcessAdvances
  BY <1>6, StopStepAwaits
<1> QED
  BY <1>1, <1>2, <1>3, <1>4, <1>5, <1>6 DEF Manager

LEMMA ProcessAwaits ==
    ASSUME Types, AwaitInv, NEW p \in Procs, ProcSteps(p) \/ Exits(p)
    PROVE  AwaitInv' /\ ProcessAdvances
<1>0. BuiltType
  BY DEF Types
<1>1. \A q \in Procs :
        \/ proc'[q] = proc[q]
        \/ proc[q] \in {"alive", "terminated", "killed"} /\ proc'[q] = "killed"
        \/ proc[q] \in {"alive", "terminated", "killed"} /\ proc'[q] = "gone"
        \/ proc[q] \in {"spawning", "failed"} /\ proc'[q] \in {"alive", "failed", "gone"}
  BY <1>0 DEF ProcSteps, SpawnCompletes, CleanupKills, CleanupEnds, Exits, Killed, Runs, BuiltType, ProcStates
<1>2. ProcessAdvances /\ OnlySpawns({})
  BY <1>0, <1>1, Advance
<1>3. UNCHANGED <<start, stop, prewarm>> /\ cleaning' \subseteq cleaning
  BY DEF ProcSteps, SpawnCompletes, CleanupKills, CleanupEnds, Exits, attributes
<1>4. \A c \in Calls : start[c].pc \in Unspawned => proc'[Spawned(c)] = proc[Spawned(c)]
  BY <1>2 DEF OnlySpawns, AwaitInv
<1> QED
  BY <1>2, <1>3, <1>4, ProcessGoesOn DEF AwaitInv, NobodyWaitsInVain, ProcessAdvances, Coming

LEMMA AwaitStep == ASSUME Types, Types', AwaitInv, [Next]_vars PROVE AwaitInv' /\ [ProcessAdvances]_vars
<1>1. CASE Next
  <2>1. CASE Manager
    BY <2>1, ManagerAwaits
  <2>2. ASSUME NEW c \in Calls, StartSteps(c) PROVE AwaitInv' /\ ProcessAdvances
    BY <2>2, StartStepAwaits
  <2>3. ASSUME NEW s \in Stops, StopSteps(s) PROVE AwaitInv' /\ ProcessAdvances
    BY <2>3, StopStepAwaits
  <2>4. ASSUME NEW p \in Procs, ProcSteps(p) \/ Exits(p) PROVE AwaitInv' /\ ProcessAdvances
    BY <2>4, ProcessAwaits
  <2> QED
    BY <1>1, <2>1, <2>2, <2>3, <2>4 DEF Next
<1>2. CASE UNCHANGED vars
  BY <1>2 DEF vars, attributes, AwaitInv, NobodyWaitsInVain, StartAwaits, StopAwaits, Coming, Ending, Leaving
<1> QED
  BY <1>1, <1>2
-----------------------------------------------------------------------------
(* The theorems.                                                           *)

LEMMA AlwaysTyped == Spec => []Types
  BY InitTypes, NextTypes, PTL DEF Spec

LEMMA Invariant == ASSUME Calm PROVE Spec => []Inv
<1>1. Types /\ Types' /\ Inv /\ [Next]_vars => Inv'
  BY InvStep
<1> QED
  BY <1>1, InvInit, AlwaysTyped, PTL DEF Spec

\* Every variable stays in its type, however starts and stops overlap.
THEOREM TypeCorrect == Spec => []TypeOK
  BY AlwaysTyped, TypesAreTypeOK, PTL

\* However starts and stops overlap, no start, stop or cleanup waits for a
\* process that nobody spawns or that nobody has told to end, and a process only
\* advances towards its end: what TasksEnd rests on.
THEOREM NoWaitIsInVain == Spec => []NobodyWaitsInVain /\ [][ProcessAdvances]_vars
<1>1. Init => AwaitInv
  BY DEF Init, AwaitInv, NobodyWaitsInVain, StartAwaits, StopAwaits, Procs, Spawned
<1>2. AwaitInv => NobodyWaitsInVain
  BY DEF AwaitInv
<1>3. Types /\ Types' /\ AwaitInv /\ [Next]_vars => AwaitInv' /\ [ProcessAdvances]_vars
  BY AwaitStep
<1> QED
  BY <1>1, <1>2, <1>3, AlwaysTyped, PTL DEF Spec

\* No ffmpeg and no endpoint is out of everybody's reach.
THEOREM NeverLost == ASSUME Calm PROVE Spec => []NothingLost
<1>1. Inv => NothingLost
  BY DEF Inv, HeldInv, Held, NothingLost, ProcessHeld
<1> QED
  BY <1>1, Invariant, PTL

\* A start that no stop has passed keeps its ffmpeg and its push event.
THEOREM ValidStartKept == ASSUME Calm PROVE Spec => []ValidStartIntact
<1>1. Inv => ValidStartIntact
  BY DEF Inv, OwnInv, ValidStartIntact, Starting, InFlight, Wrapping, Built
<1> QED
  BY <1>1, Invariant, PTL

\* At rest the bridge holds something only for a call it serves.
THEOREM EmptyAtRest == ASSUME Calm PROVE Spec => []StoppedIsEmpty
<1>1. Inv /\ Types => StoppedIsEmpty
  <2> SUFFICES ASSUME Inv, Types, Starting = {}, \A s \in Stops : stop[s].pc \in {"idle", "done"},
                      process # NoProc \/ open # {}
               PROVE  \E c \in Calls : start[c].pc = "returned" /\ ~Passed(start[c])
    BY DEF StoppedIsEmpty
  <2>1. Sweeping = {}
    BY DEF Sweeping
  <2>2. CASE process # NoProc
    <3>1. PICK c \in Calls : Serves(c)
      BY <2>1, <2>2 DEF Inv, SweptInv
    <3> QED
      BY <3>1 DEF Serves, Built, Starting, InFlight, Wrapping
  <2>3. CASE open # {}
    <3>1. PICK c \in Calls, m \in Media : <<c, m>> \in open
      BY <2>3 DEF Types, BuiltType
    <3>2. endpoint[m] = c /\ c # None
      BY <3>1 DEF Inv, EndpointHeld, Calls, None
    <3>3. Serves(c)
      BY <2>1, <3>2 DEF Inv, SweptInv
    <3> QED
      BY <3>3 DEF Serves, Built, Starting, InFlight, Wrapping
  <2> QED
    BY <2>2, <2>3
<1> QED
  BY <1>1, Invariant, AlwaysTyped, PTL

\* What a start unwinds it has built itself.
THEOREM UnwindsOnlyItsOwn == ASSUME Calm PROVE Spec => UnwindsItsOwn
<1>1. Inv => \A c \in Calls : start[c].pc \in Media \union {"push"} =>
                process \in {NoProc, start[c].held} /\ \A m \in Media : endpoint[m] \in {None, c}
  BY DEF Inv, OwnInv, Starting, InFlight, Wrapping, Built
<1>2. Inv /\ [Next]_vars => [\A c \in Calls :
        start[c].pc \in Media \union {"push"} /\ start'[c].pc \in {"unwind", "failed"} =>
            process \in {NoProc, start[c].held} /\ \A m \in Media : endpoint[m] \in {None, c}]_vars
  BY <1>1
<1> QED
  BY <1>2, Invariant, PTL DEF Spec, UnwindsItsOwn

\* Every step of the bridge is one of its contract, or none at all: a URL that
\* was returned is served until a stop, and nothing is left of other starts.
THEOREM BridgeImplemented == ASSUME Calm PROVE Spec => ImplementsBridge
<1>1. Types /\ Types' /\ Inv /\ WholeInv /\ [Next]_vars => WholeInv' /\ [Promise!Next]_(Promise!vars)
  BY StepPromised DEF Promised
<1>2. Init => WholeInv /\ Promise!Init
  BY WholeInit
<1> QED
  BY <1>1, <1>2, AlwaysTyped, Invariant, PTL DEF Spec, ImplementsBridge, Promise!Spec
=============================================================================
