------------------------- MODULE Coordinator_proofs -------------------------
(***************************************************************************)
(* What is proved of the doorbell for every number of rings.  In every     *)
(* window of interleaving: the variables keep their types, a ring is       *)
(* dialled by one task at a time, and every call keeps to Dialog.  Under   *)
(* Calm, when nothing arrives while a call connects or a handler waits:    *)
(* the safety properties of the teardown run that say something there, the *)
(* timers that its liveness rests on, and the contract of Bridge.  Each of *)
(* its invariants builds on the ones before: Inv, TrackInv (dialogs),      *)
(* TimedInv (timers), ShownInv (what is displayed), SocketInv (ports),     *)
(* BridgeInv (processes), StreamInv (streams), StaleInv (starts).          *)
(***************************************************************************)
EXTENDS Coordinator, TLAPS

-----------------------------------------------------------------------------
(* Types.                                                                  *)

\* None names no call, and every call is a reference.
LEMMA RefFacts == None \in Ref /\ Calls \subseteq Ref /\ None \notin Calls
BY DEF None, Ref, Calls

\* The manager's variables keep their types when a call is placed, connects or
\* fails to.
LEMMA StartTypes ==
    ASSUME CMTypeOK, NEW c \in Calls,
           StartConnect(c) \/ ConnectFail(c) \/ ConnectRaises(c) \/ ConnectOk(c)
    PROVE  CMTypeOK'
<1>1. CASE StartConnect(c)
  BY <1>1, RefFacts DEF StartConnect, CMTypeOK, timers, bridge, Live
<1>2. CASE ConnectFail(c)
  BY <1>2, RefFacts DEF ConnectFail, CMTypeOK, timers, bridge, Live
<1>3. CASE ConnectRaises(c)
  BY <1>3, RefFacts DEF ConnectRaises, CMTypeOK, timers, bridge, Live
<1>4. CASE ConnectOk(c)
  BY <1>4, RefFacts DEF ConnectOk, CMTypeOK, ArmMax, Live
<1> QED
  BY <1>1, <1>2, <1>3, <1>4

\* Grace tables and what remains of a prewarm are well typed.
LEMMA GraceTypes ==
    ASSUME CMTypeOK
    PROVE  /\ NoGrace \in [Calls -> {"off", "sleeping", "stopping"}]
           /\ \A c : GraceFor(c) \in [Calls -> {"off", "sleeping", "stopping"}]
           /\ Discarded \in {"none", "live", "reaping"}
BY DEF CMTypeOK, NoGrace, GraceFor, Discarded

\* Hanging up, and the termination of a call, keep the types.
LEMMA HangUpTypes ==
    ASSUME CMTypeOK, NEW c \in Calls
    PROVE  /\ DropCall(c) => /\ client' \in Ref /\ sockets' \in Ref /\ maxTask' \in Ref
                             /\ grace' \in [Calls -> {"off", "sleeping", "stopping"}]
                             /\ prewarm' \in {"none", "live", "reaping"}
           /\ HangUp(c) => /\ client' \in Ref /\ sockets' \in Ref /\ maxTask' \in Ref
                           /\ grace' \in [Calls -> {"off", "sleeping", "stopping"}]
                           /\ prewarm' \in {"none", "live", "reaping"}
                           /\ dialog' \in [Calls -> {"idle", "connecting", "closing", "over"} \union Live]
<1>1. ASSUME DropCall(c)
      PROVE  /\ client' \in Ref /\ sockets' \in Ref /\ maxTask' \in Ref
             /\ grace' \in [Calls -> {"off", "sleeping", "stopping"}]
             /\ prewarm' \in {"none", "live", "reaping"}
  BY <1>1, RefFacts, GraceTypes DEF DropCall, CMTypeOK
<1>2. ASSUME HangUp(c)
      PROVE  /\ client' \in Ref /\ sockets' \in Ref /\ maxTask' \in Ref
             /\ grace' \in [Calls -> {"off", "sleeping", "stopping"}]
             /\ prewarm' \in {"none", "live", "reaping"}
             /\ dialog' \in [Calls -> {"idle", "connecting", "closing", "over"} \union Live]
  <2>1. CASE client = c /\ dialog[c] \in Live
    BY <1>1, <1>2, <2>1 DEF HangUp, CMTypeOK
  <2>2. CASE ~(client = c /\ dialog[c] \in Live)
    BY <1>2, <2>2 DEF HangUp, CMTypeOK
  <2> QED
    BY <2>1, <2>2
<1> QED
  BY <1>1, <1>2

\* BridgeStop keeps the types of what it changes.
LEMMA BridgeStopTypes ==
    ASSUME CMTypeOK, BridgeStop
    PROVE  /\ running' \in Ref
           /\ prewarm' \in {"none", "live", "reaping"}
           /\ stale' \in SUBSET Calls
BY RefFacts DEF BridgeStop, CMTypeOK

\* The callbacks of the SIP client and the timers keep the types.
LEMMA CallbackTypes ==
    ASSUME CMTypeOK, NEW c \in Calls,
           \/ Terminated(c) \/ Established(c) \/ MaxExpired(c) \/ GraceSuperseded(c)
           \/ GraceExpired(c) \/ GraceEnd(c) \/ PrewarmReaped
    PROVE  CMTypeOK'
<1>1. CASE Terminated(c)
  BY <1>1, HangUpTypes DEF Terminated, CMTypeOK
<1>2. CASE Established(c)
  BY <1>2, RefFacts DEF Established, CMTypeOK, timers, Live, InFlight, Started
<1>3. CASE MaxExpired(c)
  BY <1>3, RefFacts, HangUpTypes DEF MaxExpired, CMTypeOK
<1>4. CASE GraceSuperseded(c)
  BY <1>4, GraceTypes DEF GraceSuperseded, CMTypeOK, bridge
<1>5. CASE GraceExpired(c)
  <2>1. grace' \in [Calls -> {"off", "sleeping", "stopping"}]
    BY <1>5, GraceTypes DEF GraceExpired, CMTypeOK
  <2> QED
    BY <1>5, <2>1, RefFacts, BridgeStopTypes DEF GraceExpired, CMTypeOK
<1>6. CASE GraceEnd(c)
  BY <1>6, GraceTypes DEF GraceEnd, CMTypeOK, bridge
<1>7. CASE PrewarmReaped
  BY <1>7 DEF PrewarmReaped, CMTypeOK, timers
<1> QED
  BY <1>1, <1>2, <1>3, <1>4, <1>5, <1>6, <1>7

\* The steps of a bridge start keep the types.
LEMMA SpawnTypes ==
    ASSUME CMTypeOK, NEW c \in Calls,
           \/ SpawnStart(c) \/ SpawnWithoutSocket(c) \/ SpawnFfmpeg(c) \/ SpawnFail(c)
           \/ SpawnInvalidated(c) \/ SpawnPublish(c) \/ SpawnSuperseded(c) \/ SpawnUnwind(c)
    PROVE  CMTypeOK'
<1> USE DEF InFlight, Started
<1>1. CASE SpawnStart(c)
  BY <1>1, RefFacts DEF SpawnStart, CMTypeOK, timers
<1>2. CASE SpawnWithoutSocket(c)
  BY <1>2, HangUpTypes DEF SpawnWithoutSocket, CMTypeOK
<1>3. CASE SpawnFfmpeg(c)
  <2>1. running # None => running \in Calls
    BY DEF CMTypeOK, Ref
  <2> QED
    BY <1>3, <2>1, RefFacts DEF SpawnFfmpeg, CMTypeOK, timers
<1>4. CASE SpawnFail(c)
  BY <1>4, RefFacts, HangUpTypes DEF SpawnFail, CMTypeOK
<1>5. CASE SpawnInvalidated(c)
  BY <1>5, RefFacts DEF SpawnInvalidated, CMTypeOK, timers
<1>6. CASE SpawnPublish(c)
  BY <1>6, RefFacts DEF SpawnPublish, TakeSockets, CMTypeOK, timers
<1>7. CASE SpawnSuperseded(c)
  BY <1>7, RefFacts, BridgeStopTypes DEF SpawnSuperseded, TakeSockets, CMTypeOK, timers
<1>8. CASE SpawnUnwind(c)
  BY <1>8, RefFacts DEF SpawnUnwind, CMTypeOK, timers
<1> QED
  BY <1>1, <1>2, <1>3, <1>4, <1>5, <1>6, <1>7, <1>8

\* The pieces of abort_active_call and async_stop keep the types.
LEMMA AbortPieceTypes ==
    ASSUME CMTypeOK, NEW t \in Tasks, NEW c \in Ref
    PROVE  /\ DropActive => /\ client' \in Ref /\ sockets' \in Ref /\ maxTask' \in Ref
                            /\ grace' \in [Calls -> {"off", "sleeping", "stopping"}]
           /\ DropActive /\ active # None =>
                dialog' \in [Calls -> {"idle", "connecting", "closing", "over"} \union Live]
           /\ CancelSpawn(t, c) =>
                /\ spawnTask' \in Ref
                /\ spawn' \in [Calls -> {"none", "cancelled"} \union InFlight]
                /\ sockOf' \in [Calls -> Ref] /\ stale' \in SUBSET Calls
                /\ running' \in Ref /\ orphans' \in SUBSET Calls
                /\ frame' \in [Tasks -> [pc : {"idle", "spawn", "bridge"}, call : Ref, task : Ref]]
           /\ AwaitStop(t, c) =>
                /\ spawn' \in [Calls -> {"none", "cancelled"} \union InFlight]
                /\ sockOf' \in [Calls -> Ref] /\ orphans' \in SUBSET Calls
                /\ running' \in Ref /\ prewarm' \in {"none", "live", "reaping"}
                /\ stale' \in SUBSET Calls
                /\ frame' \in [Tasks -> [pc : {"idle", "spawn", "bridge"}, call : Ref, task : Ref]]
           /\ Resumes(t) =>
                /\ spawn' \in [Calls -> {"none", "cancelled"} \union InFlight]
                /\ sockOf' \in [Calls -> Ref] /\ orphans' \in SUBSET Calls
                /\ running' \in Ref /\ prewarm' \in {"none", "live", "reaping"}
                /\ stale' \in SUBSET Calls
                /\ frame' \in [Tasks -> [pc : {"idle", "spawn", "bridge"}, call : Ref, task : Ref]]
           /\ \A x \in {"none", "live", "reaping"} : PutBack(x) \in {"none", "live", "reaping"}
           /\ TransportClosed \in [Calls -> {"idle", "connecting", "closing", "over"} \union Live]
<1>1. TransportClosed \in [Calls -> {"idle", "connecting", "closing", "over"} \union Live]
  BY DEF TransportClosed, CMTypeOK
<1>2. DropActive => /\ client' \in Ref /\ sockets' \in Ref /\ maxTask' \in Ref
                    /\ grace' \in [Calls -> {"off", "sleeping", "stopping"}]
  BY RefFacts, GraceTypes DEF DropActive
<1>3. DropActive /\ active # None =>
        dialog' \in [Calls -> {"idle", "connecting", "closing", "over"} \union Live]
  BY <1>1 DEF DropActive, CMTypeOK
<1>4. ASSUME CancelSpawn(t, c)
      PROVE  /\ spawnTask' \in Ref
             /\ spawn' \in [Calls -> {"none", "cancelled"} \union InFlight]
             /\ sockOf' \in [Calls -> Ref] /\ stale' \in SUBSET Calls
             /\ running' \in Ref /\ orphans' \in SUBSET Calls
             /\ frame' \in [Tasks -> [pc : {"idle", "spawn", "bridge"}, call : Ref, task : Ref]]
  BY <1>4, RefFacts DEF CancelSpawn, CMTypeOK
<1>5. ASSUME AwaitStop(t, c)
      PROVE  /\ spawn' \in [Calls -> {"none", "cancelled"} \union InFlight]
             /\ sockOf' \in [Calls -> Ref] /\ orphans' \in SUBSET Calls
             /\ running' \in Ref /\ prewarm' \in {"none", "live", "reaping"}
             /\ stale' \in SUBSET Calls
             /\ frame' \in [Tasks -> [pc : {"idle", "spawn", "bridge"}, call : Ref, task : Ref]]
  BY <1>5, RefFacts, BridgeStopTypes DEF AwaitStop, CMTypeOK
<1>6. ASSUME Resumes(t)
      PROVE  /\ spawn' \in [Calls -> {"none", "cancelled"} \union InFlight]
             /\ sockOf' \in [Calls -> Ref] /\ orphans' \in SUBSET Calls
             /\ running' \in Ref /\ prewarm' \in {"none", "live", "reaping"}
             /\ stale' \in SUBSET Calls
             /\ frame' \in [Tasks -> [pc : {"idle", "spawn", "bridge"}, call : Ref, task : Ref]]
  BY <1>6, RefFacts, BridgeStopTypes DEF Resumes, Idle, CMTypeOK
<1>7. \A x \in {"none", "live", "reaping"} : PutBack(x) \in {"none", "live", "reaping"}
  BY DEF PutBack
<1> QED
  BY <1>1, <1>2, <1>3, <1>4, <1>5, <1>6, <1>7

\* The steps of an abort keep the types.
LEMMA AbortTypes ==
    ASSUME CMTypeOK, NEW t \in Tasks,
           \/ AbortCancelsSpawn(t) \/ AbortStopsBridge(t) \/ AbortNow
           \/ ThenStopsBridge(t) \/ AbortEnd(t)
    PROVE  CMTypeOK'
<1>c. active \in Ref /\ frame[t].call \in Ref
  BY DEF CMTypeOK
<1>1. CASE AbortCancelsSpawn(t)
  <2>1. (IF HangsUp THEN Discarded ELSE prewarm) \in {"none", "live", "reaping"}
    BY GraceTypes DEF CMTypeOK
  <2>2. prewarm' \in {"none", "live", "reaping"}
    BY <1>1, <1>c, <2>1, AbortPieceTypes DEF AbortCancelsSpawn
  <2> QED
    BY <1>1, <1>c, <2>2, AbortPieceTypes DEF AbortCancelsSpawn, CMTypeOK
<1>2. CASE AbortStopsBridge(t)
  BY <1>2, <1>c, RefFacts, AbortPieceTypes DEF AbortStopsBridge, CMTypeOK
<1>3. CASE AbortNow
  BY <1>3, <1>c, RefFacts, AbortPieceTypes, BridgeStopTypes DEF AbortNow, CMTypeOK
<1>4. CASE ThenStopsBridge(t)
  BY <1>4, <1>c, AbortPieceTypes DEF ThenStopsBridge, CMTypeOK, timers
<1>5. CASE AbortEnd(t)
  BY <1>5, <1>c, RefFacts, AbortPieceTypes DEF AbortEnd, CMTypeOK, timers
<1> QED
  BY <1>1, <1>2, <1>3, <1>4, <1>5

\* The steps of async_stop keep the types.
LEMMA StopTypes ==
    ASSUME CMTypeOK, NEW t \in Tasks,
           StopCancelsSpawn(t) \/ StopStopsBridge(t) \/ StopNow(t) \/ StopEnd(t)
    PROVE  CMTypeOK'
<1>c. None \in Ref
  BY RefFacts
<1>1. CASE StopCancelsSpawn(t)
  <2>1. prewarm' \in {"none", "live", "reaping"}
    BY <1>1, <1>c, AbortPieceTypes DEF StopCancelsSpawn, CMTypeOK
  <2> QED
    BY <1>1, <1>c, <2>1, AbortPieceTypes DEF StopCancelsSpawn, CMTypeOK, timers
<1>2. CASE StopStopsBridge(t)
  BY <1>2, <1>c, AbortPieceTypes DEF StopStopsBridge, CMTypeOK, timers
<1>3. CASE StopNow(t)
  BY <1>3, <1>c, AbortPieceTypes, BridgeStopTypes, GraceTypes DEF StopNow, Cleared, CMTypeOK
<1>4. CASE StopEnd(t)
  BY <1>4, <1>c, AbortPieceTypes, GraceTypes DEF StopEnd, Cleared, CMTypeOK
<1> QED
  BY <1>1, <1>2, <1>3, <1>4

\* What a push, a cancel and a callback do to the invite and to the data on
\* display keeps their types.
LEMMA InviteTypes ==
    ASSUME TypeOK, NEW r \in Calls, NEW e \in Ref,
           Install(r, e) \/ DropPending(e) \/ OnCallActive(r) \/ OnCallEnded(r)
    PROVE  /\ pending' \in Ref /\ ready' \in SUBSET Calls /\ sipCall' \in Ref
           /\ data' \in Ref /\ streamUrl' \in Ref
           /\ started' = started /\ user' = user
           /\ Install(r, e) => parked' \in SUBSET Calls /\ opened' = opened
<1>1. pending # None => pending \in Calls
  BY DEF TypeOK, Ref
<1>2. ready \union Pended \in SUBSET Calls
  BY <1>1 DEF TypeOK, Pended
<1>3. CASE Install(r, e)
  BY <1>2, <1>3, RefFacts DEF Install, FreshUrl, TypeOK
<1>4. CASE DropPending(e)
  BY <1>2, <1>4, RefFacts DEF DropPending, NoUrl, TypeOK, Install
<1>5. CASE OnCallActive(r)
  BY <1>2, <1>5, RefFacts DEF OnCallActive, TypeOK, Install
<1>6. CASE OnCallEnded(r)
  BY <1>2, <1>6, RefFacts DEF OnCallEnded, NoUrl, TypeOK, Install
<1> QED
  BY <1>3, <1>4, <1>5, <1>6 DEF Install

\* The tasks of pushes, cancels and the unload are tasks.
LEMMA TaskFacts ==
    /\ \A r \in Calls : <<"push", r>> \in Tasks /\ <<"cancel", r>> \in Tasks
    /\ <<"unload", None>> \in Tasks
BY DEF Tasks

\* The arrival of a push or a cancel keeps the counts within their bounds.
LEMMA ArrivalTypes ==
    ASSUME TypeOK, NEW r \in Calls
    PROVE  /\ Arrives(r) => arrived' \in 0 .. NumRings /\ cancelled' = cancelled /\ unloads' = unloads
           /\ \A k \in {"call_id", "uuid"} : CancelArrives(r, k) =>
                /\ cancelled' \in SUBSET Calls /\ parked' \in SUBSET Calls
                /\ arrived' = arrived /\ unloads' = unloads /\ opened' = opened
<1>1. ASSUME Arrives(r)
      PROVE  arrived' \in 0 .. NumRings /\ cancelled' = cancelled /\ unloads' = unloads
  BY <1>1, RingsAssumption DEF Arrives, Calls
<1>2. ASSUME NEW k \in {"call_id", "uuid"}, CancelArrives(r, k)
      PROVE  /\ cancelled' \in SUBSET Calls /\ parked' \in SUBSET Calls
             /\ arrived' = arrived /\ unloads' = unloads /\ opened' = opened
  BY <1>2 DEF CancelArrives, TypeOK
<1> QED
  BY <1>1, <1>2

\* A push or a cancel, from its arrival or after an abort, keeps the types.
LEMMA HandlerTypes ==
    ASSUME TypeOK, NEW r \in Calls, Handlers(r) \/ PushResumes(r) \/ CancelResumes(r)
    PROVE  TypeOK'
<1>r. active \in Ref /\ None \in Ref /\ CancelKeys \subseteq {"call_id", "uuid"}
      /\ \A t \in Tasks : frame[t].call \in Ref
  BY RefFacts, CancelKeysAssumption DEF TypeOK, CMTypeOK
<1>m. CMTypeOK /\ (UNCHANGED cmVars => CMTypeOK')
  BY DEF TypeOK, CMTypeOK, cmVars, timers, bridge
<1>1. CASE Push(r)
  <2>1. CMTypeOK'
    BY <1>1, <1>m, AbortTypes, TaskFacts DEF Push
  <2>2. PICK e \in Ref : Install(r, e)
    BY <1>1, <1>r DEF Push
  <2> QED
    BY <1>1, <2>1, <2>2, InviteTypes, ArrivalTypes DEF Push, TypeOK
<1>2. CASE PushAborts(r)
  <2>1. CMTypeOK'
    BY <1>2, <1>m, AbortTypes, TaskFacts DEF PushAborts
  <2> QED
    BY <1>2, <2>1, ArrivalTypes DEF PushAborts, TypeOK, invite, view, history
<1>3. CASE Cancel(r)
  <2>1. CMTypeOK'
    BY <1>3, <1>m, AbortTypes, TaskFacts DEF Cancel
  <2>2. PICK e \in Ref : DropPending(e)
    BY <1>3, <1>r DEF Cancel
  <2>3. PICK k \in {"call_id", "uuid"} : CancelArrives(r, k)
    BY <1>3, <1>r DEF Cancel
  <2> QED
    BY <2>1, <2>2, <2>3, InviteTypes, ArrivalTypes DEF TypeOK
<1>4. CASE CancelIgnored(r)
  <2>1. CMTypeOK'
    BY <1>4, <1>m DEF CancelIgnored
  <2>2. PICK k \in {"call_id", "uuid"} : CancelArrives(r, k)
    BY <1>4, <1>r DEF CancelIgnored
  <2> QED
    BY <1>4, <2>1, <2>2, ArrivalTypes DEF CancelIgnored, TypeOK, invite, view
<1>5. CASE CancelAborts(r)
  <2>1. CMTypeOK'
    BY <1>5, <1>m, AbortTypes, TaskFacts DEF CancelAborts
  <2>2. PICK k \in {"call_id", "uuid"} : CancelArrives(r, k)
    BY <1>5, <1>r DEF CancelAborts
  <2> QED
    BY <1>5, <2>1, <2>2, ArrivalTypes DEF CancelAborts, TypeOK, invite, view
<1>6. CASE PushResumes(r)
  <2>1. CMTypeOK'
    BY <1>6, <1>m, AbortTypes, TaskFacts DEF PushResumes
  <2>2. PICK e \in Ref : Install(r, e)
    BY <1>6, <1>r, TaskFacts DEF PushResumes
  <2> QED
    BY <1>6, <2>1, <2>2, InviteTypes DEF PushResumes, TypeOK, pushes
<1>7. CASE CancelResumes(r)
  <2>1. CMTypeOK'
    BY <1>7, <1>m, AbortTypes, TaskFacts DEF CancelResumes
  <2>2. PICK e \in Ref : DropPending(e)
    BY <1>7, <1>r, TaskFacts DEF CancelResumes
  <2> QED
    BY <1>7, <2>1, <2>2, InviteTypes DEF CancelResumes, TypeOK, pushes
<1> QED
  BY <1>1, <1>2, <1>3, <1>4, <1>5, <1>6, <1>7 DEF Handlers

\* A ring that is being dialled is marked as started, so no other task dials it.
DialInv ==
    /\ \A u \in Users : user[u].pc = "starting" => user[u].ring \in started
    /\ DialledOnce

\* No user is at work before the first ring: the camera and the lock need data
\* to show.  So the door code that is sent is one of a ring.
DataShown == data = None => \A u \in Users : user[u] = Rest

\* The wait for the stream, or its end, keeps the types of the user's tasks.
LEMMA AwaitTypes ==
    ASSUME TypeOK, NEW u \in Users, data # None, Await(u) \/ Finish(u)
    PROVE  /\ user' \in [Users -> [pc : {"idle", "starting", "answering", "waiting"}, ring : Ref]]
           /\ user'[u].pc # "starting"
           /\ \A v \in Users : v # u => user'[v] = user[v]
           /\ opened' \in SUBSET (Calls \X Calls) /\ parked' = parked
           /\ UNCHANGED <<pushes, unloads>>
<1>1. CASE Finish(u)
  <2>1. InDialog => <<data, active>> \in Calls \X Calls
    BY DEF InDialog, TypeOK, CMTypeOK, Ref
  <2>2. opened' \in SUBSET (Calls \X Calls)
    BY <1>1, <2>1 DEF Finish, TypeOK
  <2> QED
    BY <1>1, <2>2, RefFacts DEF Finish, Rest, TypeOK
<1>2. CASE Await(u) /\ ~Finish(u)
  BY <1>2 DEF Await, history, TypeOK
<1> QED
  BY <1>1, <1>2

\* The steps of the camera and the lock keep the types.
LEMMA UserTypes ==
    ASSUME TypeOK, DataShown, DialInv, NEW u \in Users, User(u) \/ UserResumes(u)
    PROVE  TypeOK' /\ data' = data /\ data # None
<1>d. data # None
  BY DEF DataShown, User, UserResumes, Tap, TapRefused, TapStarts, Taps,
         StartFails, StartReturns, Answered, WaitEnds, Rest
<1>m. CMTypeOK /\ (UNCHANGED cmVars => CMTypeOK')
  BY DEF TypeOK, CMTypeOK, cmVars, timers, bridge
<1>r. user[u].ring \in Ref /\ (ToStart => pending \in Calls)
  BY RefFacts DEF TypeOK, ToStart, Ref
<1>1. CASE Tap(u)
  BY <1>1, <1>d, <1>m, AwaitTypes DEF Tap, TypeOK, invite, view, pushes
<1>2. CASE TapRefused(u)
  BY <1>2, <1>d, <1>m, <1>r, AwaitTypes, RefFacts DEF TapRefused, TypeOK, view, pushes
<1>3. CASE TapStarts(u)
  <2>1. CMTypeOK'
    BY <1>3, <1>m, <1>r, StartTypes DEF TapStarts
  <2>2. started' \in SUBSET Calls
    BY <1>3, <1>r DEF TapStarts, Marked, TypeOK
  <2>3. user' \in [Users -> [pc : {"idle", "starting", "answering", "waiting"}, ring : Ref]]
    BY <1>3 DEF TapStarts, TypeOK
  <2> QED
    BY <1>3, <1>d, <2>1, <2>2, <2>3 DEF TapStarts, TypeOK, view, pushes, history
<1>4. CASE StartFails(u)
  <2>1. user[u].ring \in Calls
    BY <1>4 DEF StartFails, DialInv, TypeOK
  <2>2. CMTypeOK'
    BY <1>4, <1>m, <2>1, StartTypes DEF StartFails
  <2> QED
    BY <1>4, <1>d, <2>2, AwaitTypes, RefFacts DEF StartFails, TypeOK, view, pushes
<1>5. CASE StartReturns(u)
  <2>1. user[u].ring \in Calls
    BY <1>5 DEF StartReturns, DialInv, TypeOK
  <2>2. CMTypeOK'
    BY <1>5, <1>m, <2>1, StartTypes DEF StartReturns
  <2>3. user' \in [Users -> [pc : {"idle", "starting", "answering", "waiting"}, ring : Ref]]
    BY <1>5 DEF StartReturns, TypeOK
  <2> QED
    BY <1>5, <1>d, <1>r, <2>2, <2>3 DEF StartReturns, TypeOK, view, pushes, history
<1>6. CASE Answered(u)
  BY <1>6, <1>d, <1>m, AwaitTypes DEF Answered, TypeOK, invite, view, pushes
<1>7. CASE WaitEnds(u)
  BY <1>7, <1>d, <1>m, AwaitTypes DEF WaitEnds, TypeOK, invite, view, pushes
<1> QED
  BY <1>1, <1>2, <1>3, <1>4, <1>5, <1>6, <1>7, <1>d
     DEF User, UserResumes, Tap, TapRefused, TapStarts, StartFails, StartReturns,
         Answered, WaitEnds, invite, view
-----------------------------------------------------------------------------
(* Dialling.                                                               *)

\* No step but those of the users changes who dials what: pushes, cancels, the
\* unload and the manager's callbacks leave the users and the marks alone.
LEMMA OthersLeaveUsers ==
    ASSUME Next, ~(\E u \in Users : User(u) \/ UserResumes(u))
    PROVE  UNCHANGED <<user, started>>
<1>1. CASE \E r \in Calls : Handlers(r)
  <2>1. PICK r \in Calls : Handlers(r)
    BY <1>1
  <2>2. CASE Push(r)
    BY <2>2 DEF Push, Install
  <2>3. CASE PushAborts(r)
    BY <2>3 DEF PushAborts, invite
  <2>4. CASE Cancel(r)
    BY <2>4 DEF Cancel, DropPending
  <2>5. CASE CancelIgnored(r)
    BY <2>5 DEF CancelIgnored, invite
  <2>6. CASE CancelAborts(r)
    BY <2>6 DEF CancelAborts, invite
  <2> QED
    BY <2>1, <2>2, <2>3, <2>4, <2>5, <2>6 DEF Handlers
<1>2. CASE Unload
  BY <1>2 DEF Unload, invite
<1>3. CASE Resume
  <2>1. CASE \E r \in Calls : PushResumes(r) \/ CancelResumes(r)
    BY <2>1 DEF PushResumes, CancelResumes, Install, DropPending
  <2>2. CASE \E t \in Tasks : HandlerStopsBridge(t)
    BY <2>2 DEF HandlerStopsBridge, invite
  <2>3. CASE UnloadResumes
    BY <2>3 DEF UnloadResumes, invite
  <2> QED
    BY <1>3, <2>1, <2>2, <2>3 DEF Resume
<1>4. CASE \E c \in Calls : Peer(c) \/ Publish(c) \/ GraceOver(c) \/ Internal(c)
  BY <1>4 DEF Peer, Publish, GraceOver, Internal, OnCallActive, OnCallEnded, invite
<1> QED
  BY <1>1, <1>2, <1>3, <1>4 DEF Next


\* The steps of the users keep DialInv: the task that dials a ring has marked it
\* before its first await, and unmarks it only when it stops dialling.
LEMMA UsersKeepDialInv ==
    ASSUME TypeOK, DataShown, DialInv, NEW u \in Users, User(u) \/ UserResumes(u)
    PROVE  DialInv'
<1>d. data # None
  BY DEF DataShown, User, UserResumes, Tap, TapRefused, TapStarts, Taps,
         StartFails, StartReturns, Answered, WaitEnds, Rest
<1>1. CASE Tap(u) \/ TapRefused(u) \/ Answered(u) \/ WaitEnds(u)
  <2>1. started' = started /\ (Await(u) \/ Finish(u))
    BY <1>1 DEF Tap, TapRefused, Answered, WaitEnds, invite
  <2> QED
    BY <2>1, <1>d, AwaitTypes DEF DialInv, DialledOnce
<1>2. CASE TapStarts(u)
  <2>1. /\ user' = [user EXCEPT ![u] = [pc |-> "starting", ring |-> pending]]
        /\ started' = started \union {pending} /\ pending \notin started
    BY <1>2 DEF TapStarts, ToStart, Marked
  <2> QED
    BY <2>1 DEF DialInv, DialledOnce, TypeOK
<1>3. CASE StartFails(u)
  <2>1. Await(u) /\ started' = started \ {user[u].ring} /\ user[u].pc = "starting"
    BY <1>3 DEF StartFails
  <2> QED
    BY <2>1, <1>d, AwaitTypes DEF DialInv, DialledOnce
<1>4. CASE StartReturns(u)
  <2>1. user' = [user EXCEPT ![u].pc = "answering"] /\ started' = started
    BY <1>4 DEF StartReturns
  <2> QED
    BY <2>1 DEF DialInv, DialledOnce, TypeOK
<1> QED
  BY <1>1, <1>2, <1>3, <1>4 DEF User, UserResumes
-----------------------------------------------------------------------------
(* The theorems.                                                           *)

\* The inductive invariant.
Inv == TypeOK /\ DataShown /\ DialInv

\* The invariant holds before the first push.
LEMMA InvInit == Init => Inv
<1> SUFFICES ASSUME Init PROVE Inv
  OBVIOUS
<1>1. CMTypeOK
  BY RefFacts DEF Init, CMInit, CMTypeOK, Idle
<1>2. TypeOK
  BY <1>1, RefFacts, RingsAssumption DEF Init, TypeOK, Rest
<1>3. DataShown /\ DialInv
  BY DEF Init, DataShown, DialInv, DialledOnce, Rest
<1> QED
  BY <1>2, <1>3 DEF Inv

\* The steps that are not the users' keep the types, and the data once shown.
LEMMA OthersTypes ==
    ASSUME TypeOK, Next, ~(\E u \in Users : User(u) \/ UserResumes(u))
    PROVE  TypeOK' /\ (data' = None => data = None)
<1>u. user' = user /\ started' = started
  BY OthersLeaveUsers
<1>m. CMTypeOK /\ (UNCHANGED cmVars => CMTypeOK')
  BY DEF TypeOK, CMTypeOK, cmVars, timers, bridge
<1>1. CASE \E r \in Calls : Handlers(r) \/ PushResumes(r) \/ CancelResumes(r)
  <2>1. PICK r \in Calls : Handlers(r) \/ PushResumes(r) \/ CancelResumes(r)
    BY <1>1
  <2>2. data' \in {data, r}
    BY <2>1 DEF Handlers, Push, PushAborts, Cancel, CancelIgnored, CancelAborts,
                PushResumes, CancelResumes, Install, DropPending, view
  <2> QED
    BY <2>1, <2>2, HandlerTypes, RefFacts
<1>2. CASE Unload
  <2>1. CMTypeOK'
    BY <1>2, <1>m, StopTypes, TaskFacts DEF Unload
  <2> QED
    BY <1>2, <2>1 DEF Unload, TypeOK, invite, view, pushes, history
<1>3. CASE UnloadResumes
  <2>1. CMTypeOK'
    BY <1>3, <1>m, StopTypes, TaskFacts DEF UnloadResumes
  <2> QED
    BY <1>3, <2>1 DEF UnloadResumes, TypeOK, invite, view, pushes, history
<1>4. CASE \E t \in Tasks : HandlerStopsBridge(t)
  <2>1. CMTypeOK'
    BY <1>4, <1>m, AbortTypes DEF HandlerStopsBridge
  <2> QED
    BY <1>4, <2>1 DEF HandlerStopsBridge, TypeOK, invite, view, pushes, history
<1>5. CASE \E c \in Calls : Peer(c) \/ Internal(c) \/ (GraceOver(c) \/ Publish(c))
  <2>1. PICK c \in Calls : Peer(c) \/ Internal(c) \/ (GraceOver(c) \/ Publish(c))
    BY <1>5
  <2>2. CASE Peer(c) \/ Internal(c)
    <3>1. CMTypeOK'
      BY <2>2, <1>m, CallbackTypes, SpawnTypes DEF Peer, Internal
    <3>2. UNCHANGED <<invite, view, user, pushes, unloads, history>>
      BY <2>2 DEF Peer, Internal
    <3> QED
      BY <3>1, <3>2 DEF TypeOK, invite, view, pushes, history
  <2>3. CASE GraceOver(c) \/ Publish(c)
    <3>1. CMTypeOK'
      BY <2>3, <1>m, CallbackTypes, SpawnTypes DEF GraceOver, Publish
    <3>2. OnCallActive(c) \/ OnCallEnded(c)
      BY <2>3 DEF GraceOver, Publish
    <3>3. UNCHANGED <<data, pushes, unloads, history>>
      BY <3>2 DEF OnCallActive, OnCallEnded
    <3>4. /\ pending' \in Ref /\ ready' \in SUBSET Calls /\ sipCall' \in Ref
          /\ data' \in Ref /\ streamUrl' \in Ref
      BY <3>2, InviteTypes, RefFacts
    <3> QED
      BY <1>u, <3>1, <3>3, <3>4 DEF TypeOK, pushes, history
  <2> QED
    BY <2>1, <2>2, <2>3
<1> QED
  BY <1>1, <1>2, <1>3, <1>4, <1>5 DEF Next, Resume

\* Every step keeps the invariant.
LEMMA InvStep == Inv /\ [Next]_vars => Inv'
<1> SUFFICES ASSUME Inv, [Next]_vars PROVE Inv'
  OBVIOUS
<1>1. CASE \E u \in Users : User(u) \/ UserResumes(u)
  BY <1>1, UserTypes, UsersKeepDialInv DEF Inv, DataShown
<1>2. CASE Next /\ ~(\E u \in Users : User(u) \/ UserResumes(u))
  BY <1>2, OthersTypes, OthersLeaveUsers DEF Inv, DataShown, DialInv, DialledOnce
<1>3. CASE UNCHANGED vars
  <2>1. CMTypeOK'
    BY <1>3 DEF Inv, TypeOK, CMTypeOK, vars, cmVars, timers, bridge
  <2> QED
    BY <1>3, <2>1 DEF Inv, TypeOK, DataShown, DialInv, DialledOnce, vars, invite, view, pushes, history
<1> QED
  BY <1>1, <1>2, <1>3

\* The state of the manager and of the coordinator keeps its shape, in every
\* window of interleaving.
THEOREM TypeCorrect == Spec => []TypeOK
<1>1. Inv => TypeOK
  BY DEF Inv
<1> QED
  BY <1>1, InvInit, InvStep, PTL DEF Spec

\* A ring is dialled by one task at a time: async_ensure_call_started marks the
\* invite before it awaits, so a second tap does not place a second call.
THEOREM RingDialledOnce == Spec => []DialledOnce
<1>1. Inv => DialledOnce
  BY DEF Inv, DialInv
<1> QED
  BY <1>1, InvInit, InvStep, PTL DEF Spec
-----------------------------------------------------------------------------
(* Without a push or an unload during a connect or an abort, the manager   *)
(* holds every dialog that is up, and a stop leaves none.                  *)

\* No push, cancel or unload begins while a call connects or an abort waits.
Calm == Races \subseteq {"teardown"}

Suspended(t) == frame[t].pc # "idle"
Unloading == <<"unload", None>>
Placed == {None} \union started

\* A call that connects has the manager to itself, and only one does.
ConnectsAlone ==
    /\ \A c \in Calls : dialog[c] = "connecting" =>
         /\ active = None
         /\ unloads = 0
         /\ pending \in {None, c}
         /\ \A t \in Tasks : ~Suspended(t)
    /\ \A c, d \in Calls : dialog[c] = "connecting" /\ dialog[d] = "connecting" => c = d

\* A call in its grace is over, and a call that has begun was marked.
GraceIsOver ==
    \A c \in Calls :
        /\ grace[c] # "off" => dialog[c] \notin {"idle", "connecting"} \union Live
        /\ dialog[c] # "idle" => c \in started

\* While a call is tracked, or an abort waits, no other invite is to be dialled.
NothingToDial ==
    /\ active # None => pending \in Placed
    /\ \A t \in Tasks : Suspended(t) => unloads > 0 \/ pending \in Placed

\* One task at a time waits in the manager; after an abort no dialog is up.
OneWaits ==
    /\ \A s, t \in Tasks : Suspended(s) /\ Suspended(t) => s = t
    /\ Suspended(Unloading) => unloads > 0
    /\ \A t \in Tasks : Suspended(t) /\ t # Unloading => \A c \in Calls : dialog[c] \notin Live

\* A stopped manager is empty.
StoppedEmpty ==
    manager = "stopped" => unloads > 0 /\ active = None /\ client = None /\ sockets = None

TrackInv ==
    /\ ManagerTracksDialog
    /\ ConnectsAlone
    /\ GraceIsOver
    /\ NothingToDial
    /\ OneWaits
    /\ StoppedEmpty

\* Which states a dialog has, and that no user starts an invite of nothing.
LEMMA TrackTypes ==
    ASSUME Inv
    PROVE  /\ dialog \in [Calls -> {"idle", "connecting", "closing", "over", "inviting", "confirmed"}]
           /\ grace \in [Calls -> {"off", "sleeping", "stopping"}]
           /\ frame \in [Tasks -> [pc : {"idle", "spawn", "bridge"}, call : Ref, task : Ref]]
           /\ unloads \in 0 .. 2 /\ active \in Ref /\ pending \in Ref
           /\ manager \in {"started", "stopped"}
           /\ \A u \in Users : user[u].pc = "starting" => user[u].ring \in started
           /\ started \in SUBSET Calls
BY DEF Inv, TypeOK, CMTypeOK, DialInv, Live

\* A step that leaves the dialogs, the tracked call and the waiting tasks alone.
LEMMA UnrelatedStep ==
    ASSUME TrackInv, UNCHANGED <<dialog, client, active, manager, unloads, frame, started>>,
           pending' \in {pending, None}, sockets' \in {sockets, None},
           \A c \in Calls : grace'[c] # "off" => grace[c] # "off"
    PROVE  TrackInv'
<1>1. Placed' = Placed /\ \A t : Suspended(t)' = Suspended(t)
  BY DEF Placed, Suspended
<1>2. ManagerTracksDialog' /\ ConnectsAlone' /\ GraceIsOver' /\ StoppedEmpty'
  BY <1>1 DEF TrackInv, ManagerTracksDialog, ConnectsAlone, GraceIsOver, StoppedEmpty
<1>3. NothingToDial' /\ OneWaits'
  BY <1>1 DEF TrackInv, NothingToDial, OneWaits, Placed
<1> QED
  BY <1>2, <1>3 DEF TrackInv

\* The end of a call whose dialog had begun.
LEMMA CallEnds ==
    ASSUME Inv, TrackInv, NEW c \in Calls, dialog[c] \notin {"idle", "connecting"},
           dialog' = [dialog EXCEPT ![c] = "over"], DropCall(c),
           UNCHANGED <<active, manager, unloads, frame, started, pending>>
    PROVE  TrackInv'
<1>1. Placed' = Placed /\ \A t : Suspended(t)' = Suspended(t)
  BY DEF Placed, Suspended
<1>2. /\ dialog'[c] = "over" /\ \A d \in Calls : d # c => dialog'[d] = dialog[d]
      /\ "over" \notin Live
  BY TrackTypes DEF Live
<1>3. ManagerTracksDialog'
  BY <1>2 DEF TrackInv, ManagerTracksDialog, DropCall
<1>4. ConnectsAlone'
  BY <1>1, <1>2 DEF TrackInv, ConnectsAlone
<1>5. GraceIsOver'
  <2>1. \A d \in Calls : grace'[d] # "off" => d = c \/ grace[d] # "off"
    BY DEF DropCall, GraceFor
  <2> QED
    BY <1>2, <2>1 DEF TrackInv, GraceIsOver
<1>6. NothingToDial' /\ OneWaits' /\ StoppedEmpty'
  BY <1>1, <1>2 DEF TrackInv, NothingToDial, OneWaits, StoppedEmpty, Placed, DropCall
<1> QED
  BY <1>3, <1>4, <1>5, <1>6 DEF TrackInv

\* Hanging up, whether or not there is a dialog to end.
LEMMA HangUpEnds ==
    ASSUME Inv, TrackInv, NEW c \in Calls, HangUp(c),
           UNCHANGED <<active, manager, unloads, frame, started, pending>>
    PROVE  TrackInv'
<1>1. CASE client = c /\ dialog[c] \in Live
  BY <1>1, CallEnds DEF HangUp, Live
<1>2. CASE ~(client = c /\ dialog[c] \in Live)
  BY <1>2, UnrelatedStep DEF HangUp
<1> QED
  BY <1>1, <1>2

\* Nothing is up, nothing waits and nothing is tracked: any invite may be pending.
LEMMA QuietStep ==
    ASSUME \A c \in Calls : /\ dialog'[c] \notin Live \union {"connecting"}
                            /\ dialog'[c] # "idle" => c \in started'
                            /\ grace'[c] # "off" => dialog'[c] # "idle",
           \A t \in Tasks : ~Suspended(t)', Unloading \in Tasks, active' = None,
           manager' = "stopped" => unloads' > 0 /\ client' = None /\ sockets' = None
    PROVE  TrackInv'
BY DEF TrackInv, ManagerTracksDialog, ConnectsAlone, GraceIsOver, NothingToDial,
       OneWaits, StoppedEmpty

\* What an abort does at once leaves no dialog up.
LEMMA DropActiveEnds ==
    ASSUME Inv, TrackInv, active # None, DropActive
    PROVE  \A c \in Calls :
             /\ dialog'[c] \notin Live \union {"connecting"}
             /\ dialog'[c] # "idle" => c \in started
             /\ grace'[c] # "off" => dialog'[c] # "idle"
<1> SUFFICES ASSUME NEW c \in Calls
             PROVE  /\ dialog'[c] \notin Live \union {"connecting"}
                    /\ dialog'[c] # "idle" => c \in started
                    /\ grace'[c] # "off" => dialog'[c] # "idle"
  OBVIOUS
<1>1. active \in Calls /\ dialog[c] # "connecting" /\ (dialog[c] # "idle" => c \in started)
  BY TrackTypes DEF TrackInv, ConnectsAlone, GraceIsOver, Ref
<1>2. CASE HangsUp
  <2>1. dialog' = [dialog EXCEPT ![active] = "over"] /\ grace' = GraceFor(active)
    BY <1>2 DEF DropActive
  <2>2. CASE c = active
    BY <1>1, <1>2, <2>1, <2>2, TrackTypes DEF HangsUp, Live
  <2>3. CASE c # active
    BY <1>1, <2>1, <2>3, TrackTypes DEF TrackInv, ManagerTracksDialog, GraceFor
  <2> QED
    BY <2>2, <2>3
<1>3. CASE ~HangsUp
  <2>1. dialog[c] \notin Live
    BY <1>3 DEF HangsUp, TrackInv, ManagerTracksDialog
  <2>2. dialog' = TransportClosed /\ grace' = NoGrace
    BY <1>3 DEF DropActive
  <2> QED
    BY <1>1, <2>1, <2>2, TrackTypes DEF TransportClosed, NoGrace
<1> QED
  BY <1>2, <1>3

\* In a calm system a push, a cancel or the unload finds nothing suspended.
LEMMA CalmWindow ==
    ASSUME Calm, Window
    PROVE  /\ \A c \in Calls : dialog[c] # "connecting"
           /\ \A t \in Tasks : ~Suspended(t)
BY DEF Calm, Window, Suspended, Idle

\* The steps of the users: a call is placed only when nothing is tracked and
\* nothing waits, and it is the only one to connect.
LEMMA UsersTrack ==
    ASSUME Inv, TrackInv, NEW u \in Users, User(u) \/ UserResumes(u)
    PROVE  TrackInv'
<1>1. CASE Tap(u) \/ TapRefused(u) \/ Answered(u) \/ WaitEnds(u)
  <2>1. UNCHANGED <<cmVars, pending, started, unloads>>
    BY <1>1 DEF Tap, TapRefused, Answered, WaitEnds, Await, Finish, invite
  <2> QED
    BY <2>1, UnrelatedStep DEF cmVars, timers
<1>2. CASE TapStarts(u)
  <2>1. /\ pending \in Calls /\ pending \notin started /\ unloads = 0
        /\ active = None /\ manager = "started"
    BY <1>2, TrackTypes DEF TapStarts, Taps, Loaded, ToStart, StartConnect, CanStart, Ref
  <2>2. /\ dialog' = [dialog EXCEPT ![pending] = "connecting"] /\ started' = started \union {pending}
        /\ UNCHANGED <<pending, unloads, manager, active, client, grace, frame>>
    BY <1>2 DEF TapStarts, StartConnect, Marked, timers
  <2>3. dialog[pending] = "idle" /\ grace[pending] = "off"
    BY <2>1 DEF TrackInv, GraceIsOver
  <2>4. \A t \in Tasks : ~Suspended(t) /\ ~Suspended(t)'
    BY <2>1, <2>2 DEF TrackInv, NothingToDial, Placed, Suspended, None, Calls
  <2>5. \A c \in Calls : dialog[c] # "connecting"
    BY <2>1 DEF TrackInv, ConnectsAlone, GraceIsOver, Calls, None
  <2>6. /\ dialog'[pending] = "connecting"
        /\ \A c \in Calls : c # pending => dialog'[c] = dialog[c]
    BY <2>1, <2>2, TrackTypes
  <2>7. ManagerTracksDialog' /\ ConnectsAlone' /\ GraceIsOver'
    BY <2>1, <2>2, <2>3, <2>4, <2>5, <2>6
       DEF TrackInv, ManagerTracksDialog, ConnectsAlone, GraceIsOver, Live
  <2>8. NothingToDial' /\ OneWaits' /\ StoppedEmpty'
    BY <2>1, <2>2, <2>4, TaskFacts DEF TrackInv, NothingToDial, OneWaits, StoppedEmpty, Placed, Unloading
  <2> QED
    BY <2>7, <2>8 DEF TrackInv
<1>3. CASE StartFails(u)
  <2> DEFINE r == user[u].ring
  <2>1. r \in Calls /\ dialog[r] = "connecting"
    BY <1>3, TrackTypes DEF StartFails, ConnectFail, ConnectRaises
  <2>2. /\ dialog' = [dialog EXCEPT ![r] = "idle"] /\ started' = started \ {r}
        /\ UNCHANGED <<pending, unloads, manager, active, grace, frame>>
        /\ client' \in {client, None} /\ sockets' = None
    BY <1>3 DEF StartFails, ConnectFail, ConnectRaises, Await, Finish, timers
  <2>3. active = None /\ \A t \in Tasks : ~Suspended(t)
    BY <2>1 DEF TrackInv, ConnectsAlone
  <2>4. \A c \in Calls : dialog[c] \notin Live /\ (dialog[c] = "connecting" => c = r)
    BY <2>1, <2>3 DEF TrackInv, ManagerTracksDialog, ConnectsAlone, Calls, None
  <2>5. \A c \in Calls : /\ dialog'[c] \notin Live \union {"connecting"}
                         /\ dialog'[c] # "idle" => c \in started'
                         /\ grace'[c] # "off" => dialog'[c] # "idle"
    BY <2>1, <2>2, <2>4, TrackTypes DEF TrackInv, GraceIsOver, Live
  <2> QED
    BY <2>2, <2>3, <2>5, TaskFacts, QuietStep DEF TrackInv, StoppedEmpty, Suspended, Unloading
<1>4. CASE StartReturns(u)
  <2> DEFINE r == user[u].ring
  <2>1. r \in Calls /\ dialog[r] = "connecting"
    BY <1>4, TrackTypes DEF StartReturns, ConnectOk
  <2>2. /\ dialog' = [dialog EXCEPT ![r] = "inviting"] /\ client' = r /\ active' = r
        /\ UNCHANGED <<pending, started, unloads, manager, grace, frame, sockets>>
    BY <1>4 DEF StartReturns, ConnectOk
  <2>3. /\ active = None /\ unloads = 0 /\ pending \in {None, r} /\ r \in started
        /\ \A t \in Tasks : ~Suspended(t)
    BY <2>1 DEF TrackInv, ConnectsAlone, GraceIsOver
  <2>4. \A c \in Calls : dialog[c] \notin Live /\ (dialog[c] = "connecting" => c = r)
    BY <2>1, <2>3 DEF TrackInv, ManagerTracksDialog, ConnectsAlone, Calls, None
  <2>5. /\ dialog'[r] = "inviting"
        /\ \A c \in Calls : c # r => dialog'[c] = dialog[c]
    BY <2>1, <2>2, TrackTypes
  <2>6. ManagerTracksDialog' /\ ConnectsAlone'
    BY <2>2, <2>4, <2>5 DEF ManagerTracksDialog, ConnectsAlone
  <2>7. GraceIsOver'
    BY <2>1, <2>2, <2>3, <2>5 DEF TrackInv, GraceIsOver
  <2>8. NothingToDial' /\ OneWaits' /\ StoppedEmpty'
    BY <2>2, <2>3, TaskFacts
       DEF TrackInv, NothingToDial, OneWaits, StoppedEmpty, Placed, Suspended, Unloading
  <2> QED
    BY <2>6, <2>7, <2>8 DEF TrackInv
<1> QED
  BY <1>1, <1>2, <1>3, <1>4 DEF User, UserResumes

\* An abort that has something to wait for suspends its task.
LEMMA AbortWaits ==
    ASSUME Inv, TrackInv, NEW t \in Tasks, t # Unloading,
           \A s \in Tasks : ~Suspended(s),
           AbortCancelsSpawn(t) \/ AbortStopsBridge(t),
           UNCHANGED <<pending, started, unloads>>
    PROVE  TrackInv'
<1>1. /\ active # None /\ DropActive /\ UNCHANGED <<manager, active>>
      /\ \A s \in Tasks : s # t => frame'[s] = frame[s]
  BY TrackTypes DEF AbortCancelsSpawn, AbortStopsBridge, CancelSpawn, AwaitStop
<1>2. \A s \in Tasks : Suspended(s)' => s = t
  BY <1>1 DEF Suspended
<1>3. \A c \in Calls : /\ dialog'[c] \notin Live \union {"connecting"}
                       /\ dialog'[c] # "idle" => c \in started
                       /\ grace'[c] # "off" => dialog'[c] # "idle"
  BY <1>1, DropActiveEnds
<1>4. pending \in Placed /\ Placed' = Placed
  BY <1>1 DEF TrackInv, NothingToDial, Placed
<1>5. ManagerTracksDialog' /\ ConnectsAlone' /\ GraceIsOver'
  BY <1>3 DEF ManagerTracksDialog, ConnectsAlone, GraceIsOver
<1>6. NothingToDial' /\ OneWaits'
  BY <1>2, <1>3, <1>4, TaskFacts DEF NothingToDial, OneWaits, Unloading
<1>7. StoppedEmpty'
  BY <1>1 DEF TrackInv, StoppedEmpty
<1> QED
  BY <1>5, <1>6, <1>7 DEF TrackInv

\* An abort with nothing to wait for, from a push or a cancel.
LEMMA AbortAtOnce ==
    ASSUME Inv, TrackInv, AbortNow, \A t \in Tasks : ~Suspended(t),
           UNCHANGED <<started, unloads>>
    PROVE  TrackInv'
<1>1. \A c \in Calls : /\ dialog'[c] \notin Live \union {"connecting"}
                       /\ dialog'[c] # "idle" => c \in started'
                       /\ grace'[c] # "off" => dialog'[c] # "idle"
  BY DropActiveEnds DEF AbortNow
<1>2. UNCHANGED <<manager, frame>> /\ active' = None /\ active # None
  BY DEF AbortNow
<1>3. manager # "stopped"
  BY <1>2 DEF TrackInv, StoppedEmpty
<1> QED
  BY <1>1, <1>2, <1>3, TaskFacts, QuietStep DEF Suspended, Unloading

\* The end of an abort: the task was the only one suspended.
LEMMA AbortIsOver ==
    ASSUME Inv, TrackInv, NEW t \in Tasks, t # Unloading, AbortEnd(t),
           UNCHANGED <<started, unloads>>
    PROVE  TrackInv'
<1>1. /\ Suspended(t) /\ active' = None /\ frame' = [frame EXCEPT ![t] = Idle]
      /\ UNCHANGED <<manager, client, sockets, grace, dialog>>
  BY DEF AbortEnd, Resumes, AwaitedSpawn, Suspended, timers
<1>2. \A s \in Tasks : ~Suspended(s)'
  BY <1>1, TrackTypes DEF TrackInv, OneWaits, Suspended, Idle
<1>3. \A c \in Calls : /\ dialog[c] \notin Live \union {"connecting"}
                       /\ dialog[c] # "idle" => c \in started
                       /\ grace[c] # "off" => dialog[c] # "idle"
  BY <1>1 DEF TrackInv, OneWaits, ConnectsAlone, GraceIsOver
<1>4. manager = "stopped" => unloads > 0 /\ client = None /\ sockets = None
  BY DEF TrackInv, StoppedEmpty
<1> QED
  BY <1>1, <1>2, <1>3, <1>4, TaskFacts, QuietStep DEF Unloading

\* Pushes and cancels, on arrival and when they resume.
LEMMA HandlersTrack ==
    ASSUME Inv, TrackInv, Calm, NEW r \in Calls, Handlers(r) \/ PushResumes(r) \/ CancelResumes(r)
    PROVE  TrackInv'
<1> DEFINE p == <<"push", r>>
           k == <<"cancel", r>>
<1>t. p \in Tasks /\ k \in Tasks /\ p # Unloading /\ k # Unloading
  BY TaskFacts DEF Unloading
<1>1. CASE Push(r)
  <2>1. /\ \A t \in Tasks : ~Suspended(t)
        /\ \A c \in Calls : dialog[c] # "connecting"
        /\ UNCHANGED <<started, unloads>>
    BY <1>1, CalmWindow DEF Push, Arrives, Install
  <2>2. CASE AbortNow
    BY <2>1, <2>2, AbortAtOnce
  <2>3. CASE ~Tracking /\ UNCHANGED cmVars
    <3>1. active = None /\ UNCHANGED <<dialog, grace, frame, manager, client, sockets, active>>
      BY <2>3 DEF Tracking, cmVars, timers
    <3>2. \A c \in Calls : dialog[c] \notin Live
      BY <3>1 DEF TrackInv, ManagerTracksDialog, Calls, None
    <3> QED
      BY <2>1, <3>1, <3>2, TaskFacts, QuietStep
         DEF TrackInv, StoppedEmpty, GraceIsOver, Suspended, Unloading
  <2> QED
    BY <1>1, <2>2, <2>3 DEF Push
<1>2. CASE PushAborts(r)
  <2>1. /\ \A t \in Tasks : ~Suspended(t)
        /\ UNCHANGED <<pending, started, unloads>>
    BY <1>2, CalmWindow DEF PushAborts, Arrives, invite
  <2> QED
    BY <1>2, <1>t, <2>1, AbortWaits DEF PushAborts
<1>3. CASE Cancel(r)
  <2>1. /\ \A t \in Tasks : ~Suspended(t)
        /\ pending' = None /\ UNCHANGED <<started, unloads>>
    BY <1>3, CalmWindow DEF Cancel, CancelArrives, DropPending
  <2>2. CASE AbortNow
    BY <2>1, <2>2, AbortAtOnce
  <2>3. CASE UNCHANGED cmVars
    BY <2>1, <2>3, UnrelatedStep DEF cmVars, timers
  <2> QED
    BY <1>3, <2>2, <2>3 DEF Cancel
<1>4. CASE CancelIgnored(r)
  BY <1>4, UnrelatedStep DEF CancelIgnored, CancelArrives, cmVars, timers, invite
<1>5. CASE CancelAborts(r)
  <2>1. /\ \A t \in Tasks : ~Suspended(t)
        /\ UNCHANGED <<pending, started, unloads>>
    BY <1>5, CalmWindow DEF CancelAborts, CancelArrives, invite
  <2> QED
    BY <1>5, <1>t, <2>1, AbortWaits DEF CancelAborts
<1>6. CASE PushResumes(r)
  BY <1>6, <1>t, AbortIsOver DEF PushResumes, Install
<1>7. CASE CancelResumes(r)
  BY <1>7, <1>t, AbortIsOver DEF CancelResumes, DropPending
<1> QED
  BY <1>1, <1>2, <1>3, <1>4, <1>5, <1>6, <1>7 DEF Handlers

\* A task that has waited for the spawn goes on to wait for the bridge.
LEMMA WaiterTracks ==
    ASSUME Inv, TrackInv, NEW t \in Tasks, HandlerStopsBridge(t)
    PROVE  TrackInv'
<1>1. /\ UNCHANGED <<dialog, grace, client, active, manager, sockets, pending, started, unloads>>
      /\ frame[t].pc = "spawn"
      /\ frame' = [frame EXCEPT ![t] = [pc |-> "bridge", call |-> frame[t].call, task |-> None]]
  BY DEF HandlerStopsBridge, ThenStopsBridge, AwaitStop, AwaitedSpawn, timers, invite
<1>2. \A s \in Tasks : Suspended(s)' = Suspended(s)
  BY <1>1, TrackTypes DEF Suspended
<1> QED
  BY <1>1, <1>2, TaskFacts
     DEF TrackInv, ManagerTracksDialog, ConnectsAlone, GraceIsOver, NothingToDial,
         OneWaits, StoppedEmpty, Placed, Unloading

\* The end of async_stop: the transport of a live dialog is closed.
LEMMA ClearedTracks ==
    ASSUME Inv, TrackInv, Cleared, \A t \in Tasks : ~Suspended(t)', unloads' > 0,
           \A c \in Calls : dialog[c] # "connecting", started' = started
    PROVE  TrackInv'
<1>1. \A c \in Calls : dialog[c] \in Live => client = c
  BY DEF TrackInv, ManagerTracksDialog
<1>2. \A c \in Calls : /\ dialog'[c] \notin Live \union {"connecting"}
                       /\ dialog'[c] # "idle" => c \in started'
                       /\ grace'[c] = "off"
  BY <1>1, TrackTypes DEF Cleared, TransportClosed, NoGrace, TrackInv, GraceIsOver, Live
<1>3. active' = None /\ client' = None /\ sockets' = None
  BY DEF Cleared
<1> QED
  BY <1>2, <1>3, TaskFacts, QuietStep DEF Unloading

\* The unload, from its beginning to its end.
LEMMA UnloadTracks ==
    ASSUME Inv, TrackInv, Calm, Unload \/ UnloadResumes
    PROVE  TrackInv'
<1>t. Unloading \in Tasks /\ Unloading = <<"unload", None>>
  BY TaskFacts DEF Unloading
<1>1. CASE Unload
  <2>1. /\ \A t \in Tasks : ~Suspended(t)
        /\ \A c \in Calls : dialog[c] # "connecting"
        /\ unloads' = unloads + 1 /\ unloads' > 0
        /\ UNCHANGED <<pending, started>>
    BY <1>1, CalmWindow, TrackTypes DEF Unload, invite
  <2>2. CASE StopNow(Unloading)
    BY <2>1, <2>2, ClearedTracks DEF StopNow, Suspended
  <2>3. CASE StopCancelsSpawn(Unloading) \/ StopStopsBridge(Unloading)
    <3>1. /\ UNCHANGED <<manager, active, client, sockets, grace, dialog>>
          /\ \A s \in Tasks : s # Unloading => frame'[s] = frame[s]
      BY <2>3, <1>t, TrackTypes DEF StopCancelsSpawn, StopStopsBridge, CancelSpawn, AwaitStop, timers
    <3>2. \A s \in Tasks : Suspended(s)' => s = Unloading
      BY <2>1, <3>1 DEF Suspended
    <3>3. ManagerTracksDialog' /\ ConnectsAlone' /\ GraceIsOver'
      BY <2>1, <3>1 DEF TrackInv, ManagerTracksDialog, ConnectsAlone, GraceIsOver
    <3>4. NothingToDial' /\ OneWaits' /\ StoppedEmpty'
      BY <2>1, <3>1, <3>2 DEF TrackInv, NothingToDial, OneWaits, StoppedEmpty, Placed
    <3> QED
      BY <3>3, <3>4 DEF TrackInv
  <2> QED
    BY <1>1, <1>t, <2>2, <2>3 DEF Unload
<1>2. CASE UnloadResumes
  <2>1. /\ Cleared /\ Suspended(Unloading) /\ frame' = [frame EXCEPT ![Unloading] = Idle]
        /\ UNCHANGED <<started, unloads>>
    BY <1>2, <1>t DEF UnloadResumes, StopEnd, Resumes, AwaitedSpawn, Suspended, invite
  <2>2. /\ unloads > 0 /\ \A s \in Tasks : ~Suspended(s)'
        /\ \A c \in Calls : dialog[c] # "connecting"
    BY <1>t, <2>1, TrackTypes DEF TrackInv, OneWaits, ConnectsAlone, Suspended, Idle
  <2> QED
    BY <2>1, <2>2, ClearedTracks
<1> QED
  BY <1>1, <1>2

\* The server, the timers and the bridge starts.
LEMMA CallbacksTrack ==
    ASSUME Inv, TrackInv, NEW c \in Calls, Peer(c) \/ Publish(c) \/ GraceOver(c) \/ Internal(c)
    PROVE  TrackInv'
<1>1. CASE Peer(c)
  <2>1. UNCHANGED <<pending, started, unloads>>
    BY <1>1 DEF Peer, invite
  <2>2. CASE Terminated(c)
    BY <2>1, <2>2, CallEnds DEF Terminated, Live
  <2>3. CASE Established(c)
    <3>1. /\ dialog[c] = "inviting" /\ dialog' = [dialog EXCEPT ![c] = "confirmed"]
          /\ UNCHANGED <<manager, active, client, sockets, grace, frame>>
      BY <2>3 DEF Established, timers
    <3>2. /\ \A d \in Calls : /\ dialog'[d] \in Live <=> dialog[d] \in Live
                              /\ dialog'[d] = "connecting" <=> dialog[d] = "connecting"
                              /\ dialog'[d] = "idle" <=> dialog[d] = "idle"
          /\ \A t : Suspended(t)' = Suspended(t)
      BY <3>1, TrackTypes DEF Live, Suspended
    <3>3. ManagerTracksDialog' /\ ConnectsAlone' /\ GraceIsOver'
      BY <2>1, <3>1, <3>2 DEF TrackInv, ManagerTracksDialog, ConnectsAlone, GraceIsOver
    <3>4. NothingToDial' /\ OneWaits' /\ StoppedEmpty'
      BY <2>1, <3>1, <3>2 DEF TrackInv, NothingToDial, OneWaits, StoppedEmpty, Placed
    <3> QED
      BY <3>3, <3>4 DEF TrackInv
  <2> QED
    BY <1>1, <2>2, <2>3 DEF Peer
<1>2. CASE Publish(c)
  BY <1>2, UnrelatedStep DEF Publish, SpawnPublish, OnCallActive, TakeSockets, timers
<1>3. CASE GraceOver(c) \/ (GraceExpired(c) /\ Reaping /\ Internal(c))
  <2>1. UNCHANGED <<started, unloads>> /\ pending' \in {pending, None}
    BY <1>3 DEF GraceOver, OnCallEnded, Internal, invite
  <2>2. CASE GraceEnd(c)
    BY <2>1, <2>2, UnrelatedStep DEF GraceEnd, NoGrace
  <2>3. CASE GraceExpired(c)
    <3>1. /\ grace[c] = "sleeping" /\ active = c /\ active' = None
          /\ UNCHANGED <<manager, client, sockets, dialog, frame>>
          /\ \A d \in Calls : grace'[d] # "off" => d = c \/ grace[d] # "off"
      BY <2>3, TrackTypes DEF GraceExpired, NoGrace
    <3>2. \A d \in Calls : dialog[d] \notin Live
      BY <3>1 DEF TrackInv, ManagerTracksDialog, GraceIsOver
    <3>3. ManagerTracksDialog' /\ ConnectsAlone' /\ GraceIsOver' /\ StoppedEmpty'
      BY <2>1, <3>1, <3>2, TrackTypes
         DEF TrackInv, ManagerTracksDialog, ConnectsAlone, GraceIsOver, StoppedEmpty, Suspended
    <3>4. NothingToDial' /\ OneWaits'
      BY <2>1, <3>1, <3>2 DEF TrackInv, NothingToDial, OneWaits, Placed, Suspended
    <3> QED
      BY <3>3, <3>4 DEF TrackInv
  <2> QED
    BY <1>3, <2>2, <2>3 DEF GraceOver
<1>4. CASE Internal(c)
  <2>1. UNCHANGED <<pending, started, unloads>>
    BY <1>4 DEF Internal, invite
  <2>2. CASE MaxExpired(c)
    <3>1. CASE HangUp(c)
      BY <2>1, <2>2, <3>1, HangUpEnds DEF MaxExpired
    <3>2. CASE ~HangUp(c)
      BY <2>1, <2>2, <3>2, UnrelatedStep DEF MaxExpired
    <3> QED
      BY <3>1, <3>2
  <2>3. CASE SpawnWithoutSocket(c) \/ SpawnFail(c)
    BY <2>1, <2>3, HangUpEnds DEF SpawnWithoutSocket, SpawnFail
  <2>4. CASE GraceSuperseded(c)
    BY <2>1, <2>4, UnrelatedStep DEF GraceSuperseded, NoGrace
  <2>5. CASE \/ PrewarmReaped \/ SpawnStart(c) \/ SpawnFfmpeg(c) \/ SpawnInvalidated(c)
             \/ SpawnSuperseded(c) \/ SpawnUnwind(c)
    <3>1. /\ UNCHANGED <<dialog, client, active, manager, grace, frame>>
          /\ sockets' \in {sockets, None}
      BY <2>5 DEF PrewarmReaped, SpawnStart, SpawnFfmpeg, SpawnInvalidated, SpawnSuperseded,
                  SpawnUnwind, TakeSockets, timers
    <3> QED
      BY <2>1, <3>1, UnrelatedStep
  <2>6. CASE GraceExpired(c) /\ Reaping
    BY <1>3, <1>4, <2>6
  <2> QED
    BY <1>4, <2>2, <2>3, <2>4, <2>5, <2>6 DEF Internal
<1> QED
  BY <1>1, <1>2, <1>3, <1>4

\* In a calm system every step keeps TrackInv.
LEMMA TrackStep == Calm /\ Inv /\ TrackInv /\ [Next]_vars => TrackInv'
<1> SUFFICES ASSUME Calm, Inv, TrackInv, [Next]_vars PROVE TrackInv'
  OBVIOUS
<1>1. CASE \E u \in Users : User(u) \/ UserResumes(u)
  BY <1>1, UsersTrack
<1>2. CASE \E r \in Calls : Handlers(r) \/ PushResumes(r) \/ CancelResumes(r)
  BY <1>2, HandlersTrack
<1>3. CASE \E t \in Tasks : HandlerStopsBridge(t)
  BY <1>3, WaiterTracks
<1>4. CASE Unload \/ UnloadResumes
  BY <1>4, UnloadTracks
<1>5. CASE \E c \in Calls : Peer(c) \/ Publish(c) \/ GraceOver(c) \/ Internal(c)
  BY <1>5, CallbacksTrack
<1>6. CASE UNCHANGED vars
  BY <1>6, UnrelatedStep DEF vars, cmVars, timers, invite
<1> QED
  BY <1>1, <1>2, <1>3, <1>4, <1>5, <1>6 DEF Next, Resume

\* TrackInv holds before the first push.
LEMMA TrackInit == Init => TrackInv
<1> SUFFICES ASSUME Init PROVE TrackInv
  OBVIOUS
<1>1. /\ \A c \in Calls : dialog[c] = "idle" /\ grace[c] = "off"
      /\ \A t \in Tasks : ~Suspended(t)
      /\ active = None /\ manager = "started"
  BY DEF Init, CMInit, Suspended, Idle
<1> QED
  BY <1>1, TaskFacts
     DEF TrackInv, ManagerTracksDialog, ConnectsAlone, GraceIsOver, NothingToDial,
         OneWaits, StoppedEmpty, Live, Unloading

\* Both invariants hold in every reachable state of a calm system.
LEMMA CalmInvariant == ASSUME Calm PROVE Spec => [](Inv /\ TrackInv)
BY InvInit, InvStep, TrackInit, TrackStep, PTL DEF Spec

\* In a calm system every dialog that is up is the one the manager holds: no
\* call is left behind that neither hang_up nor the timers reach.
THEOREM CalmTracksDialog == ASSUME Calm PROVE Spec => []ManagerTracksDialog
<1>1. TrackInv => ManagerTracksDialog
  BY DEF TrackInv
<1> QED
  BY <1>1, CalmInvariant, PTL
-----------------------------------------------------------------------------
(* What CallSettles rests on, for the timers that fairness lets expire: the *)
(* manager is never busy with a call that nothing will end.                *)

\* A call whose dialog is up has the max-duration timer; a tracked call whose
\* dialog is not has its grace, or an abort that will clear it.
CallTimed ==
    /\ \A c \in Calls : dialog[c] \in Live <=> maxTask = c
    /\ active # None /\ dialog[active] \notin Live =>
         grace[active] # "off" \/ \E t \in Tasks : Suspended(t) /\ frame[t].call = active

\* There is one grace task, and one that stops the bridge has let go of the call.
OneGrace ==
    /\ \A c, d \in Calls : grace[c] # "off" /\ grace[d] # "off" => c = d
    /\ \A c \in Calls : grace[c] = "stopping" => active # c

TimedInv == CallTimed /\ OneGrace

\* Steps that touch no timer, and wake no task that waits for the tracked call.
LEMMA TimedKept ==
    ASSUME TimedInv, UNCHANGED <<active, dialog, maxTask, grace>>,
           \A t \in Tasks : Suspended(t) => frame'[t] = frame[t] \/ (Suspended(t)' /\ frame'[t].call = frame[t].call)
    PROVE  TimedInv'
<1>1. OneGrace'
  BY DEF TimedInv, OneGrace
<1>2. \A t \in Tasks : Suspended(t) => Suspended(t)' /\ frame'[t].call = frame[t].call
  BY DEF Suspended
<1> QED
  BY <1>1, <1>2 DEF TimedInv, CallTimed

\* The call c, if tracked, goes into its grace.
LEMMA TimedEnds ==
    ASSUME Inv, TrackInv, TimedInv, NEW c \in Calls, DropCall(c), dialog' = [dialog EXCEPT ![c] = "over"],
           UNCHANGED <<active, frame>>, c = active \/ dialog[c] \notin Live
    PROVE  TimedInv'
<1>1. /\ dialog'[c] = "over" /\ \A d \in Calls : d # c => dialog'[d] = dialog[d]
      /\ "over" \notin Live /\ None \notin Calls
  BY TrackTypes, RefFacts DEF Live
<1>2. CASE c = active
  <2>1. maxTask' = None /\ grace' = GraceFor(c)
    BY <1>2 DEF DropCall
  <2>2. grace'[c] = "sleeping" /\ \A d \in Calls : d # c => grace'[d] = "off"
    BY <2>1 DEF GraceFor
  <2>3. \A d \in Calls : dialog'[d] \notin Live
    BY <1>1, <1>2 DEF TrackInv, ManagerTracksDialog
  <2>4. CallTimed'
    BY <1>1, <1>2, <2>1, <2>2, <2>3 DEF CallTimed
  <2>5. OneGrace'
    BY <2>2 DEF OneGrace
  <2> QED
    BY <2>4, <2>5 DEF TimedInv
<1>3. CASE c # active
  <2>1. UNCHANGED <<maxTask, grace>>
    BY <1>3 DEF DropCall
  <2>2. active # None => active \in Calls
    BY TrackTypes DEF Ref
  <2>3. CallTimed'
    BY <1>1, <1>3, <2>1, <2>2 DEF TimedInv, CallTimed, Suspended
  <2> QED
    BY <2>1, <2>3 DEF TimedInv, OneGrace
<1> QED
  BY <1>2, <1>3

LEMMA TimedHangUp ==
    ASSUME Inv, TrackInv, TimedInv, NEW c \in Calls, HangUp(c), UNCHANGED <<active, frame>>
    PROVE  TimedInv'
<1>1. CASE client = c /\ dialog[c] \in Live
  BY <1>1, TimedEnds DEF HangUp, TrackInv, ManagerTracksDialog
<1>2. CASE ~(client = c /\ dialog[c] \in Live)
  BY <1>2, TimedKept DEF HangUp
<1> QED
  BY <1>1, <1>2

\* No dialog is up and no timer runs: the tracked call, if any, is in its grace
\* or waited for.
LEMMA TimedQuiet ==
    ASSUME \A c \in Calls : dialog'[c] \notin Live, maxTask' = None,
           \/ grace' = NoGrace
           \/ active # None /\ grace' = GraceFor(active)
           \/ OneGrace /\ grace' = grace,
           active' # None => \E t \in Tasks : Suspended(t)' /\ frame'[t].call = active',
           active' \in {active, None}
    PROVE  TimedInv'
<1>1. CallTimed'
  BY RefFacts DEF CallTimed
<1>2. OneGrace'
  BY RefFacts DEF OneGrace, NoGrace, GraceFor
<1> QED
  BY <1>1, <1>2 DEF TimedInv

\* What a task of the manager does when it aborts, stops or resumes.
LEMMA TimedAborts ==
    ASSUME Inv, TrackInv, TimedInv, NEW t \in Tasks,
           \/ AbortCancelsSpawn(t) \/ AbortStopsBridge(t) \/ AbortNow \/ ThenStopsBridge(t) \/ AbortEnd(t)
           \/ StopCancelsSpawn(t) \/ StopStopsBridge(t) \/ StopNow(t) \/ StopEnd(t)
    PROVE  TimedInv'
<1>1. frame \in [Tasks -> [pc : {"idle", "spawn", "bridge"}, call : Ref, task : Ref]]
  BY TrackTypes
<1>2. CASE AbortCancelsSpawn(t) \/ AbortStopsBridge(t) \/ AbortNow
  <2>1. /\ active # None /\ DropActive
        /\ active' = None \/ (active' = active /\ frame'[t].pc # "idle" /\ frame'[t].call = active)
    BY <1>1, <1>2 DEF AbortCancelsSpawn, AbortStopsBridge, AbortNow, CancelSpawn, AwaitStop
  <2>2. /\ \A c \in Calls : dialog'[c] \notin Live
        /\ maxTask' = None
        /\ grace' \in {GraceFor(active), NoGrace}
    BY <2>1, DropActiveEnds DEF DropActive
  <2> QED
    BY <2>1, <2>2, TimedQuiet DEF Suspended
<1>3. CASE ThenStopsBridge(t) \/ StopCancelsSpawn(t) \/ StopStopsBridge(t)
  <2>1. /\ UNCHANGED <<active, dialog, maxTask, grace>>
        /\ \E p \in {"spawn", "bridge"} : \E c, s :
             /\ frame' = [frame EXCEPT ![t] = [pc |-> p, call |-> c, task |-> s]]
             /\ Suspended(t) => c = frame[t].call
    <3>1. CASE ThenStopsBridge(t)
      BY <3>1 DEF ThenStopsBridge, AwaitStop, timers
    <3>2. CASE StopCancelsSpawn(t) \/ StopStopsBridge(t)
      BY <3>2 DEF StopCancelsSpawn, StopStopsBridge, AwaitStop, CancelSpawn, timers, Suspended, Idle
    <3> QED
      BY <1>3, <3>1, <3>2
  <2> QED
    BY <1>1, <2>1, TimedKept DEF Suspended
<1>4. CASE AbortEnd(t)
  <2>1. active' = None /\ UNCHANGED <<dialog, maxTask, grace>>
    BY <1>4 DEF AbortEnd, timers
  <2> QED
    BY <2>1, RefFacts DEF TimedInv, CallTimed, OneGrace
<1>5. CASE StopNow(t) \/ StopEnd(t)
  <2>1. Cleared
    BY <1>5 DEF StopNow, StopEnd
  <2>2. \A c \in Calls : dialog'[c] \notin Live
    BY <2>1 DEF Cleared, TransportClosed, TrackInv, ManagerTracksDialog, Live
  <2> QED
    BY <2>1, <2>2, TimedQuiet DEF Cleared
<1> QED
  BY <1>2, <1>3, <1>4, <1>5

\* A call is placed with its timer, when nothing else is up.
LEMMA TimedUsers ==
    ASSUME Inv, TrackInv, TimedInv, NEW u \in Users, User(u) \/ UserResumes(u)
    PROVE  TimedInv'
<1>1. CASE Tap(u) \/ TapRefused(u) \/ Answered(u) \/ WaitEnds(u)
  BY <1>1, TimedKept DEF Tap, TapRefused, Answered, WaitEnds, cmVars, timers
<1>2. CASE TapStarts(u) \/ StartFails(u)
  <2>1. PICK c \in Ref : /\ dialog' = [dialog EXCEPT ![c] = "connecting"] \/ dialog' = [dialog EXCEPT ![c] = "idle"]
                         /\ c \in Calls => dialog[c] \notin Live
                         /\ active = None
                         /\ UNCHANGED <<active, maxTask, grace>>
    <3>1. CASE TapStarts(u)
      <4>1. pending \in Ref /\ active = None
        BY <3>1, TrackTypes DEF TapStarts, StartConnect, CanStart
      <4> QED
        BY <3>1, <4>1, RefFacts DEF TapStarts, StartConnect, timers, TrackInv, ManagerTracksDialog
    <3>2. CASE StartFails(u)
      <4>1. user[u].ring \in Calls /\ dialog[user[u].ring] = "connecting"
        BY <3>2, TrackTypes DEF StartFails, ConnectFail, ConnectRaises
      <4> QED
        BY <3>2, <4>1, RefFacts
           DEF StartFails, ConnectFail, ConnectRaises, timers, TrackInv, ConnectsAlone, Live
    <3> QED
      BY <1>2, <3>1, <3>2
  <2>2. \A d \in Calls : dialog'[d] \in Live <=> dialog[d] \in Live
    BY <2>1, TrackTypes DEF Live
  <2> QED
    BY <2>1, <2>2 DEF TimedInv, CallTimed, OneGrace
<1>3. CASE StartReturns(u)
  <2> DEFINE r == user[u].ring
  <2>1. r \in Calls /\ dialog[r] = "connecting"
    BY <1>3, TrackTypes DEF StartReturns, ConnectOk
  <2>2. /\ dialog' = [dialog EXCEPT ![r] = "inviting"] /\ active' = r /\ maxTask' = r
        /\ UNCHANGED grace
    BY <1>3 DEF StartReturns, ConnectOk, ArmMax
  <2>3. active = None /\ grace[r] = "off"
    BY <2>1 DEF TrackInv, ConnectsAlone, GraceIsOver
  <2>4. \A c \in Calls : dialog[c] \notin Live
    BY <2>3, RefFacts DEF TrackInv, ManagerTracksDialog
  <2>5. dialog'[r] \in Live /\ \A c \in Calls : c # r => dialog'[c] \notin Live
    BY <2>1, <2>2, <2>4, TrackTypes DEF Live
  <2> QED
    BY <2>1, <2>2, <2>3, <2>5 DEF TimedInv, CallTimed, OneGrace
<1> QED
  BY <1>1, <1>2, <1>3 DEF User, UserResumes

\* The grace that ends is that of the tracked call, which it lets go, or no
\* tracked call is in its grace.
LEMMA TimedCallbacks ==
    ASSUME Inv, TrackInv, TimedInv, NEW c \in Calls, Peer(c) \/ Publish(c) \/ GraceOver(c) \/ Internal(c)
    PROVE  TimedInv'
<1>1. CASE Terminated(c)
  BY <1>1, TimedEnds DEF Terminated, TrackInv, ManagerTracksDialog
<1>2. CASE Established(c)
  <2>1. /\ dialog[c] = "inviting" /\ dialog' = [dialog EXCEPT ![c] = "confirmed"]
        /\ UNCHANGED <<active, maxTask, grace, frame>>
    BY <1>2 DEF Established, timers
  <2>2. \A d \in Calls : dialog'[d] \in Live <=> dialog[d] \in Live
    BY <2>1, TrackTypes DEF Live
  <2>3. active # None => active \in Calls
    BY TrackTypes DEF Ref
  <2> QED
    BY <2>1, <2>2, <2>3 DEF TimedInv, CallTimed, OneGrace, Suspended
<1>3. CASE GraceExpired(c)
  <2>1. /\ active' = None /\ UNCHANGED <<dialog, maxTask>>
        /\ grace' = NoGrace \/ (grace[c] = "sleeping" /\ grace' = [grace EXCEPT ![c] = "stopping"])
    BY <1>3 DEF GraceExpired
  <2>2. OneGrace'
    BY <2>1, TrackTypes, RefFacts DEF TimedInv, OneGrace, NoGrace
  <2> QED
    BY <2>1, <2>2 DEF TimedInv, CallTimed
<1>4. CASE GraceSuperseded(c) \/ GraceEnd(c)
  <2>1. /\ grace[c] # "off" /\ active # c /\ grace' = NoGrace
        /\ UNCHANGED <<active, dialog, maxTask, frame>>
    BY <1>4 DEF GraceSuperseded, GraceEnd, TimedInv, OneGrace
  <2>2. active # None => grace[active] = "off"
    BY <2>1, TrackTypes DEF TimedInv, OneGrace, Ref
  <2> QED
    BY <2>1, <2>2 DEF TimedInv, CallTimed, OneGrace, NoGrace, Suspended
<1>5. CASE MaxExpired(c)
  <2>1. dialog[c] \in Live /\ active = c /\ client = c
    BY <1>5 DEF MaxExpired, TimedInv, CallTimed, TrackInv, ManagerTracksDialog
  <2> QED
    BY <1>5, <2>1, TimedHangUp DEF MaxExpired
<1>6. CASE SpawnWithoutSocket(c) \/ SpawnFail(c)
  BY <1>6, TimedHangUp DEF SpawnWithoutSocket, SpawnFail
<1>7. CASE \/ PrewarmReaped \/ SpawnStart(c) \/ SpawnFfmpeg(c) \/ SpawnInvalidated(c)
           \/ SpawnSuperseded(c) \/ SpawnUnwind(c) \/ SpawnPublish(c)
  <2>1. UNCHANGED <<active, dialog, maxTask, grace, frame>>
    BY <1>7 DEF PrewarmReaped, SpawnStart, SpawnFfmpeg, SpawnInvalidated, SpawnSuperseded, SpawnUnwind,
                SpawnPublish, timers
  <2> QED
    BY <2>1, TimedKept
<1> QED
  BY <1>1, <1>2, <1>3, <1>4, <1>5, <1>6, <1>7 DEF Peer, Publish, GraceOver, Internal

LEMMA TimedStep == Inv /\ TrackInv /\ TimedInv /\ [Next]_vars => TimedInv'
<1> SUFFICES ASSUME Inv, TrackInv, TimedInv, [Next]_vars PROVE TimedInv'
  OBVIOUS
<1>1. CASE UNCHANGED cmVars
  BY <1>1, TimedKept DEF cmVars, timers
<1>2. CASE \E r \in Calls : Handlers(r)
  BY <1>1, <1>2, TimedAborts, TaskFacts DEF Handlers, Push, PushAborts, Cancel, CancelIgnored, CancelAborts
<1>3. CASE Unload \/ Resume
  BY <1>3, TimedAborts, TaskFacts
     DEF Unload, Resume, UnloadResumes, PushResumes, CancelResumes, HandlerStopsBridge
<1>4. CASE \E u \in Users : User(u) \/ UserResumes(u)
  BY <1>4, TimedUsers
<1>5. CASE \E c \in Calls : Peer(c) \/ Publish(c) \/ GraceOver(c) \/ Internal(c)
  BY <1>5, TimedCallbacks
<1> QED
  BY <1>1, <1>2, <1>3, <1>4, <1>5 DEF Next, vars

\* In a calm system the manager is never busy with a call that no timer and no
\* abort will end, however often the server keeps its BYE to itself.
THEOREM CalmCallTimed == ASSUME Calm PROVE Spec => []CallTimed
<1>1. Init => TimedInv
  BY RefFacts DEF Init, CMInit, TimedInv, CallTimed, OneGrace, Live
<1>2. TimedInv => CallTimed
  BY DEF TimedInv
<1> QED
  BY <1>1, <1>2, TimedStep, CalmInvariant, PTL DEF Spec
-----------------------------------------------------------------------------
(***************************************************************************)
(* Every call keeps to Dialog, whatever races.  A step either leaves the   *)
(* stage of a call, or moves it as Dialog allows; only a tap dials, and it *)
(* dials a ring that is not marked, whose dialog is idle: a dialog that    *)
(* has begun belongs to a marked ring (MarkedInv).                         *)
(***************************************************************************)
MarkedInv == \A c \in Calls : dialog[c] # "idle" => c \in started

\* A dialog that is up or closing stays, is answered, closed or over.
Moves(c) ==
    \/ dialog'[c] = dialog[c]
    \/ dialog[c] \in Live \union {"closing"} /\ dialog'[c] = "over"
    \/ dialog[c] \in Live /\ dialog'[c] = "closing"
    \/ dialog[c] = "inviting" /\ dialog'[c] = "confirmed"

\* A user's task dials, or its connect ends.
Dials(c) ==
    \/ dialog[c] = "idle" /\ dialog'[c] = "connecting"
    \/ dialog[c] = "connecting" /\ dialog'[c] \in {"idle", "inviting"}

\* The pieces of the manager that end or close dialogs.
LEMMA EndsMove ==
    ASSUME CMTypeOK, NEW c \in Calls
    PROVE  /\ DropActive => Moves(c)
           /\ dialog' = TransportClosed => Moves(c)
           /\ \A d \in Calls : HangUp(d) => Moves(c)
<1>1. ASSUME dialog' = TransportClosed PROVE Moves(c)
  BY <1>1 DEF TransportClosed, Moves, CMTypeOK
<1>2. ASSUME DropActive PROVE Moves(c)
  <2>1. CASE HangsUp
    BY <1>2, <2>1 DEF DropActive, HangsUp, Moves, CMTypeOK
  <2>2. CASE ~HangsUp
    BY <1>1, <1>2, <2>2 DEF DropActive
  <2> QED
    BY <2>1, <2>2
<1>3. ASSUME NEW d \in Calls, HangUp(d) PROVE Moves(c)
  BY <1>3 DEF HangUp, Moves, CMTypeOK
<1> QED
  BY <1>1, <1>2, <1>3

\* No step but those of the users dials.
LEMMA OthersMove ==
    ASSUME TypeOK, Next, ~(\E u \in Users : User(u) \/ UserResumes(u)), NEW c \in Calls
    PROVE  Moves(c)
<1>m. CMTypeOK
  BY DEF TypeOK
<1>u. UNCHANGED dialog => Moves(c)
  BY DEF Moves
<1>a. (\E t \in Tasks : AbortCancelsSpawn(t) \/ AbortStopsBridge(t)) \/ AbortNow => Moves(c)
  BY <1>m, EndsMove DEF AbortCancelsSpawn, AbortStopsBridge, AbortNow
<1>1. CASE \E r \in Calls : Handlers(r)
  <2>1. PICK r \in Calls : Handlers(r)
    BY <1>1
  <2>2. <<"push", r>> \in Tasks /\ <<"cancel", r>> \in Tasks
    BY TaskFacts
  <2>3. CASE Push(r) \/ Cancel(r) \/ CancelIgnored(r)
    BY <2>3, <1>u, <1>a DEF Push, Cancel, CancelIgnored, cmVars
  <2>4. CASE PushAborts(r) \/ CancelAborts(r)
    BY <2>2, <2>4, <1>a DEF PushAborts, CancelAborts
  <2> QED
    BY <2>1, <2>3, <2>4 DEF Handlers
<1>2. CASE Unload \/ UnloadResumes
  BY <1>2, <1>m, <1>u, EndsMove
     DEF Unload, UnloadResumes, StopCancelsSpawn, StopStopsBridge, StopNow, StopEnd, Cleared
<1>3. CASE \E r \in Calls : PushResumes(r) \/ CancelResumes(r)
  BY <1>3, <1>u DEF PushResumes, CancelResumes, AbortEnd
<1>4. CASE \E t \in Tasks : HandlerStopsBridge(t)
  BY <1>4, <1>u DEF HandlerStopsBridge, ThenStopsBridge
<1>5. CASE \E d \in Calls : Peer(d)
  <2>1. PICK d \in Calls : Terminated(d) \/ Established(d)
    BY <1>5 DEF Peer
  <2> QED
    BY <2>1, <1>m DEF Terminated, Established, Moves, CMTypeOK
<1>6. CASE \E d \in Calls : Publish(d) \/ GraceOver(d)
  BY <1>6, <1>u DEF Publish, GraceOver, SpawnPublish, GraceExpired, GraceEnd
<1>7. CASE \E d \in Calls : Internal(d)
  <2>1. PICK d \in Calls : Internal(d)
    BY <1>7
  <2>2. CASE MaxExpired(d) \/ SpawnWithoutSocket(d) \/ SpawnFail(d)
    BY <2>2, <1>m, <1>u, EndsMove DEF MaxExpired, SpawnWithoutSocket, SpawnFail
  <2>3. CASE UNCHANGED dialog
    BY <2>3, <1>u
  <2> QED
    BY <2>1, <2>2, <2>3 DEF Internal, GraceSuperseded, GraceExpired, PrewarmReaped, SpawnStart,
       SpawnFfmpeg, SpawnInvalidated, SpawnSuperseded, SpawnUnwind
<1> QED
  BY <1>1, <1>2, <1>3, <1>4, <1>5, <1>6, <1>7 DEF Next, Resume

\* A user's task dials an idle dialog, which it marks.
LEMMA UsersDial ==
    ASSUME Inv, MarkedInv, NEW u \in Users, User(u) \/ UserResumes(u), NEW c \in Calls
    PROVE  /\ dialog'[c] = dialog[c] \/ Dials(c)
           /\ dialog'[c] # "idle" => c \in started'
<1>m. CMTypeOK
  BY DEF Inv, TypeOK
<1>1. CASE UNCHANGED <<dialog, started>>
  BY <1>1 DEF MarkedInv
<1>2. CASE TapStarts(u)
  <2>1. pending \in Calls /\ pending \notin started
    BY <1>2, RefFacts DEF TapStarts, ToStart, Inv, TypeOK, Ref
  <2>2. dialog[pending] = "idle"
    BY <2>1 DEF MarkedInv
  <2>3. dialog' = [dialog EXCEPT ![pending] = "connecting"] /\ started' = started \union {pending}
    BY <1>2 DEF TapStarts, StartConnect, Marked
  <2> QED
    BY <1>m, <2>1, <2>2, <2>3 DEF Dials, MarkedInv, CMTypeOK
<1>3. CASE StartFails(u)
  <2> DEFINE r == user[u].ring
  <2>1. dialog[r] = "connecting" /\ dialog' = [dialog EXCEPT ![r] = "idle"] /\ started' = started \ {r}
    BY <1>3 DEF StartFails, ConnectFail, ConnectRaises
  <2> QED
    BY <1>m, <2>1 DEF Dials, MarkedInv, CMTypeOK
<1>4. CASE StartReturns(u)
  <2> DEFINE r == user[u].ring
  <2>1. dialog[r] = "connecting" /\ dialog' = [dialog EXCEPT ![r] = "inviting"] /\ started' = started
    BY <1>4 DEF StartReturns, ConnectOk
  <2>2. r \in started
    BY <1>4 DEF StartReturns, Inv, DialInv
  <2> QED
    BY <1>m, <2>1, <2>2 DEF Dials, MarkedInv, CMTypeOK
<1> QED
  BY <1>1, <1>2, <1>3, <1>4
     DEF User, UserResumes, Tap, TapRefused, Answered, WaitEnds, cmVars, invite

\* A dialog that has begun belongs to a ring that is marked.
LEMMA MarkedStep == Inv /\ MarkedInv /\ [Next]_vars => MarkedInv'
<1> SUFFICES ASSUME Inv, MarkedInv, [Next]_vars, NEW c \in Calls
             PROVE  dialog'[c] # "idle" => c \in started'
  BY DEF MarkedInv
<1>1. CASE \E u \in Users : User(u) \/ UserResumes(u)
  BY <1>1, UsersDial
<1>2. CASE Next /\ ~(\E u \in Users : User(u) \/ UserResumes(u))
  BY <1>2, OthersMove, OthersLeaveUsers DEF Inv, MarkedInv, Moves, Live
<1>3. CASE UNCHANGED vars
  BY <1>3 DEF MarkedInv, vars, cmVars, invite
<1> QED
  BY <1>1, <1>2, <1>3

\* What a step does to the dialog of a call, Dialog allows.
LEMMA StepKeepsPromise ==
    ASSUME Inv, MarkedInv, [Next]_vars, NEW c \in Calls
    PROVE  [Promise(c)!Next]_(Promise(c)!vars)
<1>1. Moves(c) \/ Dials(c)
  <2>1. CASE \E u \in Users : User(u) \/ UserResumes(u)
    BY <2>1, UsersDial DEF Moves
  <2>2. CASE Next /\ ~(\E u \in Users : User(u) \/ UserResumes(u))
    BY <2>2, OthersMove DEF Inv
  <2>3. CASE UNCHANGED vars
    BY <2>3 DEF Moves, vars, cmVars
  <2> QED
    BY <2>1, <2>2, <2>3
<1> QED
  BY <1>1 DEF Moves, Dials, Live, StageOf, EndedOf, Promise!Next, Promise!vars, Promise!Place,
              Promise!Establish, Promise!Close, Promise!End, Promise!Open

\* In every window of interleaving, each call of the manager is one that
\* SipClient implements: placed once, answered once, ended once.
THEOREM CallsAlwaysKeepPromise == Spec => CallsKeepPromise
<1>1. Init => MarkedInv /\ \A c \in Calls : Promise(c)!Init
  BY DEF Init, CMInit, MarkedInv, StageOf, EndedOf, Promise!Init
<1>2. Inv /\ MarkedInv /\ [Next]_vars => \A c \in Calls : [Promise(c)!Next]_(Promise(c)!vars)
  BY StepKeepsPromise
<1> QED
  BY <1>1, <1>2, InvInit, InvStep, MarkedStep, PTL DEF Spec, CallsKeepPromise

\* In a calm system the invite on display is never refused: a tracked call was
\* marked as started, and nothing else is then to be dialled.
LEMMA NeverRefused ==
    ASSUME Inv, TrackInv, NEW u \in Users
    PROVE  ~TapRefused(u)
<1> SUFFICES ASSUME TapRefused(u) PROVE FALSE
  OBVIOUS
<1>1. unloads = 0 /\ pending \notin Placed /\ ~CanStart
  BY DEF TapRefused, Taps, Loaded, ToStart, Placed
<1>2. manager = "started" /\ active = None
  BY <1>1, TrackTypes DEF TrackInv, NothingToDial, StoppedEmpty
<1> QED
  BY <1>1, <1>2 DEF CanStart

\* In a calm system the guard of start_call never refuses the ring on display:
\* the push that showed it has ended the call before it.
THEOREM CalmRingNotBlocked == ASSUME Calm PROVE Spec => RingNotBlocked
<1>1. Inv /\ TrackInv /\ [Next]_vars => [\A u \in Users : ~TapRefused(u)]_vars
  BY NeverRefused
<1> QED
  BY <1>1, CalmInvariant, PTL DEF Spec, RingNotBlocked
-----------------------------------------------------------------------------
(***************************************************************************)
(* In a calm system what is dialled, tracked or pending is what is shown:  *)
(* a push ends the tracked call before it shows its ring, and nothing      *)
(* connects or waits meanwhile.  So a door code goes to its own call.      *)
(***************************************************************************)
ShownInv ==
    /\ pending \in {None, data}
    /\ active # None => data = active
    /\ \A c \in Calls : dialog[c] = "connecting" => data = c
    /\ DoorCodeMatchesCall

\* Steps that show, dial and open nothing.
LEMMA ShownKept ==
    ASSUME ShownInv, UNCHANGED <<data, opened>>,
           pending' \in {pending, None}, active' \in {active, None},
           \A c \in Calls : dialog'[c] = "connecting" => dialog[c] = "connecting"
    PROVE  ShownInv'
BY DEF ShownInv, DoorCodeMatchesCall

\* A new ring is shown when nothing connects and nothing is tracked.
LEMMA ShownInstalled ==
    ASSUME ShownInv, NEW r, NEW e, Install(r, e), active' = None,
           \A c \in Calls : dialog'[c] # "connecting"
    PROVE  ShownInv'
BY DEF ShownInv, DoorCodeMatchesCall, Install

\* The camera and the lock dial what is shown, and send the code of the ring
\* that is shown in the call that is tracked.
LEMMA UsersShow ==
    ASSUME Inv, TrackInv, ShownInv, NEW u \in Users, User(u) \/ UserResumes(u)
    PROVE  ShownInv'
<1>1. Await(u) \/ Finish(u) => opened' = opened \/ (opened' = opened \union {<<data, active>>} /\ InDialog)
  BY DEF Await, Finish, history
<1>2. InDialog => data = active
  BY DEF InDialog, ShownInv
<1>3. Await(u) \/ Finish(u) => DoorCodeMatchesCall'
  BY <1>1, <1>2 DEF ShownInv, DoorCodeMatchesCall
<1>4. CASE Tap(u) \/ TapRefused(u) \/ Answered(u) \/ WaitEnds(u)
  <2>1. UNCHANGED <<data, pending, active, dialog>> /\ (Await(u) \/ Finish(u))
    BY <1>4 DEF Tap, TapRefused, Answered, WaitEnds, cmVars, invite, view
  <2> QED
    BY <1>3, <2>1 DEF ShownInv
<1>5. CASE TapStarts(u)
  <2>1. pending # None /\ UNCHANGED <<data, pending, active, opened>>
    BY <1>5 DEF TapStarts, ToStart, StartConnect, view, history
  <2>2. dialog' = [dialog EXCEPT ![pending] = "connecting"]
    BY <1>5 DEF TapStarts, StartConnect
  <2> QED
    BY <2>1, <2>2, TrackTypes DEF ShownInv, DoorCodeMatchesCall
<1>6. CASE StartFails(u)
  <2>1. UNCHANGED <<data, pending, active>> /\ (Await(u) \/ Finish(u))
    BY <1>6 DEF StartFails, ConnectFail, ConnectRaises, view
  <2>2. dialog' = [dialog EXCEPT ![user[u].ring] = "idle"]
    BY <1>6 DEF StartFails, ConnectFail, ConnectRaises
  <2> QED
    BY <1>3, <2>1, <2>2, TrackTypes DEF ShownInv
<1>7. CASE StartReturns(u)
  <2> DEFINE r == user[u].ring
  <2>1. r \in Calls /\ dialog[r] = "connecting"
    BY <1>7, TrackTypes DEF StartReturns, ConnectOk
  <2>2. /\ active' = r /\ dialog' = [dialog EXCEPT ![r] = "inviting"]
        /\ UNCHANGED <<data, pending, opened>>
    BY <1>7 DEF StartReturns, ConnectOk, view, history
  <2> QED
    BY <2>1, <2>2, TrackTypes DEF ShownInv, DoorCodeMatchesCall
<1> QED
  BY <1>4, <1>5, <1>6, <1>7 DEF User, UserResumes

\* Every step of a calm system keeps ShownInv.
LEMMA ShownStep == Calm /\ Inv /\ TrackInv /\ ShownInv /\ [Next]_vars => ShownInv'
<1> SUFFICES ASSUME Calm, Inv, TrackInv, ShownInv, [Next]_vars PROVE ShownInv'
  OBVIOUS
<1>1. CASE \E u \in Users : User(u) \/ UserResumes(u)
  BY <1>1, UsersShow
<1>2. CASE UNCHANGED vars
  BY <1>2, ShownKept DEF vars, cmVars, invite, view, history
<1>3. CASE Next /\ ~(\E u \in Users : User(u) \/ UserResumes(u))
  <2>0. \A c \in Calls : dialog'[c] = "connecting" => dialog[c] = "connecting"
    BY <1>3, OthersMove DEF Moves, Inv
  <2>1. CASE \E r \in Calls : Push(r) \/ PushResumes(r)
    <3>1. PICK r \in Calls : Push(r) \/ PushResumes(r)
      BY <2>1
    <3>2. \A c \in Calls : dialog[c] # "connecting"
      <4>1. CASE Push(r)
        BY <4>1, CalmWindow DEF Push, Arrives
      <4>2. CASE PushResumes(r)
        BY <4>2, TaskFacts DEF PushResumes, AbortEnd, Resumes, AwaitedSpawn, Suspended,
                              TrackInv, ConnectsAlone
      <4> QED
        BY <3>1, <4>1, <4>2
    <3>3. active' = None
      BY <3>1 DEF Push, PushResumes, AbortEnd, AbortNow, Tracking, cmVars
    <3>4. \E e : Install(r, e)
      BY <3>1 DEF Push, PushResumes
    <3> QED
      BY <2>0, <3>2, <3>3, <3>4, ShownInstalled
  <2>2. CASE \E r \in Calls : Cancel(r) \/ CancelResumes(r)
    <3>1. UNCHANGED <<data, opened>> /\ pending' = None /\ active' \in {active, None}
      BY <2>2 DEF Cancel, CancelArrives, CancelResumes, DropPending, AbortNow, AbortEnd, cmVars
    <3> QED
      BY <2>0, <3>1, ShownKept
  <2>3. CASE \E r \in Calls : PushAborts(r) \/ CancelAborts(r) \/ CancelIgnored(r)
    <3>1. UNCHANGED <<data, opened, pending, active>>
      BY <2>3 DEF PushAborts, CancelAborts, CancelIgnored, CancelArrives, AbortCancelsSpawn,
                  AbortStopsBridge, cmVars, invite, view, history
    <3> QED
      BY <2>0, <3>1, ShownKept
  <2>4. CASE Unload \/ UnloadResumes \/ \E t \in Tasks : HandlerStopsBridge(t)
    <3>1. UNCHANGED <<data, opened, pending>> /\ active' \in {active, None}
      BY <2>4 DEF Unload, UnloadResumes, HandlerStopsBridge, ThenStopsBridge, StopCancelsSpawn,
                  StopStopsBridge, StopNow, StopEnd, Cleared, invite, view, history
    <3> QED
      BY <2>0, <3>1, ShownKept
  <2>5. CASE \E c \in Calls : Peer(c) \/ Internal(c)
    <3>1. UNCHANGED <<data, opened, pending>> /\ active' \in {active, None}
      BY <2>5 DEF Peer, Internal, Terminated, Established, MaxExpired, GraceSuperseded,
                  GraceExpired, PrewarmReaped, SpawnStart, SpawnWithoutSocket, SpawnFfmpeg, SpawnFail,
                  SpawnInvalidated, SpawnSuperseded, SpawnUnwind, invite, view, history
    <3> QED
      BY <2>0, <3>1, ShownKept
  <2>6. CASE \E c \in Calls : Publish(c) \/ GraceOver(c)
    <3>1. UNCHANGED <<data, opened>> /\ pending' \in {pending, None} /\ active' \in {active, None}
      BY <2>6 DEF Publish, SpawnPublish, OnCallActive, GraceOver, GraceExpired, GraceEnd,
                  OnCallEnded, history
    <3> QED
      BY <2>0, <3>1, ShownKept
  <2> QED
    BY <1>3, <2>1, <2>2, <2>3, <2>4, <2>5, <2>6 DEF Next, Handlers, Resume
<1> QED
  BY <1>1, <1>2, <1>3

\* What is shown holds in every reachable state of a calm system.
LEMMA ShownInvariant == ASSUME Calm PROVE Spec => []ShownInv
<1>1. Init => ShownInv
  BY DEF Init, CMInit, ShownInv, DoorCodeMatchesCall
<1>2. Inv /\ TrackInv /\ ShownInv /\ [Next]_vars => ShownInv'
  BY ShownStep
<1> QED
  BY <1>1, <1>2, CalmInvariant, PTL DEF Spec

\* In a calm system a door code is sent only in the call of the ring it came
\* with: async_open_door reads the ring after its waits, and still finds that
\* of the call the manager tracks.
THEOREM CalmDoorCode == ASSUME Calm PROVE Spec => []DoorCodeMatchesCall
<1>1. ShownInv => DoorCodeMatchesCall
  BY DEF ShownInv
<1> QED
  BY <1>1, ShownInvariant, PTL
-----------------------------------------------------------------------------
(***************************************************************************)
(* Sockets.  What is bound belongs to the call that connects or to the one *)
(* that is tracked and up; a bridge start that has not begun belongs to    *)
(* the tracked call, or is left over by an unload.  So a start takes the   *)
(* sockets of its own call.                                                *)
(***************************************************************************)
SocketsHeld ==
    sockets # None =>
        \/ dialog[sockets] = "connecting"
        \/ active = sockets /\ dialog[sockets] \in Live

ScheduledTracked ==
    \A c \in Calls : spawn[c] = "scheduled" =>
        \/ active = c /\ spawnTask = c
        \/ active = None /\ unloads > 0

WaitersClear ==
    \A t \in Tasks : Suspended(t) /\ t # Unloading =>
        unloads > 0 \/ \A c \in Calls : spawn[c] # "scheduled"

SocketInv == SocketsHeld /\ ScheduledTracked /\ WaitersClear /\ BridgeUsesOfferedPort

\* What a bridge start and its sockets are.
LEMMA SpawnShape ==
    ASSUME Inv
    PROVE  /\ spawn \in [Calls -> {"none", "cancelled", "scheduled", "adopting", "spawning", "waiting"}]
           /\ sockOf \in [Calls -> Ref] /\ sockets \in Ref /\ spawnTask \in Ref
           /\ sockets # None => sockets \in Calls
           /\ spawnTask # None => spawnTask \in Calls
<1>1. /\ spawn \in [Calls -> {"none", "cancelled"} \union InFlight]
      /\ sockOf \in [Calls -> Ref] /\ sockets \in Ref /\ spawnTask \in Ref
  BY DEF Inv, TypeOK, CMTypeOK
<1>2. {"none", "cancelled"} \union InFlight
        = {"none", "cancelled", "scheduled", "adopting", "spawning", "waiting"}
  BY DEF InFlight, Started
<1> QED
  BY <1>1, <1>2 DEF Ref

\* Steps that bind no socket, schedule no start, end no call that is tracked
\* with sockets, and suspend nobody.
LEMMA SocketsKept ==
    ASSUME Inv, SocketInv, sockets' \in {sockets, None}, unloads' \in Nat, unloads' >= unloads,
           active' = active \/ (active' = None /\ sockets' = None),
           spawnTask' = spawnTask \/ \A c \in Calls : active = c => spawn'[c] # "scheduled",
           active' # active =>
             unloads' > 0 \/ \A c \in Calls : spawn'[c] # "scheduled",
           \A c \in Calls : spawn'[c] = "scheduled" => spawn[c] = "scheduled",
           \A c \in Calls : sockets' = c /\ dialog[c] = "connecting" => dialog'[c] = "connecting",
           \A c \in Calls : sockets' = c /\ active = c /\ dialog[c] \in Live => dialog'[c] \in Live,
           \A c \in Calls : sockOf'[c] \in {sockOf[c], None, c},
           \A t \in Tasks : Suspended(t)' /\ t # Unloading =>
             Suspended(t) \/ unloads' > 0 \/ \A c \in Calls : spawn'[c] # "scheduled"
    PROVE  SocketInv'
<1>0. unloads \in Nat
  BY TrackTypes
<1>1. SocketsHeld'
  <2> SUFFICES ASSUME sockets' # None
               PROVE  dialog'[sockets] = "connecting" \/ (active' = sockets /\ dialog'[sockets] \in Live)
    BY DEF SocketsHeld
  <2>1. sockets' = sockets /\ sockets \in Calls /\ active' = active
    BY SpawnShape
  <2>2. dialog[sockets] = "connecting" \/ (active = sockets /\ dialog[sockets] \in Live)
    BY <2>1 DEF SocketInv, SocketsHeld
  <2> QED
    BY <2>1, <2>2
<1>2. ScheduledTracked'
  BY <1>0, SpawnShape DEF SocketInv, ScheduledTracked
<1>3. WaitersClear'
  BY <1>0 DEF SocketInv, WaitersClear, Unloading
<1>4. BridgeUsesOfferedPort'
  BY DEF SocketInv, BridgeUsesOfferedPort
<1> QED
  BY <1>1, <1>2, <1>3, <1>4 DEF SocketInv

\* The camera and the lock: a connect binds the sockets of its call.
LEMMA UsersSocket ==
    ASSUME Inv, TrackInv, SocketInv, NEW u \in Users, User(u) \/ UserResumes(u)
    PROVE  SocketInv'
<1>0. UNCHANGED <<spawn, spawnTask, sockOf, frame, unloads>>
  BY DEF User, UserResumes, Tap, TapRefused, TapStarts, StartFails, StartReturns, Answered,
         WaitEnds, Await, Finish, StartConnect, ConnectFail, ConnectRaises, ConnectOk,
         cmVars, timers, bridge
<1>1. BridgeUsesOfferedPort'
  BY <1>0 DEF SocketInv, BridgeUsesOfferedPort
<1>2. WaitersClear'
  BY <1>0 DEF SocketInv, WaitersClear, Suspended, Unloading
<1>3. CASE UNCHANGED <<dialog, active, sockets>>
  BY <1>0, <1>1, <1>2, <1>3 DEF SocketInv, SocketsHeld, ScheduledTracked, Live
<1>4. CASE TapStarts(u)
  <2>1. pending \in Calls /\ UNCHANGED active /\ sockets' = pending
        /\ dialog' = [dialog EXCEPT ![pending] = "connecting"]
    BY <1>4, TrackTypes DEF TapStarts, ToStart, StartConnect, Ref
  <2> QED
    BY <1>0, <1>1, <1>2, <2>1, TrackTypes DEF SocketInv, SocketsHeld, ScheduledTracked
<1>5. CASE StartFails(u)
  <2>1. UNCHANGED active /\ sockets' = None
    BY <1>5 DEF StartFails, ConnectFail, ConnectRaises
  <2> QED
    BY <1>0, <1>1, <1>2, <2>1 DEF SocketInv, SocketsHeld, ScheduledTracked
<1>6. CASE StartReturns(u)
  <2> DEFINE r == user[u].ring
  <2>1. /\ dialog[r] = "connecting" /\ active' = r /\ sockets' = sockets /\ r \in Calls
        /\ dialog' = [dialog EXCEPT ![r] = "inviting"]
    BY <1>6, TrackTypes DEF StartReturns, ConnectOk
  <2>2. active = None /\ unloads = 0 /\ \A c \in Calls : dialog[c] = "connecting" => c = r
    BY <2>1 DEF TrackInv, ConnectsAlone
  <2>3. SocketsHeld'
    BY <2>1, <2>2, TrackTypes, SpawnShape DEF SocketInv, SocketsHeld, Live
  <2>4. ScheduledTracked'
    BY <1>0, <2>2, RefFacts DEF SocketInv, ScheduledTracked
  <2> QED
    BY <1>1, <1>2, <2>3, <2>4 DEF SocketInv
<1> QED
  BY <1>3, <1>4, <1>5, <1>6
     DEF User, UserResumes, Tap, TapRefused, Answered, WaitEnds, cmVars, TapStarts, StartFails, StartReturns

\* The end of a dialog, whoever ends it.
LEMMA EndsSocket ==
    ASSUME Inv, SocketInv, NEW c \in Calls, dialog[c] \notin {"idle", "connecting"},
           dialog' = [dialog EXCEPT ![c] = "over"], DropCall(c),
           UNCHANGED <<active, spawnTask, sockOf, frame, unloads>>,
           \A d \in Calls : spawn'[d] = "scheduled" => spawn[d] = "scheduled"
    PROVE  SocketInv'
<1>1. sockets' \in {sockets, None} /\ (c = active => sockets' = None)
  BY DEF DropCall
<1>2. \A d \in Calls : /\ dialog[d] = "connecting" => dialog'[d] = "connecting"
                       /\ d # c => dialog'[d] = dialog[d]
  BY TrackTypes
<1>3. \A d \in Calls : sockets' = d /\ active = d /\ dialog[d] \in Live => dialog'[d] \in Live
  BY <1>1, <1>2, RefFacts
<1> QED
  BY <1>1, <1>2, <1>3, TrackTypes, SocketsKept DEF Suspended

\* Hanging up, whether or not there is a dialog to end.
LEMMA HangUpSocket ==
    ASSUME Inv, SocketInv, NEW c \in Calls, HangUp(c),
           UNCHANGED <<active, spawnTask, sockOf, frame, unloads>>,
           \A d \in Calls : spawn'[d] = "scheduled" => spawn[d] = "scheduled"
    PROVE  SocketInv'
<1>1. CASE client = c /\ dialog[c] \in Live
  BY <1>1, EndsSocket DEF HangUp, Live
<1>2. CASE ~(client = c /\ dialog[c] \in Live)
  BY <1>2, TrackTypes, SocketsKept DEF HangUp, Suspended
<1> QED
  BY <1>1, <1>2

\* The server and the bridge starts of a call.
LEMMA CallbacksSocket ==
    ASSUME Inv, TrackInv, SocketInv, NEW c \in Calls,
           Peer(c) \/ Publish(c) \/ GraceOver(c) \/ Internal(c)
    PROVE  SocketInv'
<1>0. UNCHANGED <<frame, unloads>>
  BY DEF Peer, Publish, GraceOver, Internal, Terminated, Established, SpawnPublish, OnCallActive,
         OnCallEnded, GraceExpired, GraceEnd, MaxExpired, GraceSuperseded, PrewarmReaped, SpawnStart,
         SpawnWithoutSocket, SpawnFfmpeg, SpawnFail, SpawnInvalidated, SpawnSuperseded, SpawnUnwind,
         bridge
<1>1. CASE Terminated(c)
  BY <1>0, <1>1, EndsSocket DEF Terminated, Live
<1>2. CASE Established(c)
  <2>1. /\ dialog[c] = "inviting" /\ dialog' = [dialog EXCEPT ![c] = "confirmed"]
        /\ UNCHANGED <<active, sockets, sockOf>>
    BY <1>2 DEF Established
  <2>2. SocketsHeld'
    BY <2>1, TrackTypes DEF SocketInv, SocketsHeld, Live
  <2>3. \A t \in Tasks : Suspended(t) => t = Unloading
    BY <2>1 DEF TrackInv, OneWaits, Live
  <2>4. ScheduledTracked'
    <3>1. CASE c = active
      <4>1. spawn' = [spawn EXCEPT ![c] = "scheduled"] /\ spawnTask' = c
        BY <1>2, <3>1 DEF Established
      <4>2. \A d \in Calls : d # c => spawn[d] # "scheduled"
        BY <3>1, RefFacts DEF SocketInv, ScheduledTracked
      <4> QED
        BY <2>1, <3>1, <4>1, <4>2, SpawnShape DEF ScheduledTracked
    <3>2. CASE c # active
      BY <1>0, <1>2, <3>2, <2>1 DEF Established, SocketInv, ScheduledTracked
    <3> QED
      BY <3>1, <3>2
  <2>5. WaitersClear' /\ BridgeUsesOfferedPort'
    BY <1>0, <2>1, <2>3 DEF SocketInv, WaitersClear, BridgeUsesOfferedPort, Suspended, Unloading
  <2> QED
    BY <2>2, <2>4, <2>5 DEF SocketInv
<1>3. CASE GraceExpired(c)
  <2>1. /\ active = c /\ active' = None /\ grace[c] # "off" /\ spawn[c] = "none"
        /\ UNCHANGED <<spawn, spawnTask, sockets, sockOf, dialog>>
    BY <1>3 DEF GraceExpired
  <2>2. sockets = None
    <3>1. dialog[c] \notin Live
      BY <2>1 DEF TrackInv, GraceIsOver
    <3>2. \A d \in Calls : dialog[d] # "connecting"
      BY <2>1, RefFacts DEF TrackInv, ConnectsAlone
    <3> QED
      BY <2>1, <3>1, <3>2, SpawnShape DEF SocketInv, SocketsHeld
  <2>3. \A d \in Calls : spawn[d] # "scheduled"
    BY <2>1, RefFacts DEF SocketInv, ScheduledTracked
  <2> QED
    BY <1>0, <2>1, <2>2, <2>3, TrackTypes, SocketsKept DEF Suspended
<1>4. CASE MaxExpired(c)
  <2>1. HangUp(c) \/ UNCHANGED <<dialog, sockets>>
    BY <1>4 DEF MaxExpired
  <2>2. UNCHANGED <<active, spawnTask, spawn, sockOf>>
    BY <1>4 DEF MaxExpired
  <2> QED
    BY <1>0, <2>1, <2>2, TrackTypes, HangUpSocket, SocketsKept DEF Suspended
<1>5. CASE SpawnStart(c)
  <2>1. /\ spawn[c] = "scheduled" /\ sockets # None /\ sockets' = None
        /\ sockOf' = [sockOf EXCEPT ![c] = sockets]
        /\ spawn' = [spawn EXCEPT ![c] = IF prewarm = "live" THEN "adopting" ELSE "spawning"]
        /\ UNCHANGED <<active, spawnTask, dialog>>
    BY <1>5 DEF SpawnStart
  <2>2. sockets \in Calls
    BY <2>1, SpawnShape
  <2>3. sockets = c
    BY <2>1, <2>2, RefFacts DEF SocketInv, SocketsHeld, ScheduledTracked, TrackInv, ConnectsAlone
  <2>4. \A d \in Calls : spawn'[d] = "scheduled" => spawn[d] = "scheduled"
    BY <2>1, SpawnShape
  <2>5. \A d \in Calls : sockOf'[d] \in {sockOf[d], None, d}
    BY <2>1, <2>3, SpawnShape
  <2> QED
    BY <1>0, <2>1, <2>4, <2>5, RefFacts, TrackTypes, SocketsKept DEF Suspended
<1>6. CASE SpawnWithoutSocket(c) \/ SpawnFail(c)
  <2>1. /\ HangUp(c) /\ spawn' = [spawn EXCEPT ![c] = "none"]
        /\ UNCHANGED <<active, spawnTask, sockOf>>
    BY <1>6 DEF SpawnWithoutSocket, SpawnFail
  <2>2. \A d \in Calls : spawn'[d] = "scheduled" => spawn[d] = "scheduled"
    BY <2>1, SpawnShape
  <2> QED
    BY <1>0, <2>1, <2>2, HangUpSocket
<1>7. CASE \/ SpawnPublish(c) \/ SpawnSuperseded(c) \/ GraceEnd(c) \/ GraceSuperseded(c)
           \/ PrewarmReaped \/ SpawnFfmpeg(c) \/ SpawnInvalidated(c) \/ SpawnUnwind(c)
  <2>1. /\ sockets' \in {sockets, None} /\ UNCHANGED <<active, spawnTask, sockOf, dialog>>
        /\ \/ UNCHANGED spawn
           \/ \E s \in {"none", "waiting"} : spawn' = [spawn EXCEPT ![c] = s]
    BY <1>7 DEF SpawnPublish, SpawnSuperseded, GraceEnd, GraceSuperseded, PrewarmReaped, SpawnFfmpeg,
                SpawnInvalidated, SpawnUnwind, TakeSockets, bridge
  <2>2. \A d \in Calls : spawn'[d] = "scheduled" => spawn[d] = "scheduled"
    BY <2>1, SpawnShape
  <2> QED
    BY <1>0, <2>1, <2>2, TrackTypes, SocketsKept DEF Suspended
<1> QED
  BY <1>1, <1>2, <1>3, <1>4, <1>5, <1>6, <1>7 DEF Peer, Publish, GraceOver, Internal

\* Cancelling the spawn that is tracked leaves none that has not begun, unless
\* an unload left it.
LEMMA CancelledSpawn ==
    ASSUME Inv, SocketInv, NEW t, NEW e, CancelSpawn(t, e)
    PROVE  /\ \A c \in Calls : spawn'[c] = "scheduled" => spawn[c] = "scheduled" /\ c # spawnTask
           /\ \A c \in Calls : active = c => spawn'[c] # "scheduled"
           /\ active # None => \A c \in Calls : spawn'[c] # "scheduled"
           /\ UNCHANGED sockOf
BY SpawnShape, RefFacts DEF CancelSpawn, SocketInv, ScheduledTracked

\* Without a spawn in flight none is scheduled, unless an unload left it.
LEMMA NoSpawnScheduled ==
    ASSUME Inv, SocketInv, ~SpawnInFlight
    PROVE  /\ \A c \in Calls : active = c => spawn[c] # "scheduled"
           /\ active # None => \A c \in Calls : spawn[c] # "scheduled"
BY SpawnShape, RefFacts DEF SpawnInFlight, InFlight, SocketInv, ScheduledTracked

\* An abort closes the sockets and leaves no start that has not begun.
LEMMA AbortSocket ==
    ASSUME Inv, SocketInv, UNCHANGED unloads,
           NEW t \in Tasks, AbortCancelsSpawn(t) \/ AbortStopsBridge(t) \/ AbortNow
    PROVE  SocketInv'
<1>1. /\ sockets' = None /\ active # None /\ active' \in {active, None} /\ UNCHANGED sockOf
  BY DEF AbortCancelsSpawn, AbortStopsBridge, AbortNow, DropActive, CancelSpawn, AwaitStop
<1>2. \A c \in Calls : spawn'[c] # "scheduled"
  <2>1. CASE AbortCancelsSpawn(t)
    BY <1>1, <2>1, CancelledSpawn DEF AbortCancelsSpawn
  <2>2. CASE AbortStopsBridge(t) \/ AbortNow
    BY <1>1, <2>2, NoSpawnScheduled DEF AbortStopsBridge, AbortNow, AwaitStop
  <2> QED
    BY <2>1, <2>2
<1> QED
  BY <1>1, <1>2 DEF SocketInv, SocketsHeld, ScheduledTracked, WaitersClear, BridgeUsesOfferedPort

\* The end of an abort finds no call up.
LEMMA AbortEndSocket ==
    ASSUME Inv, TrackInv, SocketInv, UNCHANGED unloads,
           NEW t \in Tasks, t # Unloading, AbortEnd(t)
    PROVE  SocketInv'
<1>1. /\ Suspended(t) /\ active' = None /\ frame' = [frame EXCEPT ![t] = Idle]
      /\ UNCHANGED <<spawn, sockOf, sockets, spawnTask, dialog>>
  BY DEF AbortEnd, Resumes, AwaitedSpawn, Suspended
<1>2. sockets = None
  <2>1. /\ \A c \in Calls : dialog[c] # "connecting"
        /\ \A c \in Calls : dialog[c] \notin Live
    BY <1>1 DEF TrackInv, OneWaits, ConnectsAlone
  <2> QED
    BY <2>1, SpawnShape DEF SocketInv, SocketsHeld
<1>3. unloads > 0 \/ \A c \in Calls : spawn[c] # "scheduled"
  BY <1>1 DEF SocketInv, WaitersClear
<1>4. \A s \in Tasks : Suspended(s)' => Suspended(s)
  BY <1>1, TrackTypes DEF Suspended, Idle
<1> QED
  BY <1>1, <1>2, <1>3, <1>4, TrackTypes, SocketsKept

\* The unload, and the end of async_stop.
LEMMA UnloadSocket ==
    ASSUME Inv, TrackInv, SocketInv, Unload \/ UnloadResumes
    PROVE  SocketInv'
<1>1. unloads \in Nat /\ unloads' \in Nat /\ unloads' > 0 /\ unloads' >= unloads
  <2>1. UnloadResumes => Suspended(Unloading) /\ UNCHANGED unloads
    BY DEF UnloadResumes, StopEnd, Resumes, AwaitedSpawn, Suspended, Unloading
  <2> QED
    BY <2>1, TrackTypes DEF Unload, TrackInv, OneWaits
<1>2. CASE UnloadResumes \/ (Unload /\ StopNow(Unloading))
  <2>1. /\ sockets' = None /\ active' = None /\ UNCHANGED <<spawn, sockOf>>
    BY <1>2 DEF UnloadResumes, StopEnd, Resumes, StopNow, Cleared
  <2> QED
    BY <1>1, <2>1 DEF SocketInv, SocketsHeld, ScheduledTracked, WaitersClear, BridgeUsesOfferedPort
<1>3. CASE Unload /\ StopCancelsSpawn(Unloading)
  <2>1. /\ CancelSpawn(Unloading, None) /\ UNCHANGED <<active, sockets, dialog>>
    BY <1>3 DEF StopCancelsSpawn
  <2> QED
    BY <1>1, <2>1, CancelledSpawn, SocketsKept
<1>4. CASE Unload /\ StopStopsBridge(Unloading)
  <2>1. /\ ~SpawnInFlight /\ UNCHANGED <<active, sockets, dialog, spawn, sockOf>>
    BY <1>4 DEF StopStopsBridge, AwaitStop
  <2> QED
    BY <1>1, <2>1, NoSpawnScheduled, SocketsKept
<1> QED
  BY <1>2, <1>3, <1>4 DEF Unload, Unloading

\* Every step of a calm system keeps SocketInv.
LEMMA SocketStep == Inv /\ TrackInv /\ SocketInv /\ [Next]_vars => SocketInv'
<1> SUFFICES ASSUME Inv, TrackInv, SocketInv, [Next]_vars PROVE SocketInv'
  OBVIOUS
<1>t. \A r \in Calls : /\ <<"push", r>> \in Tasks /\ <<"push", r>> # Unloading
                       /\ <<"cancel", r>> \in Tasks /\ <<"cancel", r>> # Unloading
  BY TaskFacts DEF Unloading
<1>1. CASE \E u \in Users : User(u) \/ UserResumes(u)
  BY <1>1, UsersSocket
<1>2. CASE \E c \in Calls : Peer(c) \/ Publish(c) \/ GraceOver(c) \/ Internal(c)
  BY <1>2, CallbacksSocket
<1>3. CASE Unload \/ UnloadResumes
  BY <1>3, UnloadSocket
<1>4. CASE UNCHANGED cmVars /\ UNCHANGED unloads
  BY <1>4, TrackTypes, SocketsKept DEF cmVars, bridge, Suspended
<1>5. CASE \E r \in Calls : Handlers(r)
  <2>1. PICK r \in Calls : Handlers(r)
    BY <1>5
  <2>2. UNCHANGED unloads
    BY <2>1 DEF Handlers, Push, PushAborts, Cancel, CancelIgnored, CancelAborts, Arrives, CancelArrives
  <2>3. CASE UNCHANGED cmVars
    BY <1>4, <2>2, <2>3
  <2>4. CASE AbortNow
    BY <1>t, <2>2, <2>4, AbortSocket
  <2>5. CASE PushAborts(r) \/ CancelAborts(r)
    BY <1>t, <2>2, <2>5, AbortSocket DEF PushAborts, CancelAborts
  <2> QED
    BY <2>1, <2>3, <2>4, <2>5 DEF Handlers, Push, Cancel, CancelIgnored
<1>6. CASE \E r \in Calls : PushResumes(r) \/ CancelResumes(r)
  BY <1>t, <1>6, AbortEndSocket DEF PushResumes, CancelResumes
<1>7. CASE \E t \in Tasks : HandlerStopsBridge(t)
  <2>1. PICK t \in Tasks : HandlerStopsBridge(t)
    BY <1>7
  <2>2. /\ UNCHANGED <<active, sockets, spawnTask, dialog, spawn, sockOf, unloads>> /\ Suspended(t)
        /\ \A s \in Tasks : s # t => frame'[s] = frame[s]
    BY <2>1, TrackTypes DEF HandlerStopsBridge, ThenStopsBridge, AwaitStop, AwaitedSpawn, Suspended
  <2>3. \A s \in Tasks : Suspended(s)' => Suspended(s)
    BY <2>2 DEF Suspended
  <2> QED
    BY <2>2, <2>3, TrackTypes, SocketsKept
<1>8. CASE UNCHANGED vars
  BY <1>4, <1>8 DEF vars
<1> QED
  BY <1>1, <1>2, <1>3, <1>5, <1>6, <1>7, <1>8 DEF Next, Resume

\* In a calm system the bridge of a call receives on the port that call offered:
\* no connect, abort or unload hands the sockets of one call to another.
THEOREM CalmOwnPort == ASSUME Calm PROVE Spec => []BridgeUsesOfferedPort
<1>1. Init => SocketInv
  <2>1. Init => /\ sockets = None
                /\ \A c \in Calls : spawn[c] = "none" /\ sockOf[c] = None
                /\ \A t \in Tasks : ~Suspended(t)
    BY DEF Init, CMInit, Suspended, Idle
  <2> QED
    BY <2>1 DEF SocketInv, SocketsHeld, ScheduledTracked, WaitersClear, BridgeUsesOfferedPort
<1>2. SocketInv => BridgeUsesOfferedPort
  BY DEF SocketInv
<1> QED
  BY <1>1, <1>2, SocketStep, CalmInvariant, PTL DEF Spec
-----------------------------------------------------------------------------
(***************************************************************************)
(* Processes.  In a calm system one bridge start exists at a time, that of *)
(* the tracked call or one that an unload left over; the bridge refers to  *)
(* no ffmpeg until the start has spawned it; a cancelled start is awaited  *)
(* by the task that cancelled it, and a task that stops the bridge finds   *)
(* no start.  So no ffmpeg is assigned over another, and none is left.     *)
(***************************************************************************)
Past(c) == dialog[c] \notin {"idle", "connecting", "inviting"}

StartTracked ==
    \A c \in Calls : spawn[c] # "none" =>
        /\ Past(c)
        /\ active = c \/ (active = None /\ unloads > 0)
        /\ spawn[c] \in {"scheduled", "adopting", "spawning", "waiting"} => spawnTask = c
        /\ \A d \in Calls : spawn[d] # "none" => d = c

StartHasProcess ==
    \A c \in Calls :
        /\ spawn[c] \in {"scheduled", "adopting", "spawning"} => running = None
        /\ spawn[c] = "waiting" => running = c
        /\ spawn[c] = "cancelled" =>
             running \in {None, c} /\ \E t \in Tasks : frame[t].pc = "spawn" /\ frame[t].task = c

ProcessWanted ==
    running # None =>
        /\ Past(running)
        /\ running = active \/ spawn[running] # "none" \/ (unloads = 1 /\ active = None)

AwaitsStart ==
    \A t \in Tasks : frame[t].pc = "spawn" =>
        /\ frame[t].task \in Calls /\ Past(frame[t].task)
        /\ active \in {frame[t].task, None}
        /\ \A c \in Calls : spawn[c] # "none" => c = frame[t].task

AwaitsBridge ==
    \A t \in Tasks : t # Unloading /\ Suspended(t) =>
        /\ unloads = 0
        /\ frame[t].pc = "bridge" => running = None /\ \A c \in Calls : spawn[c] = "none"

StoppedTwice ==
    unloads = 2 =>
        /\ manager = "stopped"
        /\ \A c \in Calls : spawn[c] \notin {"scheduled", "adopting", "spawning", "waiting"}

BridgeInv ==
    /\ StartTracked
    /\ StartHasProcess
    /\ ProcessWanted
    /\ AwaitsStart
    /\ AwaitsBridge
    /\ StoppedTwice
    /\ orphans = {}

\* What the bridge refers to.
LEMMA ProcessShape ==
    ASSUME Inv
    PROVE  /\ running \in Ref /\ (running # None => running \in Calls)
           /\ active # None => active \in Calls
           /\ SpawnInFlight <=> /\ spawnTask # None
                                /\ spawn[spawnTask] \in {"scheduled", "adopting", "spawning", "waiting"}
BY DEF Inv, TypeOK, CMTypeOK, Ref, SpawnInFlight, InFlight, Started

\* Steps that touch no start and no process.
LEMMA BridgeKept ==
    ASSUME Inv, BridgeInv, UNCHANGED <<manager, active, spawn, spawnTask, running, orphans, frame, unloads>>,
           \A c \in Calls : Past(c) => Past(c)'
    PROVE  BridgeInv'
<1>1. StartTracked' /\ StartHasProcess' /\ AwaitsStart' /\ StoppedTwice' /\ orphans' = {}
  BY DEF BridgeInv, StartTracked, StartHasProcess, AwaitsStart, StoppedTwice
<1>2. ProcessWanted'
  BY ProcessShape DEF BridgeInv, ProcessWanted
<1>3. AwaitsBridge'
  BY DEF BridgeInv, AwaitsBridge, Suspended, Unloading
<1> QED
  BY <1>1, <1>2, <1>3 DEF BridgeInv

\* Steps that leave no start and no process.
LEMMA BridgeEmptied ==
    ASSUME BridgeInv, \A c \in Calls : spawn'[c] = "none", running' = None, UNCHANGED orphans,
           \A c \in Calls : Past(c) => Past(c)',
           \A t \in Tasks : frame'[t].pc = "spawn" => frame'[t] = frame[t] /\ active' \in {active, None},
           \A t \in Tasks : t # Unloading /\ Suspended(t)' => unloads' = 0,
           unloads' = 2 => manager' = "stopped"
    PROVE  BridgeInv'
<1>1. StartTracked' /\ StartHasProcess' /\ ProcessWanted' /\ StoppedTwice' /\ orphans' = {}
  BY DEF BridgeInv, StartTracked, StartHasProcess, ProcessWanted, StoppedTwice
<1>2. AwaitsStart'
  BY DEF BridgeInv, AwaitsStart
<1>3. AwaitsBridge'
  BY DEF AwaitsBridge, Unloading
<1> QED
  BY <1>1, <1>2, <1>3 DEF BridgeInv

\* Nothing is suspended and no start is in flight: there is none.
LEMMA NoStarts ==
    ASSUME Inv, BridgeInv, ~SpawnInFlight, \A t \in Tasks : ~Suspended(t), NEW c \in Calls
    PROVE  spawn[c] = "none"
<1>1. spawn[c] \notin {"scheduled", "adopting", "spawning", "waiting"}
  BY ProcessShape, RefFacts DEF BridgeInv, StartTracked
<1>2. spawn[c] # "cancelled"
  BY DEF BridgeInv, StartHasProcess, Suspended
<1> QED
  BY <1>1, <1>2, SpawnShape

\* The steps of the start of c.
LEMMA SpawnMoves ==
    ASSUME Inv, BridgeInv, NEW c \in Calls, spawn[c] # "none",
           NEW s \in {"none", "adopting", "spawning", "waiting"}, spawn' = [spawn EXCEPT ![c] = s],
           UNCHANGED <<manager, active, spawnTask, orphans, frame, unloads>>,
           spawn[c] = "cancelled" => s = "none",
           s \in {"adopting", "spawning"} => running' = None,
           s = "waiting" => running' = c,
           s = "none" => running' = None \/ (running' = running /\ running = active),
           \A d \in Calls : Past(d) => Past(d)'
    PROVE  BridgeInv'
<1>1. /\ Past(c)' /\ (active = c \/ (active = None /\ unloads > 0))
      /\ \A d \in Calls : d # c => spawn[d] = "none" /\ spawn'[d] = "none"
      /\ spawn'[c] = s
      /\ s # "none" => spawnTask = c
  BY SpawnShape DEF BridgeInv, StartTracked
<1>2. StartTracked'
  BY <1>1 DEF StartTracked
<1>3. StartHasProcess'
  BY <1>1 DEF StartHasProcess
<1>4. ProcessWanted'
  BY <1>1, ProcessShape DEF BridgeInv, ProcessWanted
<1>5. AwaitsStart'
  BY <1>1 DEF BridgeInv, AwaitsStart
<1>6. AwaitsBridge'
  BY <1>1 DEF BridgeInv, AwaitsBridge, Suspended, Unloading
<1>7. StoppedTwice' /\ orphans' = {}
  BY <1>1, SpawnShape DEF BridgeInv, StoppedTwice
<1> QED
  BY <1>2, <1>3, <1>4, <1>5, <1>6, <1>7 DEF BridgeInv

\* The camera and the lock: a call is placed over an empty bridge.
LEMMA UsersBridge ==
    ASSUME Inv, TrackInv, BridgeInv, NEW u \in Users, User(u) \/ UserResumes(u),
           \A c \in Calls : Past(c) => Past(c)'
    PROVE  BridgeInv'
<1>1. CASE UNCHANGED active
  <2>1. UNCHANGED <<manager, spawn, spawnTask, running, orphans, frame, unloads>>
    BY DEF User, UserResumes, Tap, TapRefused, TapStarts, StartFails, StartReturns, Answered,
         WaitEnds, Await, Finish, StartConnect, ConnectFail, ConnectRaises, ConnectOk, cmVars, bridge
  <2> QED
    BY <1>1, <2>1, BridgeKept
<1>2. CASE StartReturns(u)
  <2>1. /\ dialog[user[u].ring] = "connecting" /\ user[u].ring \in Calls
        /\ UNCHANGED <<manager, spawn, running, orphans, frame, unloads>>
    BY <1>2, TrackTypes DEF StartReturns, ConnectOk
  <2>2. active = None /\ unloads = 0 /\ \A t \in Tasks : ~Suspended(t)
    BY <2>1 DEF TrackInv, ConnectsAlone
  <2>3. \A c \in Calls : spawn[c] = "none"
    BY <2>2, RefFacts DEF BridgeInv, StartTracked
  <2>4. running = None
    BY <2>2, <2>3, ProcessShape DEF BridgeInv, ProcessWanted
  <2> QED
    BY <2>1, <2>2, <2>3, <2>4, BridgeEmptied DEF Suspended
<1> QED
  BY <1>1, <1>2
     DEF User, UserResumes, Tap, TapRefused, TapStarts, StartFails, Answered, WaitEnds,
         StartConnect, ConnectFail, ConnectRaises, cmVars

\* The server: the start of a call is scheduled over an empty bridge.
LEMMA PeerBridge ==
    ASSUME Inv, TrackInv, BridgeInv, NEW c \in Calls, Peer(c),
           \A d \in Calls : Past(d) => Past(d)'
    PROVE  BridgeInv'
<1>1. CASE ~(Established(c) /\ c = active)
  <2>1. UNCHANGED <<manager, active, spawn, spawnTask, running, orphans, frame, unloads>>
    BY <1>1 DEF Peer, Terminated, Established
  <2> QED
    BY <2>1, BridgeKept
<1>2. CASE Established(c) /\ c = active
  <2>1. /\ dialog[c] = "inviting" /\ dialog' = [dialog EXCEPT ![c] = "confirmed"]
        /\ spawn' = [spawn EXCEPT ![c] = "scheduled"] /\ spawnTask' = c
        /\ UNCHANGED <<manager, active, running, orphans, frame, unloads>>
    BY <1>2 DEF Established, Peer
  <2>2. ~Past(c) /\ Past(c)'
    BY <2>1, TrackTypes DEF Past
  <2>3. \A d \in Calls : spawn[d] = "none"
    BY <1>2, <2>2, RefFacts DEF BridgeInv, StartTracked
  <2>4. running = None
    BY <1>2, <2>2, <2>3, ProcessShape, RefFacts DEF BridgeInv, ProcessWanted
  <2>5. \A t \in Tasks : frame[t].pc # "spawn"
    BY <1>2, <2>2, RefFacts DEF BridgeInv, AwaitsStart
  <2>6. \A t \in Tasks : t # Unloading => ~Suspended(t)
    BY <2>1 DEF TrackInv, OneWaits, Live
  <2>7. unloads # 2
    BY <1>2, RefFacts DEF BridgeInv, StoppedTwice, TrackInv, StoppedEmpty
  <2>8. spawn'[c] = "scheduled" /\ \A d \in Calls : d # c => spawn'[d] = "none"
    BY <2>1, <2>3, SpawnShape
  <2>9. StartTracked' /\ StartHasProcess' /\ ProcessWanted'
    BY <1>2, <2>1, <2>2, <2>4, <2>8 DEF StartTracked, StartHasProcess, ProcessWanted
  <2>10. AwaitsStart' /\ StoppedTwice' /\ orphans' = {}
    BY <2>1, <2>5, <2>7 DEF BridgeInv, AwaitsStart, StoppedTwice
  <2>11. AwaitsBridge'
    BY <2>1, <2>6 DEF AwaitsBridge, Suspended, Unloading
  <2> QED
    BY <2>9, <2>10, <2>11 DEF BridgeInv
<1> QED
  BY <1>1, <1>2

\* The timers and the bridge starts.
LEMMA CallbacksBridge ==
    ASSUME Inv, BridgeInv, NEW c \in Calls, Publish(c) \/ GraceOver(c) \/ Internal(c),
           \A d \in Calls : Past(d) => Past(d)'
    PROVE  BridgeInv'
<1>0. UNCHANGED <<manager, spawnTask, frame, unloads>>
  BY DEF Publish, GraceOver, Internal, SpawnPublish, OnCallActive,
         OnCallEnded, GraceExpired, GraceEnd, MaxExpired, GraceSuperseded, PrewarmReaped, SpawnStart,
         SpawnWithoutSocket, SpawnFfmpeg, SpawnFail, SpawnInvalidated, SpawnSuperseded, SpawnUnwind,
         bridge
<1>p. /\ spawn[c] \in {"scheduled", "adopting", "spawning"} => running = None
      /\ spawn[c] = "waiting" => running = c
  BY DEF BridgeInv, StartHasProcess
<1>1. CASE GraceExpired(c)
  <2>1. /\ active = c /\ spawn[c] = "none" /\ active' = None /\ running' = None
        /\ UNCHANGED <<spawn, orphans>>
    BY <1>1 DEF GraceExpired, BridgeStop
  <2>2. \A d \in Calls : spawn[d] = "none"
    BY <2>1, RefFacts DEF BridgeInv, StartTracked
  <2>3. /\ \A t \in Tasks : t # Unloading /\ Suspended(t)' => unloads' = 0
        /\ unloads' = 2 => manager' = "stopped"
    BY <1>0 DEF BridgeInv, AwaitsBridge, StoppedTwice, Suspended
  <2> QED
    BY <1>0, <2>1, <2>2, <2>3, BridgeEmptied
<1>2. CASE SpawnStart(c)
  <2>1. PICK s \in {"adopting", "spawning"} : spawn' = [spawn EXCEPT ![c] = s]
    BY <1>2 DEF SpawnStart
  <2>2. spawn[c] = "scheduled" /\ running' = None /\ UNCHANGED <<active, orphans>>
    BY <1>2 DEF SpawnStart
  <2> QED
    BY <1>0, <2>1, <2>2, SpawnMoves
<1>3. CASE SpawnWithoutSocket(c)
  <2>1. /\ spawn[c] = "scheduled" /\ spawn' = [spawn EXCEPT ![c] = "none"]
        /\ UNCHANGED <<running, active, orphans>>
    BY <1>3 DEF SpawnWithoutSocket
  <2> QED
    BY <1>0, <1>p, <2>1, SpawnMoves
<1>4. CASE SpawnFfmpeg(c)
  <2>1. spawn[c] \in {"adopting", "spawning"} /\ UNCHANGED <<active, orphans>>
    BY <1>4, <1>p DEF SpawnFfmpeg
  <2>2. \/ running' = None /\ spawn' = [spawn EXCEPT ![c] = "none"]
        \/ running' = c /\ spawn' = [spawn EXCEPT ![c] = "waiting"]
    BY <1>4 DEF SpawnFfmpeg
  <2> QED
    BY <1>0, <2>1, <2>2, SpawnMoves
<1>5. CASE SpawnFail(c)
  <2>1. /\ spawn[c] \in {"adopting", "spawning", "waiting"} /\ running' = None
        /\ spawn' = [spawn EXCEPT ![c] = "none"] /\ UNCHANGED <<active, orphans>>
    BY <1>5, <1>p DEF SpawnFail, Started
  <2> QED
    BY <1>0, <2>1, SpawnMoves
<1>6. CASE SpawnInvalidated(c) \/ SpawnUnwind(c) \/ SpawnSuperseded(c)
  <2>1. /\ spawn[c] # "none" /\ running' = None
        /\ spawn' = [spawn EXCEPT ![c] = "none"] /\ UNCHANGED <<active, orphans>>
    BY <1>6 DEF SpawnInvalidated, SpawnUnwind, SpawnSuperseded, BridgeStop, Returns
  <2> QED
    BY <1>0, <2>1, SpawnMoves
<1>7. CASE SpawnPublish(c)
  <2>1. /\ spawn[c] = "waiting" /\ active = c /\ spawn' = [spawn EXCEPT ![c] = "none"]
        /\ UNCHANGED <<active, orphans, running>>
    BY <1>7, <1>p DEF SpawnPublish, Returns, Current
  <2> QED
    BY <1>0, <1>p, <2>1, SpawnMoves
<1>8. CASE MaxExpired(c) \/ GraceSuperseded(c) \/ GraceEnd(c) \/ PrewarmReaped
  <2>1. UNCHANGED <<active, spawn, running, orphans>>
    BY <1>8 DEF MaxExpired, GraceSuperseded, GraceEnd, PrewarmReaped, bridge
  <2> QED
    BY <1>0, <2>1, BridgeKept
<1> QED
  BY <1>1, <1>2, <1>3, <1>4, <1>5, <1>6, <1>7, <1>8 DEF Publish, GraceOver, Internal

\* A task that cancels the start waits for it.
LEMMA CancelBridge ==
    ASSUME Inv, BridgeInv, NEW t \in Tasks, NEW e, CancelSpawn(t, e), \A s \in Tasks : ~Suspended(s),
           UNCHANGED <<manager, active>>, unloads' = unloads \/ (t = Unloading /\ unloads' = unloads + 1),
           unloads' = 0 \/ t = Unloading, unloads' = 2 => manager = "stopped" /\ active = None,
           \A d \in Calls : Past(d) => Past(d)'
    PROVE  BridgeInv'
<1>0. PICK k \in Calls : k = spawnTask
  BY ProcessShape, SpawnShape DEF CancelSpawn
<1>1. /\ spawn[k] \in {"scheduled", "adopting", "spawning", "waiting"}
      /\ spawn'[k] = IF spawn[k] = "scheduled" THEN "none" ELSE "cancelled"
      /\ \A d \in Calls : d # k => spawn'[d] = spawn[d]
      /\ spawnTask' = None /\ UNCHANGED <<running, orphans>>
      /\ frame' = [frame EXCEPT ![t] = [pc |-> "spawn", call |-> e, task |-> k]]
  BY <1>0, ProcessShape, SpawnShape DEF CancelSpawn
<1>2. /\ Past(k)' /\ (active = k \/ (active = None /\ unloads > 0))
      /\ \A d \in Calls : d # k => spawn'[d] = "none"
  BY <1>0, <1>1 DEF BridgeInv, StartTracked
<1>3. /\ frame'[t].pc = "spawn" /\ frame'[t].task = k
      /\ \A s \in Tasks : s # t => frame'[s].pc = "idle"
  BY <1>1, TrackTypes DEF Suspended
<1>4. unloads \in 0 .. 2 /\ unloads' >= unloads
  BY TrackTypes
<1>5. running \in {None, k} /\ (running = k => spawn'[k] = "cancelled")
  BY <1>1, RefFacts DEF BridgeInv, StartHasProcess
<1>6. StartTracked'
  BY <1>1, <1>2, <1>4 DEF StartTracked
<1>7. StartHasProcess'
  BY <1>1, <1>2, <1>3, <1>5 DEF StartHasProcess
<1>8. ProcessWanted'
  BY <1>1, <1>2, <1>5 DEF ProcessWanted
<1>9. AwaitsStart'
  BY <1>1, <1>2, <1>3 DEF AwaitsStart
<1>10. AwaitsBridge'
  BY <1>3 DEF AwaitsBridge, Suspended, Unloading
<1>11. StoppedTwice' /\ orphans' = {}
  BY <1>1, <1>2 DEF BridgeInv, StoppedTwice
<1> QED
  BY <1>6, <1>7, <1>8, <1>9, <1>10, <1>11 DEF BridgeInv

\* An abort cancels the start it finds, or finds none.
LEMMA AbortBridge ==
    ASSUME Inv, TrackInv, BridgeInv, \A s \in Tasks : ~Suspended(s), unloads = 0, UNCHANGED unloads,
           NEW t \in Tasks, t # Unloading, AbortCancelsSpawn(t) \/ AbortStopsBridge(t) \/ AbortNow,
           \A d \in Calls : Past(d) => Past(d)'
    PROVE  BridgeInv'
<1>1. CASE AbortCancelsSpawn(t)
  BY <1>1, CancelBridge DEF AbortCancelsSpawn
<1>2. CASE AbortStopsBridge(t) \/ AbortNow
  <2>1. ~SpawnInFlight /\ running' = None /\ UNCHANGED <<spawn, orphans>>
    BY <1>2 DEF AbortStopsBridge, AbortNow, AwaitStop, BridgeStop
  <2>2. \A s \in Tasks : frame'[s].pc # "spawn"
    BY <1>2, TrackTypes DEF AbortStopsBridge, AbortNow, AwaitStop, Suspended
  <2> QED
    BY <2>1, <2>2, NoStarts, BridgeEmptied
<1> QED
  BY <1>1, <1>2

\* A task that waited for a start, or for the bridge, finds both gone.
LEMMA WaitedBridge ==
    ASSUME Inv, TrackInv, BridgeInv, NEW t \in Tasks, UNCHANGED unloads,
           AbortEnd(t) \/ ThenStopsBridge(t), t # Unloading \/ ThenStopsBridge(t),
           \A d \in Calls : Past(d) => Past(d)'
    PROVE  BridgeInv'
<1>1. /\ Suspended(t) /\ (t # Unloading => unloads = 0)
      /\ UNCHANGED <<manager, spawn, orphans>>
  BY DEF AbortEnd, ThenStopsBridge, Resumes, AwaitedSpawn, AwaitStop, Suspended, BridgeInv, AwaitsBridge
<1>2. AwaitedSpawn(t) => \A c \in Calls : spawn[c] = "none"
  BY DEF AwaitedSpawn, BridgeInv, AwaitsStart
<1>3. running' = None /\ \A c \in Calls : spawn[c] = "none"
  BY <1>1, <1>2 DEF AbortEnd, ThenStopsBridge, Resumes, AwaitStop, BridgeStop, BridgeInv, AwaitsBridge
<1>4. /\ frame'[t].pc # "spawn"
      /\ \A s \in Tasks : s # t => frame'[s] = frame[s]
  BY TrackTypes DEF AbortEnd, ThenStopsBridge, Resumes, AwaitStop, Idle
<1>5. \A s \in Tasks : s # t => frame'[s].pc = "idle"
  BY <1>1, <1>4 DEF TrackInv, OneWaits, Suspended
<1>6. \A s \in Tasks : s # Unloading /\ Suspended(s)' => unloads' = 0
  BY <1>1, <1>5 DEF Suspended
<1>7. unloads' = 2 => manager' = "stopped"
  BY <1>1 DEF BridgeInv, StoppedTwice
<1> QED
  BY <1>1, <1>3, <1>4, <1>5, <1>6, <1>7, BridgeEmptied

\* The unload, and the end of async_stop.
LEMMA UnloadBridge ==
    ASSUME Calm, Inv, TrackInv, BridgeInv, Unload \/ UnloadResumes,
           \A d \in Calls : Past(d) => Past(d)'
    PROVE  BridgeInv'
<1>t. Unloading \in Tasks /\ Unloading = <<"unload", None>>
  BY TaskFacts DEF Unloading
<1>1. CASE Unload
  <2>1. /\ \A t \in Tasks : ~Suspended(t)
        /\ unloads' = unloads + 1 /\ unloads \in 0 .. 2
        /\ unloads' = 2 => manager = "stopped" /\ active = None
    BY <1>1, CalmWindow, TrackTypes DEF Unload, TrackInv, StoppedEmpty
  <2>2. CASE StopCancelsSpawn(Unloading)
    BY <1>t, <2>1, <2>2, CancelBridge DEF StopCancelsSpawn
  <2>3. CASE StopStopsBridge(Unloading) \/ StopNow(Unloading)
    <3>1. ~SpawnInFlight /\ running' = None /\ UNCHANGED <<spawn, orphans>>
      BY <2>3 DEF StopStopsBridge, StopNow, AwaitStop, BridgeStop
    <3>2. /\ \A s \in Tasks : frame'[s].pc # "spawn"
          /\ \A s \in Tasks : s # Unloading => frame'[s].pc = "idle"
      BY <1>t, <2>1, <2>3, TrackTypes DEF StopStopsBridge, StopNow, AwaitStop, Suspended
    <3>3. unloads' = 2 => manager' = "stopped"
      BY <2>1, <2>3 DEF StopStopsBridge, StopNow, Cleared
    <3> QED
      BY <2>1, <3>1, <3>2, <3>3, NoStarts, BridgeEmptied DEF Suspended
  <2> QED
    BY <1>1, <1>t, <2>2, <2>3 DEF Unload
<1>2. CASE UnloadResumes
  <2>1. /\ active' = None /\ manager' = "stopped" /\ Suspended(Unloading)
        /\ frame' = [frame EXCEPT ![Unloading] = Idle]
        /\ UNCHANGED <<spawn, spawnTask, orphans, unloads>>
    BY <1>2, <1>t DEF UnloadResumes, StopEnd, Cleared, Resumes, AwaitedSpawn, Suspended
  <2>2. /\ unloads \in {1, 2} /\ \A s \in Tasks : frame'[s].pc = "idle"
        /\ \A s \in Tasks : s # Unloading => frame[s].pc = "idle"
    BY <1>t, <2>1, TrackTypes DEF TrackInv, OneWaits, Suspended, Idle
  <2>3. CASE AwaitedSpawn(Unloading) /\ BridgeStop
    <3>1. \A c \in Calls : spawn[c] = "none"
      BY <1>t, <2>3 DEF AwaitedSpawn, BridgeInv, AwaitsStart
    <3> QED
      BY <2>1, <2>2, <2>3, <3>1, BridgeEmptied DEF BridgeStop, Suspended
  <2>4. CASE frame[Unloading].pc = "bridge" /\ UNCHANGED running
    <3>1. \A c \in Calls : spawn[c] # "cancelled"
      BY <2>2, <2>4 DEF BridgeInv, StartHasProcess
    <3>2. StartTracked'
      BY <2>1, <2>2 DEF BridgeInv, StartTracked
    <3>3. StartHasProcess'
      BY <2>1, <2>4, <3>1 DEF BridgeInv, StartHasProcess
    <3>4. ProcessWanted'
      <4>1. unloads = 2 => active = None
        BY DEF BridgeInv, StoppedTwice, TrackInv, StoppedEmpty
      <4> QED
        BY <2>1, <2>2, <2>4, <4>1, ProcessShape DEF BridgeInv, ProcessWanted
    <3>5. AwaitsStart' /\ AwaitsBridge'
      BY <2>2 DEF AwaitsStart, AwaitsBridge, Suspended
    <3>6. StoppedTwice' /\ orphans' = {}
      BY <2>1 DEF BridgeInv, StoppedTwice
    <3> QED
      BY <3>2, <3>3, <3>4, <3>5, <3>6 DEF BridgeInv
  <2> QED
    BY <1>2, <1>t, <2>3, <2>4 DEF UnloadResumes, StopEnd, Resumes
<1> QED
  BY <1>1, <1>2

\* Every step of a calm system keeps BridgeInv.
LEMMA BridgeStep == Calm /\ Inv /\ TrackInv /\ BridgeInv /\ [Next]_vars => BridgeInv'
<1> SUFFICES ASSUME Calm, Inv, TrackInv, BridgeInv, [Next]_vars PROVE BridgeInv'
  OBVIOUS
<1>t. \A r \in Calls : /\ <<"push", r>> \in Tasks /\ <<"push", r>> # Unloading
                       /\ <<"cancel", r>> \in Tasks /\ <<"cancel", r>> # Unloading
  BY TaskFacts DEF Unloading
<1>m. Inv /\ MarkedInv /\ TypeOK
  BY DEF TrackInv, GraceIsOver, MarkedInv, Inv
<1>1. CASE \E u \in Users : User(u) \/ UserResumes(u)
  <2>1. \A c \in Calls : Past(c) => Past(c)'
    BY <1>1, <1>m, UsersDial DEF Dials, Past
  <2> QED
    BY <1>1, <2>1, UsersBridge
<1>2. CASE UNCHANGED vars
  BY <1>2, BridgeKept DEF vars, cmVars, bridge, Past
<1>3. CASE Next /\ ~(\E u \in Users : User(u) \/ UserResumes(u))
  <2>0. \A c \in Calls : Past(c) => Past(c)'
    BY <1>3, <1>m, OthersMove DEF Moves, Past
  <2>1. CASE \E r \in Calls : Handlers(r)
    <3>1. PICK r \in Calls : Handlers(r)
      BY <2>1
    <3>2. UNCHANGED unloads /\ unloads = 0 /\ \A t \in Tasks : ~Suspended(t)
      BY <3>1, CalmWindow DEF Handlers, Push, PushAborts, Cancel, CancelIgnored, CancelAborts,
                              Arrives, CancelArrives, Loaded
    <3>3. CASE UNCHANGED cmVars
      BY <2>0, <3>2, <3>3, BridgeKept DEF cmVars, bridge
    <3>4. CASE AbortNow
      BY <1>t, <2>0, <3>2, <3>4, AbortBridge
    <3>5. CASE PushAborts(r) \/ CancelAborts(r)
      BY <1>t, <2>0, <3>2, <3>5, AbortBridge DEF PushAborts, CancelAborts
    <3> QED
      BY <3>1, <3>3, <3>4, <3>5 DEF Handlers, Push, Cancel, CancelIgnored
  <2>2. CASE \E r \in Calls : PushResumes(r) \/ CancelResumes(r)
    BY <1>t, <2>0, <2>2, WaitedBridge DEF PushResumes, CancelResumes
  <2>3. CASE \E t \in Tasks : HandlerStopsBridge(t)
    BY <2>0, <2>3, WaitedBridge DEF HandlerStopsBridge
  <2>4. CASE Unload \/ UnloadResumes
    BY <2>0, <2>4, UnloadBridge
  <2>5. CASE \E c \in Calls : Peer(c)
    BY <2>0, <2>5, PeerBridge
  <2>6. CASE \E c \in Calls : Publish(c) \/ GraceOver(c) \/ Internal(c)
    BY <2>0, <2>6, CallbacksBridge
  <2> QED
    BY <1>3, <2>1, <2>2, <2>3, <2>4, <2>5, <2>6 DEF Next, Resume
<1> QED
  BY <1>1, <1>2, <1>3

\* BridgeInv holds in every reachable state of a calm system.
LEMMA BridgeInvariant == ASSUME Calm PROVE Spec => []BridgeInv
<1>1. Init => BridgeInv
  <2>1. Init => /\ running = None /\ orphans = {} /\ unloads = 0
                /\ \A c \in Calls : spawn[c] = "none"
                /\ \A t \in Tasks : frame[t].pc = "idle"
    BY DEF Init, CMInit, Idle
  <2> QED
    BY <2>1 DEF BridgeInv, StartTracked, StartHasProcess, ProcessWanted, AwaitsStart,
                AwaitsBridge, StoppedTwice, Suspended
<1>2. Inv /\ TrackInv /\ BridgeInv /\ [Next]_vars => BridgeInv'
  BY BridgeStep
<1> QED
  BY <1>1, <1>2, CalmInvariant, PTL DEF Spec

\* In a calm system no ffmpeg outlives the manager's interest in it, except one
\* that the hook of an unload is still to reap: no start overwrites the process
\* of another, no abort, grace or unload forgets one.
THEOREM CalmBridgeReaped == ASSUME Calm PROVE Spec => []BridgeReaped
<1>1. BridgeInv => BridgeReaped
  BY DEF BridgeInv, ProcessWanted, BridgeReaped
<1> QED
  BY <1>1, BridgeInvariant, PTL
-----------------------------------------------------------------------------
(***************************************************************************)
(* Streams.  In a calm system a URL on display is that of the ring shown,  *)
(* whose call the coordinator tracks; the bridge refers to its ffmpeg until *)
(* a grace, an abort or an unload tears it down, and each of those drops   *)
(* the URL at its end, because the call it ends is the tracked one.        *)
(***************************************************************************)
Served(s) ==
    \/ grace[s] = "stopping"
    \/ \E t \in Tasks : Suspended(t)
    \/ unloads > 0
    \/ active = s /\ running = s /\ spawn[s] = "none"

ServedUrl == streamUrl # None => streamUrl = data /\ sipCall = streamUrl /\ Served(streamUrl)

WaitersEnd ==
    \A t \in Tasks : t # Unloading /\ Suspended(t) =>
        /\ active \in {frame[t].call, None}
        /\ streamUrl # None => frame[t].call = streamUrl

StreamInv == ServedUrl /\ WaitersEnd /\ OneGrace

\* What a URL refers to.
LEMMA UrlShape ==
    ASSUME Inv
    PROVE  streamUrl # None => streamUrl \in Calls
BY DEF Inv, TypeOK, Ref

\* Graces that are kept, ended or begun.
LEMMA GraceKept ==
    ASSUME OneGrace, active' \in {active, None},
           grace' = grace \/ grace' = NoGrace \/ \E c \in Calls : grace' = GraceFor(c)
    PROVE  OneGrace'
<1>1. CASE grace' = grace
  BY <1>1, RefFacts DEF OneGrace
<1>2. CASE grace' = NoGrace
  BY <1>2 DEF OneGrace, NoGrace
<1>3. CASE \E c \in Calls : grace' = GraceFor(c)
  BY <1>3 DEF OneGrace, GraceFor
<1> QED
  BY <1>1, <1>2, <1>3

\* Hanging up, and dropping the tracked call, keep the graces in order.
LEMMA GraceOfDrop ==
    ASSUME Inv, NEW c \in Calls
    PROVE  /\ DropCall(c) \/ HangUp(c) =>
                grace' = grace \/ (c = active /\ grace' = GraceFor(c))
           /\ active # None /\ DropActive => grace' = NoGrace \/ \E d \in Calls : grace' = GraceFor(d)
BY ProcessShape DEF DropCall, HangUp, DropActive

\* Steps that suspend nobody and show nothing, once what is served is clear.
LEMMA StreamKept ==
    ASSUME StreamInv, UNCHANGED <<data, frame>>, streamUrl' \in {streamUrl, None},
           streamUrl' # None => sipCall' = sipCall /\ (Served(streamUrl) => Served(streamUrl)'),
           active' \in {active, None},
           OneGrace'
    PROVE  StreamInv'
<1>1. ServedUrl'
  BY DEF StreamInv, ServedUrl, Served
<1>2. WaitersEnd'
  BY DEF StreamInv, WaitersEnd, Suspended, Unloading
<1> QED
  BY <1>1, <1>2 DEF StreamInv

\* While a call connects no URL is on display.
LEMMA ConnectsUnseen ==
    ASSUME Inv, TrackInv, ShownInv, StreamInv, NEW c \in Calls, dialog[c] = "connecting"
    PROVE  streamUrl = None /\ active = None /\ grace[c] = "off" /\ \A t \in Tasks : ~Suspended(t)
<1>1. /\ active = None /\ unloads = 0 /\ \A t \in Tasks : ~Suspended(t)
      /\ grace[c] = "off" /\ data = c
  BY DEF TrackInv, ConnectsAlone, GraceIsOver, ShownInv
<1>2. streamUrl # None => streamUrl = c /\ Served(c)
  BY <1>1 DEF StreamInv, ServedUrl
<1> QED
  BY <1>1, <1>2, RefFacts DEF Served

\* The camera and the lock.
LEMMA UsersStream ==
    ASSUME Inv, TrackInv, ShownInv, StreamInv, NEW u \in Users, User(u) \/ UserResumes(u)
    PROVE  StreamInv'
<1>1. UNCHANGED <<data, streamUrl, frame, grace, running, spawn, unloads>>
  BY DEF User, UserResumes, Tap, TapRefused, TapStarts, StartFails, StartReturns, Answered,
         WaitEnds, Await, Finish, StartConnect, ConnectFail, ConnectRaises, ConnectOk,
         cmVars, timers, bridge, view, history
<1>2. CASE UNCHANGED <<active, sipCall>>
  <2>1. Served(streamUrl) => Served(streamUrl)'
    BY <1>1, <1>2 DEF Served, Suspended
  <2>2. OneGrace'
    BY <1>1, <1>2, GraceKept DEF StreamInv
  <2> QED
    BY <1>1, <1>2, <2>1, <2>2, StreamKept
<1>3. CASE StartFails(u)
  <2>1. dialog[user[u].ring] = "connecting" /\ user[u].ring \in Calls /\ UNCHANGED active
    BY <1>3, TrackTypes DEF StartFails, ConnectFail, ConnectRaises
  <2>2. streamUrl = None
    BY <2>1, ConnectsUnseen
  <2> QED
    BY <1>1, <2>1, <2>2, StreamKept, GraceKept DEF StreamInv
<1>4. CASE StartReturns(u)
  <2>1. dialog[user[u].ring] = "connecting" /\ user[u].ring \in Calls /\ active' = user[u].ring
    BY <1>4, TrackTypes DEF StartReturns, ConnectOk
  <2>2. /\ streamUrl = None /\ active = None /\ grace[user[u].ring] = "off"
        /\ \A t \in Tasks : ~Suspended(t)
    BY <2>1, ConnectsUnseen
  <2>3. ServedUrl' /\ WaitersEnd' /\ OneGrace'
    BY <1>1, <2>1, <2>2 DEF StreamInv, ServedUrl, WaitersEnd, OneGrace, Suspended
  <2> QED
    BY <2>3 DEF StreamInv
<1> QED
  BY <1>2, <1>3, <1>4, NeverRefused
     DEF User, UserResumes, Tap, TapStarts, StartConnect, Answered, WaitEnds, cmVars, invite

\* A new ring is shown without a URL.
LEMMA StreamInstalled ==
    ASSUME NEW r, NEW e, Install(r, e), \A t \in Tasks : ~Suspended(t)', OneGrace'
    PROVE  StreamInv'
BY DEF StreamInv, ServedUrl, WaitersEnd, Install, FreshUrl

\* Pushes and cancels, on arrival and when they resume.
LEMMA HandlersStream ==
    ASSUME Calm, Inv, TrackInv, ShownInv, StreamInv, NEW r \in Calls,
           Handlers(r) \/ PushResumes(r) \/ CancelResumes(r)
    PROVE  StreamInv'
<1>t. /\ <<"push", r>> \in Tasks /\ <<"push", r>> # Unloading
      /\ <<"cancel", r>> \in Tasks /\ <<"cancel", r>> # Unloading
  BY TaskFacts DEF Unloading
<1>a. active # None => data = active /\ active \in Calls /\ grace[active] # "stopping"
  BY ProcessShape DEF ShownInv, StreamInv, OneGrace
<1>g. active # None /\ DropActive /\ active' \in {active, None} => OneGrace'
  BY GraceOfDrop, GraceKept DEF StreamInv
<1>1. CASE Push(r)
  <2>1. \A t \in Tasks : ~Suspended(t)
    BY <1>1, CalmWindow DEF Push, Arrives
  <2>2. OneGrace' /\ UNCHANGED frame
    BY <1>1, <1>g, GraceKept DEF Push, AbortNow, cmVars, timers, StreamInv
  <2>3. \E e : Install(r, e)
    BY <1>1 DEF Push
  <2> QED
    BY <2>1, <2>2, <2>3, StreamInstalled DEF Suspended
<1>2. ASSUME NEW t \in Tasks, t # Unloading, \A s \in Tasks : ~Suspended(s),
             AbortCancelsSpawn(t) \/ AbortStopsBridge(t), UNCHANGED <<data, streamUrl, sipCall>>
      PROVE  StreamInv'
  <2>1. /\ active # None /\ DropActive /\ active' = active
        /\ frame'[t].pc # "idle" /\ frame'[t].call = active
        /\ \A s \in Tasks : s # t => frame'[s] = frame[s]
    BY <1>2, TrackTypes DEF AbortCancelsSpawn, AbortStopsBridge, CancelSpawn, AwaitStop
  <2>2. OneGrace'
    BY <1>g, <2>1
  <2>3. ServedUrl'
    BY <1>2, <2>1 DEF StreamInv, ServedUrl, Served, Suspended
  <2>4. WaitersEnd'
    BY <1>2, <1>a, <2>1 DEF StreamInv, ServedUrl, WaitersEnd, Suspended, Unloading
  <2> QED
    BY <2>2, <2>3, <2>4 DEF StreamInv
<1>3. CASE PushAborts(r)
  BY <1>t, <1>2, <1>3, CalmWindow DEF PushAborts, Arrives, invite, view
<1>4. CASE CancelAborts(r)
  BY <1>t, <1>2, <1>4, CalmWindow DEF CancelAborts, CancelArrives, invite, view
<1>5. CASE UNCHANGED <<cmVars, data, streamUrl, sipCall>>
           /\ UNCHANGED unloads
  <2>1. Served(streamUrl) => Served(streamUrl)'
    BY <1>5 DEF Served, Suspended, cmVars, timers, bridge
  <2> QED
    BY <1>5, <2>1, StreamKept, GraceKept DEF cmVars, timers, StreamInv
<1>6. CASE CancelIgnored(r)
  BY <1>5, <1>6 DEF CancelIgnored, CancelArrives, invite, view
<1>7. CASE Cancel(r)
  <2>1. \A t \in Tasks : ~Suspended(t)
    BY <1>7, CalmWindow DEF Cancel, CancelArrives
  <2>2. UNCHANGED <<data, unloads>>
    BY <1>7 DEF Cancel, CancelArrives, DropPending
  <2>3. CASE UNCHANGED cmVars /\ DropPending(None)
    BY <1>5, <2>2, <2>3 DEF DropPending
  <2>4. CASE AbortNow /\ DropPending(active)
    <3>1. active # None /\ DropActive /\ active' = None /\ UNCHANGED frame /\ unloads = 0
      BY <1>7, <2>4 DEF AbortNow, Cancel, CancelArrives, Loaded
    <3>2. streamUrl # None => Tracked(active)
      BY <1>a, <3>1, RefFacts DEF StreamInv, ServedUrl, Tracked
    <3>3. streamUrl' = None
      BY <2>4, <3>1, <3>2 DEF DropPending, NoUrl
    <3>4. ServedUrl' /\ WaitersEnd'
      BY <2>1, <3>1, <3>3 DEF ServedUrl, WaitersEnd, Suspended
    <3> QED
      BY <1>g, <3>1, <3>4 DEF StreamInv
  <2> QED
    BY <1>7, <2>3, <2>4 DEF Cancel
<1>8. CASE PushResumes(r) \/ CancelResumes(r)
  <2>1. PICK t \in Tasks : t # Unloading /\ AbortEnd(t) /\ t \in {<<"push", r>>, <<"cancel", r>>}
                           /\ (PushResumes(r) \/ DropPending(frame[t].call))
    BY <1>t, <1>8 DEF PushResumes, CancelResumes
  <2>2. /\ Suspended(t) /\ active' = None /\ grace' = grace
        /\ frame' = [frame EXCEPT ![t] = Idle]
    BY <2>1 DEF AbortEnd, Resumes, AwaitedSpawn, Suspended, timers
  <2>3. \A s \in Tasks : ~Suspended(s)'
    BY <2>2, TrackTypes DEF TrackInv, OneWaits, Suspended, Idle
  <2>4. OneGrace'
    BY <2>2, GraceKept DEF StreamInv
  <2>5. CASE PushResumes(r)
    BY <2>3, <2>4, <2>5, StreamInstalled DEF PushResumes
  <2>6. CASE DropPending(frame[t].call)
    <3>1. streamUrl # None => frame[t].call = streamUrl /\ Tracked(streamUrl)
      BY <2>1, <2>2 DEF StreamInv, WaitersEnd, ServedUrl, Tracked
    <3>2. streamUrl' = None
      BY <2>6, <3>1 DEF DropPending, NoUrl
    <3> QED
      BY <2>3, <2>4, <3>2 DEF StreamInv, ServedUrl, WaitersEnd
  <2> QED
    BY <2>1, <2>5, <2>6
<1> QED
  BY <1>1, <1>3, <1>4, <1>6, <1>7, <1>8 DEF Handlers

\* The waits of the handlers and of the unload.
LEMMA WaitsStream ==
    ASSUME Calm, Inv, TrackInv, StreamInv,
           (\E t \in Tasks : HandlerStopsBridge(t)) \/ Unload \/ UnloadResumes
    PROVE  StreamInv'
<1>1. CASE \E t \in Tasks : HandlerStopsBridge(t)
  <2>1. PICK t \in Tasks : HandlerStopsBridge(t)
    BY <1>1
  <2>2. /\ UNCHANGED <<data, streamUrl, sipCall, active, grace>> /\ Suspended(t) /\ Suspended(t)'
        /\ \A s \in Tasks : frame'[s].call = frame[s].call
        /\ \A s \in Tasks : Suspended(s)' = Suspended(s)
    BY <2>1, TrackTypes DEF HandlerStopsBridge, ThenStopsBridge, AwaitStop, AwaitedSpawn, Suspended,
                            timers, invite, view
  <2>3. ServedUrl' /\ WaitersEnd'
    BY <2>2 DEF StreamInv, ServedUrl, WaitersEnd, Served, Unloading
  <2> QED
    BY <2>2, <2>3, GraceKept DEF StreamInv
<1>2. CASE Unload \/ UnloadResumes
  <2>1. UNCHANGED <<data, streamUrl, sipCall>> /\ active' \in {active, None}
    BY <1>2 DEF Unload, UnloadResumes, StopCancelsSpawn, StopStopsBridge, StopNow, StopEnd, Cleared,
                invite, view
  <2>2. unloads' > 0
    <3>1. UnloadResumes => Suspended(Unloading) /\ UNCHANGED unloads
      BY DEF UnloadResumes, StopEnd, Resumes, AwaitedSpawn, Suspended, Unloading
    <3> QED
      BY <1>2, <3>1, TrackTypes DEF Unload, TrackInv, OneWaits
  <2>3. \A s \in Tasks : s # Unloading => ~Suspended(s)'
    <3>1. \A s \in Tasks : s # Unloading => ~Suspended(s)
      <4>1. CASE Unload
        BY <4>1, CalmWindow DEF Unload
      <4>2. CASE UnloadResumes
        BY <4>2, TaskFacts DEF UnloadResumes, StopEnd, Resumes, AwaitedSpawn, TrackInv, OneWaits,
                               Suspended, Unloading
      <4> QED
        BY <1>2, <4>1, <4>2
    <3>2. \A s \in Tasks : s # Unloading => frame'[s] = frame[s]
      BY <1>2, TrackTypes DEF Unload, UnloadResumes, StopCancelsSpawn, StopStopsBridge, StopNow, StopEnd,
                              CancelSpawn, AwaitStop, Resumes, Unloading
    <3> QED
      BY <3>1, <3>2 DEF Suspended
  <2>4. grace' \in {grace, NoGrace}
    BY <1>2 DEF Unload, UnloadResumes, StopCancelsSpawn, StopStopsBridge, StopNow, StopEnd, Cleared, timers
  <2>5. ServedUrl' /\ WaitersEnd'
    BY <2>1, <2>2, <2>3 DEF StreamInv, ServedUrl, Served, WaitersEnd, Unloading
  <2> QED
    BY <2>1, <2>4, <2>5, GraceKept DEF StreamInv
<1> QED
  BY <1>1, <1>2

\* The end of a call that is tracked is not that of a bridge past its grace.
LEMMA DropServes ==
    ASSUME Inv, ShownInv, BridgeInv, StreamInv, NEW c \in Calls,
           grace' = grace \/ (c = active /\ grace' = GraceFor(c)),
           UNCHANGED <<active, frame, unloads>>,
           UNCHANGED <<running, spawn>> \/ spawn[c] # "none",
           streamUrl # None, Served(streamUrl)
    PROVE  Served(streamUrl)' \/ streamUrl' # streamUrl
<1>1. streamUrl = data /\ streamUrl \in Calls
  BY UrlShape DEF StreamInv, ServedUrl
<1>2. CASE grace[streamUrl] = "stopping"
  <2>1. active # streamUrl
    BY <1>1, <1>2 DEF StreamInv, OneGrace
  <2>2. active = None
    BY <1>1, <2>1 DEF ShownInv
  <2> QED
    BY <1>2, <2>2, RefFacts DEF Served
<1>3. CASE active = streamUrl /\ running = streamUrl /\ spawn[streamUrl] = "none"
  <2>1. spawn[c] = "none"
    BY <1>1, <1>3, RefFacts DEF BridgeInv, StartTracked
  <2> QED
    BY <1>3, <2>1 DEF Served
<1> QED
  BY <1>2, <1>3 DEF Served, Suspended

\* The server, the timers and the bridge starts.
LEMMA CallbacksStream ==
    ASSUME Inv, TrackInv, ShownInv, BridgeInv, StreamInv, NEW c \in Calls,
           Peer(c) \/ Publish(c) \/ GraceOver(c) \/ Internal(c)
    PROVE  StreamInv'
<1>u. Peer(c) \/ Internal(c) => UNCHANGED <<streamUrl, sipCall>>
  BY DEF Peer, Internal, invite, view
<1>0. UNCHANGED <<data, frame, unloads>>
  BY DEF Peer, Publish, GraceOver, Internal, Terminated, Established, SpawnPublish, OnCallActive,
         OnCallEnded, GraceExpired, GraceEnd, MaxExpired, GraceSuperseded, PrewarmReaped, SpawnStart,
         SpawnWithoutSocket, SpawnFfmpeg, SpawnFail, SpawnInvalidated, SpawnSuperseded, SpawnUnwind,
         invite, view, bridge
<1>a. /\ active # None => data = active
      /\ streamUrl # None => /\ streamUrl = data /\ sipCall = streamUrl /\ streamUrl \in Calls
                             /\ Served(streamUrl)
  BY UrlShape DEF ShownInv, StreamInv, ServedUrl
<1>1. CASE (Peer(c) /\ Terminated(c)) \/ (Internal(c) /\ (MaxExpired(c) \/ PrewarmReaped))
  <2>1. /\ UNCHANGED <<active, running, spawn, streamUrl, sipCall>>
        /\ grace' = grace \/ (c = active /\ grace' = GraceFor(c))
    BY <1>u, <1>1, GraceOfDrop DEF Terminated, MaxExpired, PrewarmReaped, timers
  <2>2. streamUrl # None => Served(streamUrl)'
    BY <1>0, <1>a, <2>1, DropServes
  <2> QED
    BY <1>0, <2>1, <2>2, GraceKept, StreamKept DEF StreamInv
<1>2. CASE Peer(c) /\ Established(c)
  <2>1. /\ dialog[c] = "inviting"
        /\ \A d \in Calls : spawn'[d] = spawn[d] \/ (d = c /\ c = active)
        /\ UNCHANGED <<active, grace, running, streamUrl, sipCall>>
    BY <1>u, <1>2, SpawnShape DEF Established, timers
  <2>2. running # c
    BY <2>1, RefFacts DEF BridgeInv, ProcessWanted, Past
  <2>3. streamUrl # None => Served(streamUrl)'
    BY <1>0, <1>a, <2>1, <2>2 DEF Served, Suspended
  <2> QED
    BY <1>0, <2>1, <2>3, GraceKept, StreamKept DEF StreamInv
<1>3. CASE Publish(c)
  <2>1. /\ spawn[c] = "waiting" /\ running = c /\ active = c
        /\ spawn' = [spawn EXCEPT ![c] = "none"] /\ UNCHANGED <<running, active, grace, sipCall>>
        /\ streamUrl' = IF Tracked(c) THEN c ELSE streamUrl
    BY <1>3 DEF Publish, SpawnPublish, Returns, Current, OnCallActive, BridgeInv, StartHasProcess, timers
  <2>2. spawn'[c] = "none" /\ data = c
    BY <1>a, <2>1, SpawnShape, RefFacts
  <2>3. streamUrl' \in {c, None} /\ (streamUrl' # None => sipCall' = c)
    BY <1>a, <2>1, <2>2 DEF Tracked
  <2>4. ServedUrl'
    BY <1>0, <2>1, <2>2, <2>3 DEF ServedUrl, Served
  <2>5. WaitersEnd'
    BY <1>0, <2>1, <2>3, RefFacts DEF StreamInv, WaitersEnd, Suspended, Unloading
  <2> QED
    BY <2>1, <2>4, <2>5, GraceKept DEF StreamInv
<1>4. CASE Internal(c) /\ GraceExpired(c) /\ Reaping
  <2>1. /\ active = c /\ active' = None /\ grace' = [grace EXCEPT ![c] = "stopping"]
        /\ grace[c] = "sleeping"
        /\ UNCHANGED <<streamUrl, sipCall>>
    BY <1>u, <1>4 DEF GraceExpired
  <2>2. streamUrl # None => streamUrl = c
    BY <1>a, <2>1, RefFacts
  <2>3. grace'[c] = "stopping" /\ \A d \in Calls : d # c => grace'[d] = "off"
    BY <2>1, TrackTypes DEF StreamInv, OneGrace
  <2>4. OneGrace'
    BY <2>1, <2>3, RefFacts DEF OneGrace
  <2> QED
    BY <1>0, <2>1, <2>2, <2>3, <2>4, StreamKept DEF Served
<1>5. CASE GraceOver(c)
  <2>1. /\ OnCallEnded(c) /\ grace' = NoGrace /\ active' \in {active, None}
        /\ active = c \/ grace[c] = "stopping"
    BY <1>5 DEF GraceOver, GraceExpired, GraceEnd
  <2>2. streamUrl' # None => streamUrl' = streamUrl /\ sipCall' = sipCall /\ streamUrl # c
    BY <1>a, <2>1, RefFacts DEF OnCallEnded, Tracked, NoUrl
  <2>3. streamUrl' # None => Served(streamUrl)'
    <3>1. SUFFICES ASSUME streamUrl' # None PROVE Served(streamUrl)'
      OBVIOUS
    <3>2. streamUrl # None /\ streamUrl # c /\ active # c /\ grace[c] = "stopping"
      BY <1>a, <2>1, <2>2, <3>1, RefFacts
    <3>3. grace[streamUrl] # "stopping"
      BY <1>a, <3>2 DEF StreamInv, OneGrace
    <3>4. UNCHANGED <<active, running, spawn>>
      BY <1>5, <3>2 DEF GraceOver, GraceExpired, GraceEnd, bridge
    <3>5. /\ Served(streamUrl) /\ unloads' = unloads
          /\ \A t \in Tasks : Suspended(t)' = Suspended(t)
      BY <1>0, <1>a, <3>2 DEF Suspended
    <3>6. CASE \E t \in Tasks : Suspended(t)
      BY <3>5, <3>6 DEF Served
    <3>7. CASE unloads > 0
      BY <3>5, <3>7 DEF Served
    <3>8. CASE active = streamUrl /\ running = streamUrl /\ spawn[streamUrl] = "none"
      <4>1. streamUrl' = streamUrl
        BY <2>2, <3>1
      <4> QED
        BY <3>4, <3>8, <4>1 DEF Served
    <3> QED
      BY <3>3, <3>5, <3>6, <3>7, <3>8 DEF Served
  <2> QED
    BY <1>0, <2>1, <2>2, <2>3, GraceKept, StreamKept DEF StreamInv
<1>6. CASE Internal(c) /\ GraceSuperseded(c)
  <2>1. /\ grace[c] = "sleeping" /\ grace' = NoGrace
        /\ UNCHANGED <<active, running, spawn, streamUrl>>
    BY <1>u, <1>6 DEF GraceSuperseded, bridge
  <2>2. \A d \in Calls : grace[d] # "stopping"
    BY <2>1 DEF StreamInv, OneGrace
  <2>3. streamUrl # None => Served(streamUrl)'
    BY <1>0, <1>a, <2>1, <2>2 DEF Served, Suspended
  <2> QED
    BY <1>0, <1>u, <1>6, <2>1, <2>3, GraceKept, StreamKept DEF StreamInv
<1>7. CASE Internal(c) /\ \/ SpawnStart(c) \/ SpawnWithoutSocket(c) \/ SpawnFfmpeg(c) \/ SpawnFail(c)
                          \/ SpawnInvalidated(c) \/ SpawnSuperseded(c) \/ SpawnUnwind(c)
  <2>1. /\ spawn[c] # "none" /\ UNCHANGED active
        /\ grace' = grace \/ (c = active /\ grace' = GraceFor(c))
    BY <1>7, GraceOfDrop
       DEF SpawnStart, SpawnWithoutSocket, SpawnFfmpeg, SpawnFail, SpawnInvalidated, SpawnSuperseded,
           SpawnUnwind, Started, Returns, timers
  <2>2. streamUrl # None => Served(streamUrl)' \/ streamUrl' # streamUrl
    BY <1>0, <1>a, <2>1, DropServes
  <2> QED
    BY <1>0, <1>u, <1>7, <2>1, <2>2, GraceKept, StreamKept DEF StreamInv
<1> QED
  BY <1>1, <1>2, <1>3, <1>4, <1>5, <1>6, <1>7 DEF Peer, Internal

\* Every step of a calm system keeps StreamInv.
LEMMA StreamStep ==
    Calm /\ Inv /\ TrackInv /\ ShownInv /\ BridgeInv /\ StreamInv /\ [Next]_vars => StreamInv'
<1> SUFFICES ASSUME Calm, Inv, TrackInv, ShownInv, BridgeInv, StreamInv, [Next]_vars PROVE StreamInv'
  OBVIOUS
<1>1. CASE UNCHANGED vars
  <2>1. Served(streamUrl) => Served(streamUrl)'
    BY <1>1 DEF Served, Suspended, vars, cmVars, timers, bridge, view
  <2> QED
    BY <1>1, <2>1, StreamKept, GraceKept DEF vars, cmVars, timers, invite, view, StreamInv
<1> QED
  BY <1>1, UsersStream, HandlersStream, WaitsStream, CallbacksStream DEF Next, Resume

\* In a calm system a URL on display is that of the ring on display, and it is
\* served until its teardown begins: the end of another call never drops or
\* replaces it, and the bridge keeps its ffmpeg.
THEOREM CalmStreamServed == ASSUME Calm PROVE Spec => []StreamServed
<1>1. Init => StreamInv
  <2>1. Init => /\ streamUrl = None /\ \A c \in Calls : grace[c] = "off"
                /\ \A t \in Tasks : ~Suspended(t)
    BY DEF Init, CMInit, Suspended, Idle
  <2> QED
    BY <2>1 DEF StreamInv, ServedUrl, WaitersEnd, OneGrace
<1>2. StreamInv => StreamServed
  BY DEF StreamInv, ServedUrl, Served, StreamServed, Suspended, Idle
<1>3. Inv /\ TrackInv /\ ShownInv /\ BridgeInv /\ StreamInv /\ [Next]_vars => StreamInv'
  BY StreamStep
<1> QED
  BY <1>1, <1>2, <1>3, CalmInvariant, ShownInvariant, BridgeInvariant, PTL DEF Spec
-----------------------------------------------------------------------------
(***************************************************************************)
(* The bridge's contract.  A calm manager asks of its bridge only what     *)
(* Bridge promises: a start begins when nothing is left of the one before, *)
(* and the ffmpeg of a call is taken away by nobody but a stop.  For that, *)
(* a stop passes no start that has not begun.                              *)
(***************************************************************************)
StaleInv == \A c \in stale : Past(c) /\ spawn[c] # "scheduled"

StopAwaited == \E t \in Tasks : StopsBridge(t)
NothingStarts == \A c \in Calls : spawn[c] \in {"none", "scheduled"}
Contracted == [Contract!Next]_(Contract!vars)

\* How the stage is told.
LEMMA StageIs ==
    ASSUME TypeOK
    PROVE  /\ ValidStarts # {} => BridgeStage = "starting" /\ BridgeCalls[BridgeStage] = ValidStarts
           /\ ValidStarts = {} /\ StartsEnding # {} => BridgeStage = "ending" /\ BridgeCalls[BridgeStage] = {}
           /\ NothingStarts => ValidStarts = {} /\ StartsEnding = {}
           /\ NothingStarts /\ StopAwaited => BridgeStage = "ending" /\ BridgeCalls[BridgeStage] = {}
           /\ NothingStarts /\ ~StopAwaited /\ running = None =>
                BridgeStage = "empty" /\ BridgeCalls[BridgeStage] = {}
           /\ NothingStarts /\ ~StopAwaited /\ running # None =>
                BridgeStage = "serving" /\ BridgeCalls[BridgeStage] = {running}
           /\ BridgeStage \in {"empty", "starting", "serving", "ending"}
           /\ BridgeStage \in {"empty", "ending"} => BridgeCalls[BridgeStage] = {}
<1>1. NothingStarts => ValidStarts = {} /\ StartsEnding = {}
  BY DEF NothingStarts, ValidStarts, StartsEnding, Started
<1> QED
  BY <1>1 DEF BridgeStage, BridgeCalls, StopAwaited

LEMMA StaysTheSame ==
    ASSUME BridgeStage' = BridgeStage, BridgeCalls'[BridgeStage'] = BridgeCalls[BridgeStage],
           running' # None <=> running # None
    PROVE  Contracted
<1>1. (running # None)' = (running # None)
  BY Zenon
<1>2. (BridgeCalls[BridgeStage])' = BridgeCalls[BridgeStage]
  OBVIOUS
<1> QED
  BY <1>1, <1>2 DEF Contracted, Contract!vars

\* Steps that the bridge takes no notice of.
LEMMA Unnoticed ==
    ASSUME Inv, UNCHANGED <<running, stale>>, StopAwaited' <=> StopAwaited,
           \A c \in Calls : spawn'[c] = spawn[c] \/ {spawn[c], spawn'[c]} \subseteq {"none", "scheduled"}
    PROVE  Contracted
<1>1. ValidStarts' = ValidStarts /\ StartsEnding' = StartsEnding
  BY DEF ValidStarts, StartsEnding, Started
<1>2. BridgeStage' = BridgeStage /\ BridgeCalls' = BridgeCalls
  BY <1>1 DEF BridgeStage, BridgeCalls, StopAwaited
<1> QED
  BY <1>2, StaysTheSame

\* Nothing is left.
LEMMA LeavesEmpty ==
    ASSUME Inv, Inv', NothingStarts', ~StopAwaited', running' = None,
           BridgeStage = "empty" => running = None
    PROVE  Contracted
<1>1. TypeOK /\ TypeOK'
  BY DEF Inv
<1>2. BridgeStage' = "empty" /\ (BridgeCalls[BridgeStage])' = {}
  <2>1. (TypeOK /\ NothingStarts /\ ~StopAwaited /\ running = None =>
           BridgeStage = "empty" /\ BridgeCalls[BridgeStage] = {})'
    BY StageIs, PTL
  <2> QED
    BY <1>1, <2>1
<1>3. CASE BridgeStage = "empty"
  BY <1>1, <1>2, <1>3, StageIs, StaysTheSame
<1>4. CASE BridgeStage # "empty"
  <2>1. (running # None)' = FALSE
    OBVIOUS
  <2> QED
    BY <1>2, <1>4, <2>1 DEF Contracted, Contract!Next, Contract!End
<1> QED
  BY <1>3, <1>4

\* Something is awaited, and no start is valid.
LEMMA LeavesEnding ==
    ASSUME Inv, Inv', ValidStarts' = {}, StartsEnding' # {} \/ (NothingStarts' /\ StopAwaited'),
           running' \in {running, None}
    PROVE  Contracted
<1>1. TypeOK /\ TypeOK'
  BY DEF Inv
<1>2. BridgeStage' = "ending" /\ (BridgeCalls[BridgeStage])' = {}
  <2>1. /\ (TypeOK /\ ValidStarts = {} /\ StartsEnding # {} =>
              BridgeStage = "ending" /\ BridgeCalls[BridgeStage] = {})'
        /\ (TypeOK /\ NothingStarts /\ StopAwaited => BridgeStage = "ending" /\ BridgeCalls[BridgeStage] = {})'
    BY StageIs, PTL
  <2> QED
    BY <1>1, <2>1
<1>3. CASE BridgeStage # "ending"
  <2>1. (running # None)' \in {FALSE, running # None}
    OBVIOUS
  <2> QED
    BY <1>2, <1>3, <2>1 DEF Contracted, Contract!Next, Contract!Abandon
<1>4. CASE BridgeStage = "ending" /\ running' = running
  BY <1>1, <1>2, <1>4, StageIs, StaysTheSame
<1>5. CASE BridgeStage = "ending" /\ running' = None
  <2>1. (running # None)' = FALSE
    BY <1>5
  <2>2. BridgeCalls[BridgeStage] = {}
    BY <1>1, <1>5, StageIs
  <2> QED
    BY <1>2, <1>5, <2>1, <2>2 DEF Contracted, Contract!Next, Contract!Release
<1> QED
  BY <1>3, <1>4, <1>5

\* A start that no stop has passed begins, takes its ffmpeg up, or returns.
LEMMA OneStarts ==
    ASSUME Inv, BridgeInv, NEW c \in Calls, spawn[c] # "none"
    PROVE  /\ \A d \in Calls : d # c => spawn[d] = "none"
           /\ ~StopAwaited
           /\ spawn[c] \in Started /\ c \notin stale => ValidStarts = {c}
           /\ spawn[c] = "scheduled" => NothingStarts
<1>1. \A d \in Calls : d # c => spawn[d] = "none"
  BY DEF BridgeInv, StartTracked
<1>2. ~StopAwaited
  BY DEF BridgeInv, AwaitsBridge, StopAwaited, StopsBridge, Suspended, Unloading
<1>3. "none" \notin Started
  BY DEF Started
<1> QED
  BY <1>1, <1>2, <1>3 DEF ValidStarts, NothingStarts

\* The start of c ends with nothing, or passes on as it is.
LEMMA StartGone ==
    ASSUME Inv, Inv', BridgeInv, NEW c \in Calls, spawn[c] # "none", spawn' = [spawn EXCEPT ![c] = "none"],
           running' = None, UNCHANGED frame
    PROVE  Contracted
<1>1. NothingStarts' /\ ~StopAwaited'
  BY OneStarts, SpawnShape DEF NothingStarts, StopAwaited, StopsBridge
<1>2. BridgeStage = "empty" => running = None
  BY DEF BridgeStage
<1> QED
  BY <1>1, <1>2, LeavesEmpty

LEMMA CallbacksContracted ==
    ASSUME Inv, Inv', BridgeInv, StaleInv, NEW c \in Calls, Publish(c) \/ GraceOver(c) \/ Internal(c)
    PROVE  Contracted
<1>0. /\ UNCHANGED frame /\ (StopAwaited' <=> StopAwaited) /\ c # None
      /\ TypeOK /\ TypeOK'
  <2>1. UNCHANGED frame
    BY DEF Publish, GraceOver, Internal, SpawnPublish, OnCallActive,
         OnCallEnded, GraceExpired, GraceEnd, MaxExpired, GraceSuperseded, PrewarmReaped, SpawnStart,
         SpawnWithoutSocket, SpawnFfmpeg, SpawnFail, SpawnInvalidated, SpawnSuperseded, SpawnUnwind
  <2> QED
    BY <2>1, RefFacts DEF StopAwaited, StopsBridge, Inv
<1>p. /\ spawn[c] \in {"scheduled", "adopting", "spawning"} => running = None
      /\ spawn[c] = "waiting" => running = c
  BY DEF BridgeInv, StartHasProcess
<1>1. CASE GraceExpired(c)
  <2>1. /\ active = c /\ spawn[c] = "none" /\ running' = None /\ UNCHANGED spawn
    BY <1>1 DEF GraceExpired, BridgeStop
  <2>2. \A d \in Calls : spawn[d] = "none"
    BY <2>1, RefFacts DEF BridgeInv, StartTracked
  <2>3. NothingStarts /\ NothingStarts'
    BY <2>1, <2>2 DEF NothingStarts
  <2>4. CASE StopAwaited
    <3>1. ValidStarts' = {}
      BY <2>3 DEF ValidStarts, NothingStarts, Started
    <3> QED
      BY <1>0, <2>1, <2>3, <2>4, <3>1, LeavesEnding
  <2>5. CASE ~StopAwaited
    <3>1. BridgeStage = "empty" => running = None
      BY DEF BridgeStage
    <3> QED
      BY <1>0, <2>1, <2>3, <2>5, <3>1, LeavesEmpty
  <2> QED
    BY <2>4, <2>5
<1>2. CASE SpawnStart(c)
  <2>1. PICK s \in {"adopting", "spawning"} : spawn' = [spawn EXCEPT ![c] = s]
    BY <1>2 DEF SpawnStart
  <2>2. spawn[c] = "scheduled" /\ running = None /\ running' = None /\ UNCHANGED stale
    BY <1>2 DEF SpawnStart
  <2>3. NothingStarts /\ ~StopAwaited /\ c \notin stale /\ \A d \in Calls : d # c => spawn[d] = "none"
    BY <2>2, OneStarts DEF StaleInv
  <2>4. BridgeStage = "empty"
    BY <1>0, <2>2, <2>3, StageIs
  <2>5. ValidStarts' = {c}
    <3>1. spawn'[c] = s /\ \A d \in Calls : d # c => spawn'[d] = "none"
      BY <2>1, <2>3, SpawnShape
    <3> QED
      BY <2>2, <2>3, <3>1 DEF ValidStarts, Started
  <2>6. BridgeStage' = "starting" /\ (BridgeCalls[BridgeStage])' = {c}
    <3>1. (TypeOK /\ ValidStarts # {} => BridgeStage = "starting" /\ BridgeCalls[BridgeStage] = ValidStarts)'
      BY StageIs, PTL
    <3> QED
      BY <1>0, <2>5, <3>1
  <2>7. (running # None)' \in BOOLEAN
    OBVIOUS
  <2> QED
    BY <2>4, <2>6, <2>7 DEF Contracted, Contract!Next, Contract!Begin
<1>3. CASE SpawnWithoutSocket(c)
  <2>1. /\ spawn[c] = "scheduled" /\ spawn' = [spawn EXCEPT ![c] = "none"] /\ UNCHANGED <<running, stale>>
    BY <1>3 DEF SpawnWithoutSocket
  <2>2. \A d \in Calls : spawn'[d] = spawn[d] \/ {spawn[d], spawn'[d]} \subseteq {"none", "scheduled"}
    BY <2>1, SpawnShape
  <2> QED
    BY <1>0, <2>1, <2>2, Unnoticed
<1>4. CASE SpawnFfmpeg(c) /\ c \in stale
  <2>1. spawn[c] # "none" /\ running' = None /\ spawn' = [spawn EXCEPT ![c] = "none"]
    BY <1>4 DEF SpawnFfmpeg
  <2> QED
    BY <1>0, <2>1, StartGone
<1>5. CASE SpawnFfmpeg(c) /\ c \notin stale
  <2>1. /\ spawn[c] \in {"adopting", "spawning"} /\ spawn[c] \in Started /\ spawn[c] # "none"
        /\ running = None /\ running' = c /\ spawn' = [spawn EXCEPT ![c] = "waiting"] /\ UNCHANGED stale
    BY <1>5, <1>p DEF SpawnFfmpeg, Started
  <2>2. ValidStarts = {c}
    BY <1>5, <2>1, OneStarts
  <2>3. ValidStarts' = {c}
    <3>1. spawn'[c] = "waiting" /\ \A d \in Calls : d # c => spawn'[d] = "none"
      BY <2>1, SpawnShape, OneStarts
    <3> QED
      BY <1>5, <2>1, <3>1 DEF ValidStarts, Started
  <2>4. BridgeStage = "starting" /\ BridgeCalls[BridgeStage] = {c}
    BY <1>0, <2>2, StageIs
  <2>5. BridgeStage' = "starting" /\ (BridgeCalls[BridgeStage])' = {c}
    <3>1. (TypeOK /\ ValidStarts # {} => BridgeStage = "starting" /\ BridgeCalls[BridgeStage] = ValidStarts)'
      BY StageIs, PTL
    <3> QED
      BY <1>0, <2>3, <3>1
  <2>6. (running # None)' = TRUE /\ ~(running # None)
    BY <1>0, <2>1
  <2> QED
    BY <2>4, <2>5, <2>6 DEF Contracted, Contract!Next, Contract!TakeUp
<1>6. CASE SpawnFail(c)
  <2>1. /\ spawn[c] \in Started /\ spawn[c] # "none" /\ running' = None /\ spawn' = [spawn EXCEPT ![c] = "none"]
    BY <1>6, <1>p DEF SpawnFail, Started
  <2> QED
    BY <1>0, <2>1, StartGone
<1>7. CASE SpawnInvalidated(c) \/ SpawnUnwind(c) \/ SpawnSuperseded(c)
  <2>1. /\ spawn[c] # "none" /\ running' = None /\ spawn' = [spawn EXCEPT ![c] = "none"]
    BY <1>7 DEF SpawnInvalidated, SpawnUnwind, SpawnSuperseded, BridgeStop, Returns
  <2> QED
    BY <1>0, <2>1, StartGone
<1>8. CASE SpawnPublish(c)
  <2>1. /\ spawn[c] = "waiting" /\ spawn[c] \in Started /\ spawn[c] # "none" /\ c \notin stale
        /\ running = c /\ running' = c /\ spawn' = [spawn EXCEPT ![c] = "none"]
    BY <1>8, <1>p DEF SpawnPublish, Returns, Started
  <2>2. ValidStarts = {c} /\ ~StopAwaited /\ \A d \in Calls : d # c => spawn[d] = "none"
    BY <2>1, OneStarts
  <2>3. BridgeStage = "starting" /\ BridgeCalls[BridgeStage] = {c}
    BY <1>0, <2>2, StageIs
  <2>4. NothingStarts' /\ ~StopAwaited'
    BY <1>0, <2>1, <2>2, SpawnShape DEF NothingStarts
  <2>5. BridgeStage' = "serving" /\ (BridgeCalls[BridgeStage])' = {c}
    <3>1. (TypeOK /\ NothingStarts /\ ~StopAwaited /\ running # None =>
             BridgeStage = "serving" /\ BridgeCalls[BridgeStage] = {running})'
      BY StageIs, PTL
    <3> QED
      BY <1>0, <2>1, <2>4, <3>1
  <2>6. (running # None)' = (running # None) /\ running # None
    BY <1>0, <2>1
  <2> QED
    BY <2>3, <2>5, <2>6 DEF Contracted, Contract!Next, Contract!Serve
<1>9. CASE MaxExpired(c) \/ GraceSuperseded(c) \/ GraceEnd(c) \/ PrewarmReaped
  <2>1. UNCHANGED <<spawn, stale, running>>
    BY <1>9 DEF MaxExpired, GraceSuperseded, GraceEnd, PrewarmReaped, bridge
  <2> QED
    BY <1>0, <2>1, Unnoticed
<1> QED
  BY <1>1, <1>2, <1>3, <1>4, <1>5, <1>6, <1>7, <1>8, <1>9 DEF Publish, GraceOver, Internal

LEMMA PeerContracted ==
    ASSUME Inv, BridgeInv, NEW c \in Calls, Peer(c) PROVE Contracted
<1>1. UNCHANGED <<running, stale, frame>> /\ (StopAwaited' <=> StopAwaited)
  BY DEF Peer, Terminated, Established, StopAwaited, StopsBridge
<1>2. CASE UNCHANGED spawn
  BY <1>1, <1>2, Unnoticed
<1>3. CASE Established(c) /\ spawn' = [spawn EXCEPT ![c] = "scheduled"]
  <2>1. spawn[c] = "none"
    BY <1>3, SpawnShape DEF Established, Past, BridgeInv, StartTracked
  <2>2. \A d \in Calls : spawn'[d] = spawn[d] \/ {spawn[d], spawn'[d]} \subseteq {"none", "scheduled"}
    BY <1>3, <2>1, SpawnShape
  <2> QED
    BY <1>1, <2>2, Unnoticed
<1> QED
  BY <1>2, <1>3 DEF Peer, Terminated, Established

LEMMA UsersContracted ==
    ASSUME Inv, NEW u \in Users, User(u) \/ UserResumes(u) PROVE Contracted
<1>1. UNCHANGED <<spawn, running, stale, frame>>
  BY DEF User, UserResumes, Tap, TapRefused, TapStarts, StartFails, StartReturns, Answered,
         WaitEnds, Await, Finish, StartConnect, ConnectFail, ConnectRaises, ConnectOk, cmVars, bridge
<1>2. StopAwaited' <=> StopAwaited
  BY <1>1 DEF StopAwaited, StopsBridge
<1> QED
  BY <1>1, <1>2, Unnoticed

\* The start in flight is cancelled: it will unwind, or never begins.
LEMMA CancelContracted ==
    ASSUME Inv, Inv', BridgeInv, NEW t \in Tasks, NEW e, CancelSpawn(t, e)
    PROVE  Contracted
<1>0. PICK k \in Calls : k = spawnTask
  BY ProcessShape, SpawnShape DEF CancelSpawn
<1>1. /\ spawn[k] \in {"scheduled", "adopting", "spawning", "waiting"}
      /\ spawn'[k] = IF spawn[k] = "scheduled" THEN "none" ELSE "cancelled"
      /\ UNCHANGED <<running, stale>>
      /\ frame' = [frame EXCEPT ![t] = [pc |-> "spawn", call |-> e, task |-> k]]
  BY <1>0, ProcessShape, SpawnShape DEF CancelSpawn
<1>2. ~StopAwaited /\ \A d \in Calls : d # k => spawn[d] = "none" /\ spawn'[d] = "none"
  BY <1>0, <1>1, OneStarts, SpawnShape DEF CancelSpawn
<1>3. ~StopAwaited'
  BY <1>1, <1>2, TrackTypes DEF StopAwaited, StopsBridge
<1>4. CASE spawn[k] = "scheduled"
  <2>1. \A d \in Calls : spawn'[d] = spawn[d] \/ {spawn[d], spawn'[d]} \subseteq {"none", "scheduled"}
    BY <1>1, <1>2, <1>4
  <2> QED
    BY <1>1, <1>2, <1>3, <2>1, Unnoticed
<1>5. CASE spawn[k] # "scheduled"
  <2>1. spawn'[k] = "cancelled"
    BY <1>1, <1>5
  <2>2. ValidStarts' = {} /\ k \in StartsEnding'
    BY <1>2, <2>1 DEF ValidStarts, StartsEnding, Started
  <2> QED
    BY <1>1, <2>2, LeavesEnding
<1> QED
  BY <1>4, <1>5

\* No start is there: the bridge is stopped at once, or awaited.
LEMMA StopContracted ==
    ASSUME Inv, Inv', \A c \in Calls : spawn[c] = "none", UNCHANGED spawn, running' = None,
           StopAwaited => StopAwaited' \/ running = None
    PROVE  Contracted
<1>1. NothingStarts /\ NothingStarts' /\ ValidStarts' = {}
  BY DEF NothingStarts, ValidStarts, Started
<1>2. CASE StopAwaited'
  BY <1>1, <1>2, LeavesEnding
<1>3. CASE ~StopAwaited'
  <2>1. BridgeStage = "empty" => running = None
    BY DEF BridgeStage
  <2> QED
    BY <1>1, <1>3, <2>1, LeavesEmpty
<1> QED
  BY <1>2, <1>3

LEMMA AbortContracted ==
    ASSUME Inv, Inv', BridgeInv, \A s \in Tasks : ~Suspended(s), NEW t \in Tasks,
           \/ AbortCancelsSpawn(t) \/ AbortStopsBridge(t) \/ AbortNow
           \/ StopCancelsSpawn(t) \/ StopStopsBridge(t) \/ StopNow(t)
    PROVE  Contracted
<1>1. CASE AbortCancelsSpawn(t) \/ StopCancelsSpawn(t)
  BY <1>1, CancelContracted DEF AbortCancelsSpawn, StopCancelsSpawn
<1>2. CASE AbortStopsBridge(t) \/ AbortNow \/ StopStopsBridge(t) \/ StopNow(t)
  <2>1. ~SpawnInFlight /\ running' = None /\ UNCHANGED spawn
    BY <1>2 DEF AbortStopsBridge, AbortNow, StopStopsBridge, StopNow, AwaitStop, BridgeStop
  <2>2. ~StopAwaited
    BY DEF StopAwaited, StopsBridge, Suspended
  <2> QED
    BY <2>1, <2>2, NoStarts, StopContracted
<1> QED
  BY <1>1, <1>2

\* A task that waited for a start stops the bridge; one that waited for the
\* bridge finds it empty, but for an unload, whose wait is none of the contract.
LEMMA WaitContracted ==
    ASSUME Inv, Inv', TrackInv, BridgeInv, NEW t \in Tasks,
           \/ AbortEnd(t) /\ t # Unloading
           \/ StopEnd(t) /\ t = Unloading
           \/ ThenStopsBridge(t)
    PROVE  Contracted
<1>1. Suspended(t) /\ UNCHANGED spawn /\ \A s \in Tasks : s # t => frame[s].pc = "idle"
  BY DEF AbortEnd, StopEnd, ThenStopsBridge, Resumes, AwaitedSpawn, AwaitStop, Suspended, TrackInv, OneWaits
<1>2. CASE AwaitedSpawn(t) /\ BridgeStop
  <2>1. \A c \in Calls : spawn[c] = "none"
    BY <1>2 DEF AwaitedSpawn, BridgeInv, AwaitsStart
  <2>2. ~StopAwaited
    BY <1>1, <1>2 DEF StopAwaited, StopsBridge, AwaitedSpawn
  <2> QED
    BY <1>1, <1>2, <2>1, <2>2, StopContracted DEF BridgeStop
<1>3. CASE frame[t].pc = "bridge" /\ AbortEnd(t) /\ t # Unloading
  <2>1. \A c \in Calls : spawn[c] = "none"
    BY <1>1, <1>3 DEF BridgeInv, AwaitsBridge
  <2>2. running = None /\ running' = None
    BY <1>1, <1>3 DEF BridgeInv, AwaitsBridge, AbortEnd, Resumes, BridgeStop
  <2> QED
    BY <1>1, <2>1, <2>2, StopContracted
<1>4. CASE frame[t].pc = "bridge" /\ StopEnd(t) /\ t = Unloading
  <2>1. UNCHANGED <<running, stale, spawn>> /\ frame' = [frame EXCEPT ![t] = Idle] /\ t = Unloading
    BY <1>4 DEF StopEnd, Resumes, AwaitedSpawn
  <2>2. ~StopAwaited /\ ~StopAwaited'
    BY <1>1, <2>1, TrackTypes DEF StopAwaited, StopsBridge, Unloading, Idle
  <2> QED
    BY <2>1, <2>2, Unnoticed
<1> QED
  BY <1>2, <1>3, <1>4 DEF AbortEnd, StopEnd, ThenStopsBridge, Resumes, AwaitStop, AwaitedSpawn

LEMMA StepContracted ==
    ASSUME Calm, Inv, Inv', TrackInv, BridgeInv, StaleInv, [Next]_vars PROVE Contracted
<1>t. /\ \A r \in Calls : /\ <<"push", r>> \in Tasks /\ <<"push", r>> # Unloading
                          /\ <<"cancel", r>> \in Tasks /\ <<"cancel", r>> # Unloading
      /\ Unloading \in Tasks /\ Unloading = <<"unload", None>>
  BY TaskFacts DEF Unloading
<1>u. UNCHANGED cmVars => Contracted
  BY Unnoticed DEF cmVars, bridge, StopAwaited, StopsBridge
<1>1. CASE \E r \in Calls : Handlers(r)
  <2>1. PICK r \in Calls : Handlers(r)
    BY <1>1
  <2>2. \A t \in Tasks : ~Suspended(t)
    BY <2>1, CalmWindow DEF Handlers, Push, PushAborts, Cancel, CancelIgnored, CancelAborts, Arrives, CancelArrives
  <2>3. CASE UNCHANGED cmVars
    BY <1>u, <2>3
  <2>4. CASE AbortNow
    BY <1>t, <2>2, <2>4, AbortContracted
  <2>5. CASE PushAborts(r) \/ CancelAborts(r)
    BY <1>t, <2>2, <2>5, AbortContracted DEF PushAborts, CancelAborts
  <2> QED
    BY <2>1, <2>3, <2>4, <2>5 DEF Handlers, Push, Cancel, CancelIgnored
<1>2. CASE Unload
  <2>1. \A t \in Tasks : ~Suspended(t)
    BY <1>2, CalmWindow DEF Unload
  <2> QED
    BY <1>2, <1>t, <2>1, AbortContracted DEF Unload
<1>3. CASE UnloadResumes
  BY <1>3, <1>t, WaitContracted DEF UnloadResumes
<1>4. CASE \E r \in Calls : PushResumes(r) \/ CancelResumes(r)
  BY <1>4, <1>t, WaitContracted DEF PushResumes, CancelResumes
<1>5. CASE \E t \in Tasks : HandlerStopsBridge(t)
  BY <1>5, WaitContracted DEF HandlerStopsBridge
<1>6. CASE UNCHANGED vars
  BY <1>6, <1>u DEF vars
<1> QED
  BY <1>1, <1>2, <1>3, <1>4, <1>5, <1>6, CallbacksContracted, PeerContracted, UsersContracted DEF Next, Resume

\* Only a start in flight is passed by a stop.
LEMMA StaleStep ==
    ASSUME Inv, Inv', TrackInv, BridgeInv, StaleInv, [Next]_vars PROVE StaleInv'
<1>1. \A c \in Calls : Past(c) => Past(c)'
  <2>0. MarkedInv
    BY DEF TrackInv, GraceIsOver, MarkedInv
  <2>1. CASE \E u \in Users : User(u) \/ UserResumes(u)
    BY <2>0, <2>1, UsersDial DEF Dials, Past
  <2>2. CASE Next /\ ~(\E u \in Users : User(u) \/ UserResumes(u))
    BY <2>2, OthersMove DEF Moves, Past, Inv
  <2>3. CASE UNCHANGED vars
    BY <2>3 DEF vars, cmVars, Past
  <2> QED
    BY <2>1, <2>2, <2>3
<1>2. stale \in SUBSET Calls /\ stale' \in SUBSET Calls
  BY DEF Inv, TypeOK, CMTypeOK
<1>3. ASSUME stale' \subseteq stale \union {c \in Calls : spawn[c] \in Started},
             \A c \in Calls : spawn'[c] = "scheduled" => spawn[c] = "scheduled" \/ ~Past(c)
      PROVE  StaleInv'
  <2> SUFFICES ASSUME NEW c \in stale' PROVE Past(c)' /\ spawn'[c] # "scheduled"
    BY DEF StaleInv
  <2>1. Past(c) /\ spawn[c] # "scheduled"
    BY <1>2, <1>3 DEF StaleInv, BridgeInv, StartTracked, Started
  <2> QED
    BY <1>1, <1>2, <1>3, <2>1
<1>4. BridgeStop /\ UNCHANGED spawn => StaleInv'
  BY <1>3 DEF BridgeStop
<1>5. UNCHANGED <<spawn, stale>> => StaleInv'
  BY <1>3
<1>6. ASSUME NEW t, NEW e, CancelSpawn(t, e) PROVE StaleInv'
  BY <1>3, <1>6, SpawnShape DEF CancelSpawn
<1>7. ASSUME NEW t, AbortCancelsSpawn(t) \/ AbortStopsBridge(t) \/ AbortNow \/ ThenStopsBridge(t) \/ AbortEnd(t)
                    \/ StopCancelsSpawn(t) \/ StopStopsBridge(t) \/ StopNow(t) \/ StopEnd(t)
      PROVE  StaleInv'
  BY <1>4, <1>5, <1>6, <1>7
     DEF AbortCancelsSpawn, AbortStopsBridge, AbortNow, ThenStopsBridge, AbortEnd, Resumes, AwaitStop,
         StopCancelsSpawn, StopStopsBridge, StopNow, StopEnd
<1>8. CASE \E r \in Calls : Handlers(r)
  BY <1>5, <1>7, <1>8 DEF Handlers, Push, PushAborts, Cancel, CancelIgnored, CancelAborts, cmVars, bridge
<1>9. CASE Unload \/ Resume
  BY <1>7, <1>9 DEF Unload, Resume, UnloadResumes, PushResumes, CancelResumes, HandlerStopsBridge
<1>10. CASE \E u \in Users : User(u) \/ UserResumes(u)
  <2>1. UNCHANGED <<spawn, stale>>
    BY <1>10 DEF User, UserResumes, Tap, TapRefused, TapStarts, StartFails, StartReturns, Answered,
         WaitEnds, Await, Finish, StartConnect, ConnectFail, ConnectRaises, ConnectOk, cmVars, bridge
  <2> QED
    BY <1>5, <2>1
<1>11. CASE \E c \in Calls : Peer(c)
  <2>1. PICK c \in Calls : Peer(c)
    BY <1>11
  <2>2. UNCHANGED stale /\ (UNCHANGED spawn \/ (dialog[c] = "inviting" /\ spawn' = [spawn EXCEPT ![c] = "scheduled"]))
    BY <2>1 DEF Peer, Terminated, Established
  <2> QED
    BY <1>3, <2>2, SpawnShape DEF Past
<1>12. ASSUME NEW c \in Calls, Publish(c) \/ GraceOver(c) \/ Internal(c) PROVE StaleInv'
  <2>1. CASE UNCHANGED stale /\ \E s \in {"none", "adopting", "spawning", "waiting"} : spawn' = [spawn EXCEPT ![c] = s]
    BY <1>3, <2>1, SpawnShape
  <2>2. CASE GraceExpired(c)
    BY <1>4, <2>2 DEF GraceExpired
  <2>3. CASE SpawnSuperseded(c)
    <3>1. stale' = stale \union {d \in Calls : spawn[d] \in Started} /\ spawn' = [spawn EXCEPT ![c] = "none"]
      BY <2>3 DEF SpawnSuperseded, BridgeStop
    <3> QED
      BY <1>3, <3>1, SpawnShape
  <2>4. CASE MaxExpired(c) \/ GraceSuperseded(c) \/ GraceEnd(c) \/ PrewarmReaped
    BY <1>5, <2>4 DEF MaxExpired, GraceSuperseded, GraceEnd, PrewarmReaped, bridge
  <2>5. CASE SpawnPublish(c) \/ SpawnStart(c) \/ SpawnWithoutSocket(c) \/ SpawnFfmpeg(c) \/ SpawnFail(c)
             \/ SpawnInvalidated(c) \/ SpawnUnwind(c)
    BY <2>1, <2>5 DEF SpawnPublish, SpawnStart, SpawnWithoutSocket, SpawnFfmpeg, SpawnFail, SpawnInvalidated, SpawnUnwind
  <2> QED
    BY <1>12, <2>2, <2>3, <2>4, <2>5 DEF Publish, GraceOver, Internal
<1> QED
  BY <1>5, <1>8, <1>9, <1>10, <1>11, <1>12 DEF Next, vars, cmVars, bridge

\* A calm manager, its bridge starts and its stops are a run of the contract
\* that AudioBridge implements.
THEOREM CalmBridgeKeepsPromise == ASSUME Calm PROVE Spec => BridgeKeepsPromise
<1>1. Init => StaleInv /\ Contract!Init
  <2> SUFFICES ASSUME Init PROVE StaleInv /\ Contract!Init
    OBVIOUS
  <2>1. TypeOK /\ NothingStarts /\ ~StopAwaited /\ running = None /\ stale = {}
    BY InvInit DEF Init, CMInit, Idle, NothingStarts, StopAwaited, StopsBridge, Inv
  <2>2. (running # None) = FALSE
    BY <2>1, Zenon
  <2> QED
    BY <2>1, <2>2, StageIs DEF StaleInv, Contract!Init
<1>2. Inv /\ Inv' /\ TrackInv /\ BridgeInv /\ StaleInv /\ [Next]_vars => StaleInv' /\ [Contract!Next]_(Contract!vars)
  BY StepContracted, StaleStep DEF Contracted
<1> QED
  BY <1>1, <1>2, CalmInvariant, BridgeInvariant, PTL DEF Spec, BridgeKeepsPromise, Contract!Spec
=============================================================================
