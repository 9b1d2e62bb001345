--------------------------- MODULE Runtime_proofs ---------------------------
(***************************************************************************)
(* The push listener over the life of its entry, for any number of         *)
(* clients: while the entry is set up the supervisor is at work; and if    *)
(* stop() of a client that was not started does not suspend, no client is  *)
(* left behind, an entry that is not set up is quiet, and an unload stops  *)
(* the push source first.                                                  *)
(*                                                                         *)
(* The argument: at most one client reads, and only while the supervisor   *)
(* polls or watches it (ListenerInv); so a supervisor that has ended, or   *)
(* is about to make a client, has none reading.  async_stop sets its flag  *)
(* before it suspends, and suspends only on a client that reads: a run     *)
(* that registers cannot be under way behind it.                           *)
(***************************************************************************)
EXTENDS Runtime, TLAPS

Off == sup.pc \in {"none", "ended"}

ListenerInv ==
    /\ Live \subseteq {current}
    /\ current \in Live => sup.pc \in {"polling", "watching"}
    /\ stopping => stopper # "none" /\ sup.pc # "registering"
    /\ stopper = "client" => stopping /\ Live = {}
    /\ stopper = "done" => Off
    /\ connected => sup.pc = "watching"

\* What the entry still has to stop is in its hooks.
EntryInv ==
    /\ running \subseteq hooks
    /\ entry \in {"unloaded", "preparing"} => hooks = {}
    /\ "fcm" \notin hooks => stopper = "client" \/ Off
    /\ stopper = "client" => entry \in {"stopping", "hooks"}
    /\ busy => entry = "stopping"
    /\ entry = "stopping" => stage \in 0 .. 2 /\ (stage >= 1 => stopper = "done")

Inv == TypeOK /\ ListenerInv /\ EntryInv
-----------------------------------------------------------------------------
(* The listener.                                                           *)

SupType == [pc : Phases, age : 0 .. HealthyRun, backoff : 0 .. MaxBackoff]

\* Every step of the listener keeps the types of its variables.
LEMMA ListenerTypes ==
    ASSUME FcmTypeOK, SupervisorStep \/ StopResumes \/ Library \/ AsyncStop \/ AsyncStart
    PROVE  FcmTypeOK'
<1> DEFINE Rest == /\ client \in [Clients -> {"none", "made", "starting", "started", "stopping", "stopped"}]
                   /\ current \in Clients \union {NoClient}
                   /\ stopping \in BOOLEAN
                   /\ connected \in BOOLEAN
                   /\ stopper \in {"none", "client", "done"}
<1>0. sup \in SupType /\ Rest /\ (sup' \in SupType /\ Rest' => FcmTypeOK')
  BY DEF FcmTypeOK, SupType
<1>p. \A p \in {"none", "loop", "registering", "polling", "watching", "backoff", "ended"} : p \in Phases
  BY DEF Phases
<1>n. 0 \in 0 .. HealthyRun /\ 0 \in 0 .. MaxBackoff /\ sup.age \in 0 .. HealthyRun /\ sup.backoff \in 0 .. MaxBackoff
  BY <1>0, BackoffAssumption DEF SupType
<1>1. CASE SupervisorStep
  <2>1. Rest'
    BY <1>0, <1>1 DEF SupervisorStep, RunOnce, RegistrationFails, HealthCheckFails, HealthCheck,
       BackoffEnds, PollEnds, LoopEnds, Registered, WatchEnds, IsStarted
  <2>2. ASSUME RunOnce PROVE sup' \in SupType
    <3>1. sup' = [sup EXCEPT !.pc = "registering", !.age = 0]
      BY <2>2 DEF RunOnce
    <3> QED
      BY <1>0, <1>p, <1>n, <3>1 DEF SupType
  <2>3. ASSUME RegistrationFails \/ HealthCheckFails PROVE sup' \in SupType
    <3>1. sup' = [sup EXCEPT !.pc = "backoff", !.backoff = IF sup.age = HealthyRun THEN 0 ELSE sup.backoff]
      BY <2>3 DEF RegistrationFails, HealthCheckFails, AfterRun
    <3> QED
      BY <1>0, <1>p, <1>n, <3>1 DEF SupType
  <2>4. ASSUME HealthCheck PROVE sup' \in SupType
    <3>1. sup' = [sup EXCEPT !.age = IF sup.age = HealthyRun THEN sup.age ELSE sup.age + 1]
      BY <2>4 DEF HealthCheck
    <3>2. sup.age # HealthyRun => sup.age + 1 \in 0 .. HealthyRun
      BY <1>n, BackoffAssumption
    <3> QED
      BY <1>0, <1>p, <1>n, <3>1, <3>2 DEF SupType
  <2>5. ASSUME BackoffEnds PROVE sup' \in SupType
    <3>1. sup' = [sup EXCEPT !.pc = "loop", !.backoff = IF sup.backoff = MaxBackoff THEN sup.backoff ELSE sup.backoff + 1]
      BY <2>5 DEF BackoffEnds
    <3>2. sup.backoff # MaxBackoff => sup.backoff + 1 \in 0 .. MaxBackoff
      BY <1>n, BackoffAssumption
    <3> QED
      BY <1>0, <1>p, <1>n, <3>1, <3>2 DEF SupType
  <2>6. ASSUME PollEnds \/ LoopEnds \/ Registered \/ WatchEnds PROVE sup' \in SupType
    <3>1. \E p \in Phases : sup' = [sup EXCEPT !.pc = p]
      BY <1>p, <2>6 DEF PollEnds, LoopEnds, Registered, WatchEnds, Goes
    <3> QED
      BY <1>0, <3>1 DEF SupType
  <2> QED
    BY <1>0, <1>1, <2>1, <2>2, <2>3, <2>4, <2>5, <2>6 DEF SupervisorStep
<1>2. CASE StopResumes \/ AsyncStop
  <2>1. Rest'
    BY <1>0, <1>2 DEF StopResumes, AsyncStop, StopNow, StopsClient, Ends
  <2>2. sup' = sup \/ sup' = [sup EXCEPT !.pc = "ended"]
    BY <1>2 DEF StopResumes, AsyncStop, StopNow, StopsClient, Ends, Cancelled
  <2> QED
    BY <1>0, <1>p, <2>1, <2>2 DEF SupType
<1>3. CASE Library
  BY <1>0, <1>3 DEF Library, Login, ShutsItselfDown
<1>4. CASE AsyncStart
  <2>1. sup' = [pc |-> "loop", age |-> 0, backoff |-> 0]
    BY <1>4 DEF AsyncStart, NoTask
  <2>2. sup' \in SupType
    BY <1>p, <1>n, <2>1 DEF SupType
  <2> QED
    BY <1>0, <1>4, <2>2 DEF AsyncStart
<1> QED
  BY <1>1, <1>2, <1>3, <1>4

\* The supervisor and the library keep the listener's invariant.
LEMMA SupervisorKeeps ==
    ASSUME FcmTypeOK, ListenerInv, SupervisorStep \/ Library
    PROVE  ListenerInv' /\ stopper' = stopper /\ (Off => Off')
<1> USE ClientAssumption DEF FcmTypeOK, Live, Off
<1>1. CASE RunOnce
  <2>1. Live = {}
    BY <1>1 DEF RunOnce, ListenerInv
  <2>2. PICK k \in Clients : client' = [client EXCEPT ![k] = "made"] /\ current' = k
    BY <1>1 DEF RunOnce
  <2>3. Live' = {}
    BY <2>1, <2>2
  <2> QED
    BY <1>1, <2>3 DEF RunOnce, GoesOn, ListenerInv
<1>2. CASE Registered
  <2>1. Live' \subseteq Live \union {current} /\ ~stopping /\ stopper \notin {"client", "done"}
    BY <1>2 DEF Registered, ListenerInv
  <2> QED
    BY <1>2, <2>1 DEF Registered, ListenerInv, Goes
<1>3. CASE RegistrationFails \/ HealthCheckFails
  <2>1. current \notin Live
    BY <1>3 DEF RegistrationFails, HealthCheckFails, GivenUp, Dead, ListenerInv
  <2>2. Live' = Live /\ current' = current /\ sup'.pc = "backoff" /\ sup.pc \in {"registering", "watching"}
    BY <1>3 DEF RegistrationFails, HealthCheckFails, AfterRun
  <2>3. stopping' = stopping /\ stopper' = stopper /\ (connected' => connected /\ sup.pc = "registering")
    BY <1>3 DEF RegistrationFails, HealthCheckFails
  <2> QED
    BY <2>1, <2>2, <2>3 DEF ListenerInv
<1>4. CASE PollEnds \/ HealthCheck
  <2>1. UNCHANGED <<client, current, stopping, stopper>> /\ sup'.pc = "watching" /\ sup.pc \in {"polling", "watching"}
    BY <1>4 DEF PollEnds, HealthCheck, Goes
  <2> QED
    BY <2>1 DEF ListenerInv
<1>5. CASE LoopEnds \/ BackoffEnds
  <2>1. /\ UNCHANGED <<client, current, stopping, stopper, connected>>
        /\ sup.pc \in {"loop", "backoff"} /\ sup'.pc \in {"ended", "loop"}
    BY <1>5 DEF LoopEnds, BackoffEnds, Goes
  <2> QED
    BY <2>1 DEF ListenerInv
<1>6. CASE WatchEnds
  <2>1. UNCHANGED <<client, current, stopping, stopper>> /\ sup'.pc = "ended" /\ ~connected' /\ stopping
    BY <1>6 DEF WatchEnds, Goes
  <2>2. Live = {}
    BY <1>6, <2>1 DEF WatchEnds, ListenerInv
  <2> QED
    BY <2>1, <2>2 DEF ListenerInv
<1>7. CASE Library
  <2>1. PICK k \in Clients : Login(k) \/ ShutsItselfDown(k)
    BY <1>7 DEF Library
  <2>2. Live' \subseteq Live /\ UNCHANGED <<current, sup, stopping, connected, stopper>>
    BY <2>1 DEF Login, ShutsItselfDown
  <2> QED
    BY <2>2 DEF ListenerInv
<1> QED
  BY <1>1, <1>2, <1>3, <1>4, <1>5, <1>6, <1>7 DEF SupervisorStep

\* async_stop ends the supervisor, or waits for the client with its flag set.
LEMMA StopKeeps ==
    ASSUME FcmTypeOK, ListenerInv, ~StopSuspends, AsyncStop \/ StopResumes
    PROVE  /\ ListenerInv'
           /\ (stopper' = "client" /\ AsyncStop) \/ (stopper' = "done" /\ Off')
<1> USE ClientAssumption DEF FcmTypeOK, Live, Off
<1>1. CASE StopNow
  <2>1. Live = {}
    BY <1>1 DEF StopNow, StopSuspended, ListenerInv
  <2>2. Live' = {}
    BY <1>1, <2>1 DEF StopNow
  <2>3. current' = NoClient /\ ~connected' /\ stopper' = "done" /\ Off'
    BY <1>1 DEF StopNow, Ends, Cancelled
  <2> QED
    BY <2>2, <2>3 DEF ListenerInv
<1>2. CASE StopsClient
  <2>1. current \in Live /\ stopping' /\ stopper' = "client"
    BY <1>2 DEF StopsClient, StopSuspended
  <2>2. Live' = {}
    BY <1>2, <2>1 DEF StopsClient, ListenerInv
  <2> QED
    BY <1>2, <2>1, <2>2 DEF StopsClient, AsyncStop, ListenerInv
<1>3. CASE StopResumes
  <2>1. Live = {}
    BY <1>3 DEF StopResumes, ListenerInv
  <2>2. Live' = {}
    BY <1>3, <2>1 DEF StopResumes
  <2>3. current' = NoClient /\ ~connected' /\ stopper' = "done" /\ Off'
    BY <1>3 DEF StopResumes, Ends, Cancelled
  <2> QED
    BY <2>2, <2>3 DEF ListenerInv
<1> QED
  BY <1>1, <1>2, <1>3 DEF AsyncStop

\* A listener that starts finds no client reading, if the one before is off.
LEMMA StartKeeps ==
    ASSUME FcmTypeOK, ListenerInv, Off, AsyncStart
    PROVE  ListenerInv' /\ stopper' = "none"
<1>1. Live = {}
  BY DEF ListenerInv, Off
<1> QED
  BY <1>1 DEF AsyncStart, ListenerInv, Live, NoTask, Off
-----------------------------------------------------------------------------
(* The entry.                                                              *)

\* Nothing runs before the first set-up.
LEMMA InvInit == Init => Inv
<1> SUFFICES ASSUME Init PROVE Inv
  OBVIOUS
<1>1. sup \in SupType /\ sup.pc = "none"
  BY BackoffAssumption DEF Init, FcmInit, NoTask, SupType, Phases
<1>2. TypeOK
  <2>1. FcmTypeOK
    BY <1>1 DEF Init, FcmInit, FcmTypeOK, SupType
  <2>2. entry = "unloaded" /\ stage = 0 /\ busy = FALSE /\ running = {} /\ hooks = {}
    BY DEF Init
  <2>3. stage \in 0 .. 3
    BY <2>2
  <2>5. busy \in BOOLEAN
    BY <2>2, Zenon
  <2>4. running \in SUBSET Components /\ hooks \in SUBSET (Components \union {"fcm"})
    BY <2>2
  <2> QED
    BY <2>1, <2>2, <2>3, <2>4, <2>5 DEF TypeOK
<1>3. ListenerInv /\ EntryInv
  BY <1>1 DEF Init, FcmInit, ListenerInv, EntryInv, Live, Off
<1> QED
  BY <1>2, <1>3 DEF Inv

\* A step that leaves the listener alone keeps what is said of it.
LEMMA ListenerAlone ==
    ASSUME FcmTypeOK, ListenerInv, UNCHANGED fcmVars
    PROVE  FcmTypeOK' /\ ListenerInv' /\ stopper' = stopper /\ Off' = Off
  BY DEF fcmVars, FcmTypeOK, ListenerInv, Live, Off

\* Every step keeps the invariant.
LEMMA InvStep == ASSUME ~StopSuspends, Inv, [Next]_vars PROVE Inv'
<1> USE DEF TypeOK, EntryInv
<1>1. CASE SetupBegins \/ SetupDone \/ SetupFails
  BY <1>1, ListenerAlone DEF SetupBegins, SetupDone, SetupFails, Becomes, Inv
<1>2. CASE SetupStarts
  <2>1. hooks = {} /\ stopper # "client" /\ ~busy
    BY <1>2 DEF SetupStarts, Inv
  <2>2. Off
    BY <2>1 DEF Inv
  <2>3. FcmTypeOK' /\ ListenerInv' /\ stopper' = "none"
    BY <1>2, <2>2, ListenerTypes, StartKeeps DEF SetupStarts, Inv
  <2>4. entry' = "platforms" /\ running' = Components /\ hooks' = Hooks /\ UNCHANGED <<stage, busy>>
    BY <1>2 DEF SetupStarts
  <2>5. "fcm" \in hooks' /\ running' \subseteq hooks'
    BY <2>4 DEF Hooks
  <2> QED
    BY <2>1, <2>3, <2>4, <2>5 DEF Inv, Hooks
<1>3. CASE UnloadBegins \/ UnloadRefused \/ PlatformsUnloaded
  BY <1>3, ListenerAlone DEF UnloadBegins, UnloadRefused, PlatformsUnloaded, Becomes, Inv
<1>4. CASE StopBegins
  <2>1. entry = "stopping" /\ stage \in 0 .. 2 /\ busy' = TRUE /\ UNCHANGED <<entry, stage, running, hooks>>
    BY <1>4 DEF StopBegins, Inv
  <2>2. CASE stage = 0
    <3>1. AsyncStop
      BY <1>4, <2>2 DEF StopBegins, StopOrder
    <3>2. FcmTypeOK' /\ ListenerInv' /\ (stopper' = "client" \/ Off')
      BY <3>1, ListenerTypes, StopKeeps DEF Inv
    <3> QED
      BY <2>1, <2>2, <3>2 DEF Inv
  <2>3. CASE stage \in {1, 2}
    <3>1. UNCHANGED fcmVars
      BY <1>4, <2>3 DEF StopBegins, StopOrder
    <3> QED
      BY <2>1, <3>1, ListenerAlone DEF Inv
  <2> QED
    BY <2>1, <2>2, <2>3
<1>5. CASE StopEnds
  <2>1. entry = "stopping" /\ stage \in 0 .. 2 /\ busy' = FALSE /\ stage' = stage + 1 /\ UNCHANGED fcmVars
    BY <1>5 DEF StopEnds, Inv
  <2>2. stopper = "done"
    BY <1>5, <2>1 DEF StopEnds, StopOrder, Inv
  <2>3. running' \subseteq running /\ hooks' = hooks /\ stage' \in 1 .. 3
    BY <1>5, <2>1 DEF StopEnds
  <2>4. entry' \in {"stopping", "hooks"} /\ (entry' = "stopping" => stage' \in 1 .. 2)
    BY <1>5, <2>1 DEF StopEnds, StopOrder
  <2>5. FcmTypeOK' /\ ListenerInv' /\ stopper' = stopper /\ Off' = Off
    BY <2>1, ListenerAlone DEF Inv
  <2>6. TypeOK'
    <3>1. running \in SUBSET Components /\ hooks \in SUBSET (Components \union {"fcm"})
      BY DEF Inv
    <3>2. running' \in SUBSET Components /\ hooks' \in SUBSET (Components \union {"fcm"})
      BY <2>3, <3>1
    <3>3. stage' \in 0 .. 3
      BY <2>3
    <3> QED
      BY <2>1, <2>4, <2>5, <3>2, <3>3
  <2>7. EntryInv'
    BY <2>1, <2>2, <2>3, <2>4, <2>5 DEF Inv
  <2> QED
    BY <2>5, <2>6, <2>7 DEF Inv
<1>6. CASE Hook
  <2>1. CASE HooksDone
    BY <2>1, ListenerAlone DEF HooksDone, Becomes, Inv
  <2>2. CASE \E c \in Hooks : RunHook(c)
    <3>1. PICK c \in Hooks : RunHook(c)
      BY <2>2
    <3>2. /\ entry = "hooks" /\ hooks' = hooks \ {c} /\ running' = running \ {c}
          /\ UNCHANGED <<entry, stage, busy>>
      BY <3>1 DEF RunHook
    <3>3. CASE c = "fcm"
      <4>1. AsyncStop
        BY <3>1, <3>3 DEF RunHook
      <4>2. FcmTypeOK' /\ ListenerInv' /\ (stopper' = "client" \/ Off')
        BY <4>1, ListenerTypes, StopKeeps DEF Inv
      <4> QED
        BY <3>2, <4>2 DEF Inv
    <3>4. CASE c # "fcm"
      <4>1. UNCHANGED fcmVars
        BY <3>1, <3>4 DEF RunHook
      <4> QED
        BY <3>2, <3>4, <4>1, ListenerAlone DEF Inv
    <3> QED
      BY <3>3, <3>4
  <2> QED
    BY <1>6, <2>1, <2>2 DEF Hook
<1>7. CASE Listener
  <2>1. UNCHANGED <<entry, stage, busy, running, hooks>>
    BY <1>7 DEF Listener, entryVars
  <2>2. CASE SupervisorStep \/ Library
    <3>1. FcmTypeOK' /\ ListenerInv' /\ stopper' = stopper /\ (Off => Off')
      BY <2>2, ListenerTypes, SupervisorKeeps DEF Inv
    <3> QED
      BY <2>1, <3>1 DEF Inv
  <2>3. CASE StopResumes
    <3>1. FcmTypeOK' /\ ListenerInv' /\ stopper = "client" /\ stopper' = "done" /\ Off'
      BY <2>3, ListenerTypes, StopKeeps DEF Inv, StopResumes, Ends
    <3> QED
      BY <2>1, <3>1 DEF Inv
  <2> QED
    BY <1>7, <2>2, <2>3 DEF Listener
<1>8. CASE UNCHANGED vars
  BY <1>8, ListenerAlone DEF vars, entryVars, Inv
<1> QED
  BY <1>1, <1>2, <1>3, <1>4, <1>5, <1>6, <1>7, <1>8 DEF Next, Setup, Unload
-----------------------------------------------------------------------------
(* The theorems.                                                           *)

\* The invariant, if the stop of a client that was not started is immediate.
LEMMA Invariant == ASSUME ~StopSuspends PROVE Spec => []Inv
<1>1. Inv /\ [Next]_vars => Inv'
  BY InvStep
<1> QED
  BY <1>1, InvInit, PTL DEF Spec

\* No push client outlives the supervisor that made it.
THEOREM NeverAnOrphan == ASSUME ~StopSuspends PROVE Spec => []NoOrphan
<1>1. Inv => NoOrphan
  BY DEF Inv, ListenerInv, NoOrphan
<1> QED
  BY <1>1, Invariant, PTL

\* An unload stops the push source before the call manager.
THEOREM PushSourceStopsFirst == ASSUME ~StopSuspends PROVE Spec => []PushSourceFirst
<1>1. Inv => PushSourceFirst
  BY DEF Inv, ListenerInv, EntryInv, PushSourceFirst, Off
<1> QED
  BY <1>1, Invariant, PTL

\* An entry that is not set up runs nothing, and its unload was ordered.
THEOREM AlwaysQuiet == ASSUME ~StopSuspends PROVE Spec => []UnloadedIsQuiet
<1>1. Inv /\ PushSourceFirst => UnloadedIsQuiet
  BY DEF Inv, ListenerInv, EntryInv, UnloadedIsQuiet, Off
<1> QED
  BY <1>1, Invariant, PushSourceStopsFirst, PTL
-----------------------------------------------------------------------------
(* What Reconnects rests on, for the waits that fairness lets end.         *)

\* While the entry is set up, and until its unload stops the listener, the
\* supervisor is at work, with a client to register, to wait for or to watch.
\* The sensor is on only while it watches one.
Attended ==
    /\ entry \in {"platforms", "loaded", "unloading", "stuck"} =>
        /\ ~stopping /\ stopper = "none"
        /\ sup.pc \notin {"none", "ended"}
    /\ sup.pc \in {"registering", "polling", "watching"} => current # NoClient
    /\ connected => sup.pc = "watching"

LEMMA ListenerAttended ==
    ASSUME FcmTypeOK, Attended, Listener
    PROVE  Attended'
<1>1. /\ UNCHANGED entry
      /\ sup \in SupType /\ NoClient \notin Clients
  BY ClientAssumption DEF Listener, entryVars, FcmTypeOK, SupType
<1>2. CASE RunOnce
  BY <1>1, <1>2 DEF RunOnce, Attended, SupType
<1>3. CASE HealthCheck \/ PollEnds \/ Registered
  <2>1. /\ sup.pc \in {"registering", "polling", "watching"} /\ sup'.pc \in {"polling", "watching"}
        /\ UNCHANGED <<current, stopping, stopper>>
        /\ sup'.pc = "watching" \/ (connected' = connected /\ sup.pc = "registering")
    BY <1>1, <1>3 DEF HealthCheck, PollEnds, Registered, Goes, SupType
  <2> QED
    BY <1>1, <2>1 DEF Attended
<1>4. CASE RegistrationFails \/ HealthCheckFails \/ BackoffEnds
  <2>1. /\ sup.pc \in {"registering", "watching", "backoff"} /\ sup'.pc \in {"backoff", "loop"}
        /\ UNCHANGED <<current, stopping, stopper>>
        /\ ~connected' \/ (connected' = connected /\ sup.pc # "watching")
    BY <1>1, <1>4 DEF RegistrationFails, HealthCheckFails, BackoffEnds, AfterRun, SupType
  <2> QED
    BY <1>1, <2>1 DEF Attended
<1>5. CASE LoopEnds \/ WatchEnds
  BY <1>1, <1>5 DEF LoopEnds, WatchEnds, Goes, GoesOn, Attended, SupType
<1>6. CASE StopResumes
  BY <1>1, <1>6 DEF StopResumes, Ends, Cancelled, Attended, SupType
<1>7. CASE Library
  BY <1>1, <1>7 DEF Library, Login, ShutsItselfDown, Attended
<1> QED
  BY <1>2, <1>3, <1>4, <1>5, <1>6, <1>7 DEF Listener, SupervisorStep

LEMMA AttendedStep == FcmTypeOK /\ Attended /\ [Next]_vars => Attended'
<1> SUFFICES ASSUME FcmTypeOK, Attended, [Next]_vars PROVE Attended'
  OBVIOUS
<1>1. sup \in SupType
  BY DEF FcmTypeOK, SupType
<1>2. ASSUME AsyncStop, entry' \in {"stopping", "hooks"} PROVE Attended'
  <2>1. CASE StopNow
    <3>1. sup' = Cancelled /\ connected' = FALSE
      BY <2>1 DEF StopNow, Ends
    <3>2. sup'.pc \in {"none", "ended"}
      BY <1>1, <3>1 DEF Cancelled, SupType
    <3> QED
      BY <1>2, <3>1, <3>2 DEF Attended
  <2>2. CASE StopsClient
    BY <1>2, <2>2 DEF StopsClient, Attended
  <2> QED
    BY <1>2, <2>1, <2>2 DEF AsyncStop
<1>3. ASSUME UNCHANGED fcmVars,
             entry \in {"platforms", "loaded", "unloading", "stuck"}
               \/ entry' \notin {"platforms", "loaded", "unloading", "stuck"}
      PROVE  Attended'
  BY <1>3 DEF fcmVars, Attended
<1>4. CASE SetupStarts
  BY <1>4 DEF SetupStarts, AsyncStart, NoTask, Attended
<1>5. CASE SetupBegins \/ SetupDone \/ SetupFails \/ UnloadBegins \/ UnloadRefused \/ PlatformsUnloaded \/ HooksDone
  BY <1>3, <1>5 DEF SetupBegins, SetupDone, SetupFails, UnloadBegins, UnloadRefused, PlatformsUnloaded,
                    HooksDone, Becomes
<1>6. CASE StopBegins
  BY <1>2, <1>3, <1>6 DEF StopBegins
<1>7. CASE StopEnds
  BY <1>3, <1>7 DEF StopEnds
<1>8. CASE \E c \in Hooks : RunHook(c)
  BY <1>2, <1>3, <1>8 DEF RunHook
<1>9. CASE Listener
  BY <1>9, ListenerAttended
<1>10. CASE UNCHANGED vars
  BY <1>3, <1>10 DEF vars, entryVars
<1> QED
  BY <1>4, <1>5, <1>6, <1>7, <1>8, <1>9, <1>10 DEF Next, Setup, Unload, Hook

\* A listener that is set up is never left to itself, whatever its client, its
\* set-ups and the stops of earlier entries do: a stop never outlives its entry.
THEOREM ListenerAlwaysAttended == Spec => []Attended
<1>1. Init => FcmTypeOK /\ Attended
  <2>1. Init => FcmTypeOK
    BY InvInit DEF Inv, TypeOK
  <2>2. Init => Attended
    BY DEF Init, FcmInit, Attended, NoTask
  <2> QED
    BY <2>1, <2>2
<1>2. FcmTypeOK /\ [Next]_vars => FcmTypeOK'
  <2>1. UNCHANGED fcmVars => (FcmTypeOK => FcmTypeOK')
    BY DEF fcmVars, FcmTypeOK
  <2> QED
    BY <2>1, ListenerTypes
       DEF Next, Setup, Unload, Hook, Listener, vars, SetupStarts, SetupBegins, SetupDone, SetupFails,
           UnloadBegins, UnloadRefused, PlatformsUnloaded, StopBegins, StopEnds, RunHook, HooksDone
<1> QED
  BY <1>1, <1>2, AttendedStep, PTL DEF Spec
=============================================================================
