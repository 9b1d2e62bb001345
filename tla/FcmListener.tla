----------------------------- MODULE FcmListener -----------------------------
(***************************************************************************)
(* FcmListener (fcm_listener.py): the supervisor that keeps one push       *)
(* client of firebase_messaging running, and async_stop, which comes at    *)
(* any of its awaits.  Set-up and unload, which start and stop it, are in  *)
(* Runtime; what the token is checked against is in Pairing.               *)
(***************************************************************************)
EXTENDS Naturals, FiniteSets

CONSTANTS
    Clients,     \* bound: push clients at a time; one that ended is used again
    NoClient,
    MaxBackoff,  \* doublings from BACKOFF_INITIAL_S to BACKOFF_MAX_S
    HealthyRun,  \* health checks a run survives within HEALTHY_RUN_S
    StopSuspends \* stop() of a client that was not started suspends

ASSUME ClientAssumption == NoClient \notin Clients
ASSUME BackoffAssumption == MaxBackoff \in Nat /\ HealthyRun \in Nat
ASSUME StopAssumption == StopSuspends \in BOOLEAN

VARIABLES
    client,    \* the push clients: run_state
    current,   \* _client
    sup,       \* _task: where the supervisor waits, the health checks its
               \* run has survived, the backoff
    stopping,  \* _stopping
    connected, \* _connected, which the connectivity sensor shows
    stopper    \* where async_stop waits

fcmVars == <<client, current, sup, stopping, connected, stopper>>

Phases == {"none", "loop", "registering", "polling", "watching", "backoff", "ended"}

FcmTypeOK ==
    /\ client \in [Clients -> {"none", "made", "starting", "started", "stopping", "stopped"}]
    /\ current \in Clients \union {NoClient}
    /\ sup \in [pc : Phases, age : 0 .. HealthyRun, backoff : 0 .. MaxBackoff]
    /\ stopping \in BOOLEAN
    /\ connected \in BOOLEAN
    /\ stopper \in {"none", "client", "done"}

NoTask == [pc |-> "none", age |-> 0, backoff |-> 0]

FcmInit ==
    /\ client = [k \in Clients |-> "none"]
    /\ current = NoClient
    /\ sup = NoTask
    /\ stopping = FALSE
    /\ connected = FALSE
    /\ stopper = "none"

\* A client whose tasks run: it reads the push channel.
Live == {k \in Clients : client[k] \in {"starting", "started"}}
IsStarted == current # NoClient /\ client[current] = "started"
Dead == current # NoClient /\ client[current] \in {"stopping", "stopped"}
-----------------------------------------------------------------------------
(* The library, external.                                                  *)

\* A login succeeds.
Login(k) ==
    /\ client[k] = "starting"
    /\ client' = [client EXCEPT ![k] = "started"]
    /\ UNCHANGED <<current, sup, stopping, connected, stopper>>

\* Three errors in a row: the client shuts itself down and raises nothing.
ShutsItselfDown(k) ==
    /\ k \in Live
    /\ client' = [client EXCEPT ![k] = "stopping"]
    /\ UNCHANGED <<current, sup, stopping, connected, stopper>>
-----------------------------------------------------------------------------
(* async_start and _supervisor.                                            *)

\* On an object of its own.
AsyncStart ==
    /\ stopping' = FALSE
    /\ stopper' = "none"
    /\ current' = NoClient
    /\ connected' = FALSE
    /\ sup' = [NoTask EXCEPT !.pc = "loop"]
    /\ UNCHANGED client

Goes(pc) == sup' = [sup EXCEPT !.pc = pc]

\* The guard of the loop.
\* Mutant: it runs for ever.
ForEver == TRUE
GoesOn == ~stopping

\* _run_once makes a client of its own, which registers.
RunOnce ==
    /\ sup.pc = "loop"
    /\ GoesOn
    /\ \E k \in Clients :
        /\ k \notin Live
        /\ client' = [client EXCEPT ![k] = "made"]
        /\ current' = k
    /\ sup' = [sup EXCEPT !.pc = "registering", !.age = 0]
    /\ UNCHANGED <<stopping, connected, stopper>>

LoopEnds ==
    /\ sup.pc = "loop"
    /\ ~GoesOn
    /\ Goes("ended")
    /\ UNCHANGED <<client, current, stopping, connected, stopper>>

\* checkin_or_register answers; the client is started.
Registered ==
    /\ sup.pc = "registering"
    /\ client' = [client EXCEPT ![current] = "starting"]
    /\ Goes("polling")
    /\ UNCHANGED <<current, stopping, connected, stopper>>

\* A run that was healthy starts a fresh incident.
AfterRun(s) == [s EXCEPT !.pc = "backoff", !.backoff = IF s.age = HealthyRun THEN 0 ELSE @]

RegistrationFails ==
    /\ sup.pc = "registering"
    /\ sup' = AfterRun(sup)
    /\ UNCHANGED <<client, current, stopping, connected, stopper>>

\* The polls for the login end, with it or by their deadline.
PollEnds ==
    /\ sup.pc = "polling"
    /\ connected' = IsStarted
    /\ Goes("watching")
    /\ UNCHANGED <<client, current, stopping, stopper>>

\* A client in this state has given up.
\* Mutant: only one that was stopped counts.
StoppedOnly == current # NoClient /\ client[current] = "stopped"
GivenUp == Dead

HealthCheckFails ==
    /\ sup.pc = "watching"
    /\ GivenUp
    /\ sup' = AfterRun(sup)
    /\ connected' = FALSE
    /\ UNCHANGED <<client, current, stopping, stopper>>

HealthCheck ==
    /\ sup.pc = "watching"
    /\ ~GivenUp /\ ~stopping
    /\ connected' = IsStarted
    /\ sup' = [sup EXCEPT !.age = IF @ = HealthyRun THEN @ ELSE @ + 1]
    /\ UNCHANGED <<client, current, stopping, stopper>>

\* The run ends because a stop is under way.
WatchEnds ==
    /\ sup.pc = "watching"
    /\ ~GivenUp /\ stopping
    /\ connected' = FALSE
    /\ Goes("ended")
    /\ UNCHANGED <<client, current, stopping, stopper>>

BackoffEnds ==
    /\ sup.pc = "backoff"
    /\ sup' = [sup EXCEPT !.pc = "loop", !.backoff = IF @ = MaxBackoff THEN @ ELSE @ + 1]
    /\ UNCHANGED <<client, current, stopping, connected, stopper>>
-----------------------------------------------------------------------------
(* async_stop, run once by the unload and once more by its hook.           *)

\* The client is stopped first; the supervisor runs meanwhile.
StopSuspended ==
    current # NoClient /\ (current \in Live \/ (StopSuspends /\ client[current] = "made"))

\* The supervisor is cancelled at whatever it awaits.
\* Mutant: it is left to see the flag.
LeftToItself == sup
Cancelled == IF sup.pc = "none" THEN sup ELSE [sup EXCEPT !.pc = "ended"]

Ends ==
    /\ current' = NoClient
    /\ sup' = Cancelled
    /\ connected' = FALSE
    /\ stopper' = "done"

StopNow ==
    /\ ~StopSuspended
    /\ stopping' = TRUE
    /\ Ends
    /\ client' = [k \in Clients |-> IF k = current THEN "stopped" ELSE client[k]]

StopsClient ==
    /\ StopSuspended
    /\ stopping' = TRUE
    /\ stopper' = "client"
    /\ client' = [client EXCEPT ![current] = IF @ = "made" THEN @ ELSE "stopping"]
    /\ UNCHANGED <<current, sup, connected>>

\* client.stop() returns.
StopResumes ==
    /\ stopper = "client"
    /\ Ends
    /\ client' = [k \in Clients |-> IF client[k] = "stopping" THEN "stopped" ELSE client[k]]
    /\ UNCHANGED stopping

AsyncStop == StopNow \/ StopsClient
-----------------------------------------------------------------------------
SupervisorStep ==
    \/ RunOnce
    \/ LoopEnds
    \/ Registered
    \/ RegistrationFails
    \/ PollEnds
    \/ HealthCheckFails
    \/ HealthCheck
    \/ WatchEnds
    \/ BackoffEnds

Library == \E k \in Clients : Login(k) \/ ShutsItselfDown(k)
=============================================================================
