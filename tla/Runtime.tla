------------------------------- MODULE Runtime -------------------------------
(***************************************************************************)
(* Set-up and unload of the config entry (__init__.py) over the push       *)
(* listener: set-ups that fail at any of their awaits and are retried, the *)
(* hooks that Home Assistant then runs as concurrent tasks, the unload,    *)
(* which stops the components in order before the hooks run again.  The    *)
(* call manager and the timer of the REST client are reduced to running or *)
(* not (their detail is in CallManager and RestApi).                       *)
(***************************************************************************)
EXTENDS FcmListener, Sequences

VARIABLES
    entry,   \* what Home Assistant is doing with the entry
    stage,   \* async_unload_entry: the stops that have ended
    busy,    \* it awaits the next one
    running, \* the components that were started, besides the listener
    hooks    \* async_on_unload: the stops registered and still to run

Components == {"manager", "timer"}
entryVars == <<entry, stage, busy, running, hooks>>
vars == <<fcmVars, entryVars>>

TypeOK ==
    /\ FcmTypeOK
    /\ entry \in {"unloaded", "preparing", "platforms", "loaded", "unloading", "stuck", "stopping", "hooks"}
    /\ stage \in 0 .. 3
    /\ busy \in BOOLEAN
    /\ running \in SUBSET Components
    /\ hooks \in SUBSET (Components \union {"fcm"})

Init ==
    /\ FcmInit
    /\ entry = "unloaded"
    /\ stage = 0
    /\ busy = FALSE
    /\ running = {}
    /\ hooks = {}
-----------------------------------------------------------------------------
(* async_setup_entry.                                                      *)

Becomes(state) ==
    /\ entry' = state
    /\ UNCHANGED <<stage, busy, running, hooks>>

\* The store is loaded, old credentials are migrated, the address is found.
SetupBegins ==
    /\ entry = "unloaded"
    /\ Becomes("preparing")
    /\ UNCHANGED fcmVars

\* Each component registers its stop once it runs.
\* Mutant: the listener does not.
HooksButFcm == Components
Hooks == Components \union {"fcm"}

\* No await suspends between the start of the call manager and the platforms.
SetupStarts ==
    /\ entry = "preparing"
    /\ entry' = "platforms"
    /\ AsyncStart
    /\ running' = Components
    /\ hooks' = Hooks
    /\ UNCHANGED <<stage, busy>>

SetupDone ==
    /\ entry = "platforms"
    /\ Becomes("loaded")
    /\ UNCHANGED fcmVars

\* Missing credentials, no address, a platform that raises.
SetupFails ==
    /\ entry \in {"preparing", "platforms"}
    /\ Becomes("hooks")
    /\ UNCHANGED fcmVars
-----------------------------------------------------------------------------
(* async_unload_entry.                                                     *)

UnloadBegins ==
    /\ entry = "loaded"
    /\ Becomes("unloading")
    /\ UNCHANGED fcmVars

\* A platform that cannot be unloaded leaves the rest running; Home Assistant
\* does not try again.
UnloadRefused ==
    /\ entry = "unloading"
    /\ Becomes("stuck")
    /\ UNCHANGED fcmVars

PlatformsUnloaded ==
    /\ entry = "unloading"
    /\ entry' = "stopping"
    /\ stage' = 0
    /\ UNCHANGED <<fcmVars, busy, running, hooks>>

\* The strict order: push source, SIP and audio, timer.
\* Mutant: the call manager first.
ManagerFirst == <<"manager", "fcm", "timer">>
StopOrder == <<"fcm", "manager", "timer">>

StopBegins ==
    /\ entry = "stopping"
    /\ ~busy
    /\ busy' = TRUE
    /\ IF StopOrder[stage + 1] = "fcm" THEN AsyncStop ELSE UNCHANGED fcmVars
    /\ UNCHANGED <<entry, stage, running, hooks>>

StopEnds ==
    /\ busy
    /\ StopOrder[stage + 1] = "fcm" => stopper = "done"
    /\ busy' = FALSE
    /\ running' = running \ {StopOrder[stage + 1]}
    /\ stage' = stage + 1
    /\ entry' = IF stage' = Len(StopOrder) THEN "hooks" ELSE entry
    /\ UNCHANGED <<fcmVars, hooks>>
-----------------------------------------------------------------------------
(* Home Assistant runs the hooks after an unload and after a set-up that   *)
(* failed, as tasks that run side by side, and waits for them.             *)

RunHook(c) ==
    /\ entry = "hooks"
    /\ c \in hooks
    /\ hooks' = hooks \ {c}
    /\ running' = running \ {c}
    /\ IF c = "fcm" THEN AsyncStop ELSE UNCHANGED fcmVars
    /\ UNCHANGED <<entry, stage, busy>>

HooksDone ==
    /\ entry = "hooks"
    /\ hooks = {}
    /\ stopper # "client"
    /\ Becomes("unloaded")
    /\ UNCHANGED fcmVars
-----------------------------------------------------------------------------
Setup == SetupBegins \/ SetupStarts \/ SetupDone \/ SetupFails
Unload == UnloadBegins \/ UnloadRefused \/ PlatformsUnloaded \/ StopBegins \/ StopEnds
Hook == HooksDone \/ \E c \in Hooks : RunHook(c)
Listener == (SupervisorStep \/ StopResumes \/ Library) /\ UNCHANGED entryVars

Next ==
    \/ Setup
    \/ Unload
    \/ Hook
    \/ Listener

Spec == Init /\ [][Next]_vars

\* Tasks run.  A registration and a login that are tried again and again
\* succeed one day, and one day a login outlives the interval of the checks.
FairSpec ==
    /\ Spec
    /\ WF_vars(SupervisorStep /\ UNCHANGED entryVars)
    /\ WF_vars(StopResumes /\ UNCHANGED entryVars)
    /\ SF_vars(Registered /\ UNCHANGED entryVars)
    /\ \A k \in Clients : SF_vars(Login(k) /\ UNCHANGED entryVars)
    /\ SF_vars((PollEnds \/ HealthCheck) /\ IsStarted /\ UNCHANGED entryVars)
-----------------------------------------------------------------------------
(* Properties.                                                             *)

\* Every client that reads the push channel is the one async_stop would stop:
\* none outlives the crash of a run, a stop during its registration or login,
\* or the supervisor waking up while a stop is under way.
NoOrphan == Live \subseteq {current}

\* An unload stops the push source before the call manager, for good: no push
\* is received during the teardown of a call.  The task of one that was received
\* before may still run (Races in Coordinator).
PushSourceFirst ==
    entry = "stopping" /\ stage >= 1 => Live = {} /\ sup.pc \in {"none", "ended"}

\* An entry that is not set up leaves nothing behind, wherever its set-up
\* failed or its unload found the listener, and it fell silent in order: a retry
\* starts no duplicate.
UnloadedIsQuiet ==
    /\ entry = "unloaded" =>
            running = {} /\ Live = {} /\ sup.pc \in {"none", "ended"} /\ ~connected
    /\ PushSourceFirst

\* A listener whose client gave up, which raises nothing, is connected again,
\* and its sensor shows it, unless the entry is unloaded.
Reconnects ==
    (entry \in {"loaded", "stuck"} /\ ~connected) ~> (connected \/ entry = "unloading")
=============================================================================
