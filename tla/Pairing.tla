------------------------------- MODULE Pairing -------------------------------
(***************************************************************************)
(* The credentials of one Intratone account: the file of store.py, which   *)
(* the running entry and every flow open as a store of their own, each     *)
(* with its cache; the push token Google gave for them and the one         *)
(* Intratone pushes to (fcm_listener.py); the flows that pair an account   *)
(* (config_flow.py), pair it again after a reauth, and repair a stale      *)
(* token (repairs.py); set-up, unload and removal of the entry             *)
(* (__init__.py).                                                          *)
(*                                                                         *)
(* Tokens are numbered in the order Google issues them, and the            *)
(* credentials that give a token have its number.                          *)
(***************************************************************************)
EXTENDS Naturals, FiniteSets

CONSTANTS
    MaxTokens, \* bound: tokens Google issues
    Reserved,  \* bound: the last of them, which no flow takes
    MaxLate,   \* bound: late writes of earlier entries to come at a time
    Flows,     \* dialogs a user can have open
    Races      \* "flows": two at work on the entry at a time; "removal": the
               \* entry is removed under one, or under an operation of its own;
               \* "behind": a flow begins with credentials other than those of
               \* a token that works (Behind)

ASSUME TokensAssumption == MaxTokens \in Nat /\ Reserved \in 0 .. MaxTokens
ASSUME LateAssumption == MaxLate \in Nat
ASSUME RacesAssumption == Races \subseteq {"flows", "removal", "behind"}

None == 0
Tokens == 1 .. MaxTokens
NoCreds == [token |-> None, creds |-> None]

VARIABLES
    issued,  \* how many tokens Google has issued
    dead,    \* those it no longer honours
    target,  \* the token Intratone pushes to, for the device of the entry
    file,    \* .storage/intratone.<account>.creds
    entry,   \* the config entry: "none", "down", "loaded"
    reload,  \* a reload is scheduled
    cache,   \* the store of the running entry, or of the one last unloaded
    writing, \* its write in flight
    rotated, \* credentials that _persist_creds has yet to store
    late,    \* what the stores of earlier entries may still write
    fcm,     \* the listener, and the token it listens on
    issue,   \* the repair "fcm_token_stale" is raised
    flow     \* the flows: kind, where they are, what they hold

google == <<issued, dead>>
running == <<cache, writing, rotated, late>>
vars == <<google, target, file, entry, reload, running, fcm, issue, flow>>

Kinds == {"pair", "silent", "reauth", "repair"}
Steps == {"form", "fcm", "register", "auth", "check", "load", "save", "video", "saved"}

\* Flows that register the device of the entry again.
Again == {"reauth", "repair"}

\* What a store holds.
Creds == [token : 0 .. issued, creds : 0 .. issued]

TypeOK ==
    /\ issued \in 0 .. MaxTokens
    /\ dead \subseteq 1 .. issued
    /\ target \in 0 .. issued
    /\ file \in Creds
    /\ entry \in {"none", "down", "loaded"}
    /\ reload \in BOOLEAN
    /\ cache \in Creds
    /\ writing \in Creds \union {NoCreds}
    /\ rotated \in 0 .. issued
    /\ late \subseteq Creds
    /\ fcm \in [pc : {"off", "registering", "login", "up"}, live : 0 .. issued]
    /\ issue \in BOOLEAN
    /\ flow \in [Flows -> [pc : Steps, kind : Kinds, creds : 0 .. issued, token : 0 .. issued]]

\* A form that was not submitted.
Blank == [pc |-> "form", kind |-> "pair", creds |-> None, token |-> None]

Init ==
    /\ issued = 0
    /\ dead = {}
    /\ target = None
    /\ file = NoCreds
    /\ entry = "none"
    /\ reload = FALSE
    /\ cache = NoCreds
    /\ writing = NoCreds
    /\ rotated = None
    /\ late = {}
    /\ fcm = [pc |-> "off", live |-> None]
    /\ issue = FALSE
    /\ flow = [f \in Flows |-> Blank]
-----------------------------------------------------------------------------
(* Google, external.                                                       *)

\* checkin_or_register: credentials it honours keep their token.
Registers(creds, token, limit) ==
    IF creds # None /\ creds \notin dead
    THEN token = creds /\ UNCHANGED issued
    ELSE issued < limit /\ token = issued + 1 /\ issued' = token

Rotate ==
    /\ \E t \in 1 .. issued \ dead : dead' = dead \union {t}
    /\ issued < MaxTokens - Reserved
    /\ UNCHANGED <<issued, target, file, entry, reload, running, fcm, issue, flow>>
-----------------------------------------------------------------------------
(* The running entry.                                                      *)

Off == [pc |-> "off", live |-> None]

\* What the store of the entry may still write when another takes its place:
\* the write in flight, the credentials of a _persist_creds under way, all it
\* holds for an operation that refreshes the JWT, or nothing.
Unfinished ==
    {cache, writing, [cache EXCEPT !.creds = IF rotated = None THEN @ ELSE rotated]} \ {NoCreds}

NothingPending == writing' = NoCreds /\ rotated' = None
Ended == NothingPending /\ late' = {}

Outlives ==
    /\ late' \in {late} \union {late \union {s} : s \in Unfinished}
    /\ Cardinality(late') <= MaxLate
    /\ NothingPending

\* async_setup_entry opens and loads a store of its own, waits for nothing
\* the old one has under way, and starts the listener.
Setup ==
    /\ entry = "down"
    /\ entry' = "loaded"
    /\ cache' = file
    /\ Outlives
    /\ fcm' = [pc |-> "registering", live |-> None]
    /\ UNCHANGED <<google, target, file, reload, issue, flow>>

\* A reload that a flow scheduled, or an update of the options: the listener
\* is stopped, what was begun with the store is not.
Unload ==
    /\ entry = "loaded"
    /\ entry' = "down"
    /\ reload' = FALSE
    /\ fcm' = Off
    /\ UNCHANGED <<google, target, file, running, issue, flow>>

\* Home Assistant stops or dies: so do the flows and the writes in flight.
Crash ==
    /\ entry = "loaded"
    /\ entry' = "down"
    /\ reload' = FALSE
    /\ fcm' = Off
    /\ cache' = NoCreds
    /\ Ended
    /\ flow' = [f \in Flows |-> Blank]
    /\ UNCHANGED <<google, target, file, issue>>

\* _run_once registers with the credentials of the store; new ones come back
\* through credentials_updated_callback.
ListenerRegisters ==
    /\ fcm.pc = "registering"
    /\ \E token \in Tokens :
        /\ Registers(cache.creds, token, MaxTokens)
        /\ fcm' = [pc |-> "login", live |-> token]
        /\ rotated' = IF token = cache.creds THEN rotated ELSE token
    /\ UNCHANGED <<dead, target, file, entry, reload, cache, writing, late, issue, flow>>

\* The registered token is not overwritten with the one that is live.
\* Mutant: it is.
Adopted == [cache EXCEPT !.token = fcm.live]
Kept == cache

\* _check_token_registration.
TokenChecked ==
    /\ fcm.pc = "login"
    /\ fcm' = [fcm EXCEPT !.pc = "up"]
    /\ issue' = (cache.token # None /\ fcm.live # cache.token)
    /\ cache' = Kept
    /\ UNCHANGED <<google, target, file, entry, reload, writing, rotated, late, flow>>

\* The client gives up; the supervisor runs it again.
ListenerCrashes ==
    /\ fcm.pc \in {"login", "up"}
    /\ fcm' = [pc |-> "registering", live |-> None]
    /\ UNCHANGED <<google, target, file, entry, reload, running, issue, flow>>

\* _persist_creds, a task that an unload leaves alone.
PersistCreds ==
    /\ rotated # None
    /\ cache' = [cache EXCEPT !.creds = rotated]
    /\ writing' = cache'
    /\ rotated' = None
    /\ UNCHANGED <<google, target, file, entry, reload, late, fcm, issue, flow>>

\* A refresh of the JWT is stored, and the whole cache with it; an operation
\* may ask for one after the unload.
JwtRefreshed ==
    /\ cache # NoCreds
    /\ writing' = cache
    /\ UNCHANGED <<google, target, file, entry, reload, cache, rotated, late, fcm, issue, flow>>

\* The write ends: it may put back a token that a flow has replaced.
Written ==
    /\ writing # NoCreds
    /\ file' = writing
    /\ writing' = NoCreds
    /\ UNCHANGED <<google, target, entry, reload, cache, rotated, late, fcm, issue, flow>>

\* The store of an earlier entry is written behind the back of this one.
LateSave ==
    /\ \E s \in late : file' = s /\ late' = late \ {s}
    /\ UNCHANGED <<google, target, entry, reload, cache, writing, rotated, fcm, issue, flow>>

\* The flows at work on the entry; a pairing works on one of its own.
AtWork == {f \in Flows : flow[f].pc # "form" /\ flow[f].kind # "pair"}

\* async_remove_entry, which waits for nothing either; unless "removal" says
\* otherwise, all it began has ended.
Remove ==
    /\ entry = "down"
    /\ "removal" \in Races \/ AtWork = {}
    /\ entry' = "none"
    /\ file' = NoCreds
    /\ cache' = NoCreds
    /\ IF "removal" \in Races THEN Outlives ELSE Ended
    /\ target' = None
    /\ issue' = FALSE
    /\ reload' = FALSE
    /\ UNCHANGED <<google, fcm, flow>>
-----------------------------------------------------------------------------
(* The flows: _async_invite_step and _pair, async_step_phone and _sms for  *)
(* "pair", the former two also for "reauth"; _async_try_silent_reauth for  *)
(* "silent"; _reregister for "repair".                                     *)

At(f, step) == flow[f].pc = step
Goes(f, step) == flow' = [flow EXCEPT ![f].pc = step]
Forgets(f) == flow' = [flow EXCEPT ![f] = Blank]

\* The entry is there for a reauth, and its repair raised for a repair.
Offered(kind) ==
    \/ kind = "pair"
    \/ kind \in {"silent", "reauth"} /\ entry # "none"
    \/ kind = "repair" /\ issue /\ entry # "none"

\* Some copy of the credentials has a token that works, and the file holds
\* other credentials than those: a late write has put them back.
Stores == {file, cache, writing} \union late
Behind == \E s \in Stores : s.token \notin dead \union {None} /\ s.token # file.creds

\* The user submits the form, or a reauth begins by trying without one.  Only
\* a flow about the entry has credentials.
Submit(f) ==
    /\ At(f, "form")
    /\ \E kind \in Kinds :
        /\ Offered(kind)
        /\ "flows" \in Races \/ kind = "pair" \/ AtWork = {}
        /\ "behind" \in Races \/ kind \notin Again \/ ~Behind
        /\ flow' = [flow EXCEPT ![f] =
               [pc |-> IF kind = "silent" THEN "auth" ELSE "fcm", kind |-> kind,
                token |-> None, creds |-> IF kind \in Again THEN file.creds ELSE None]]
    /\ UNCHANGED <<google, target, file, entry, reload, running, fcm, issue>>

\* fcm_register_standalone.
FlowRegisters(f) ==
    /\ At(f, "fcm")
    /\ \E token \in Tokens :
        /\ Registers(flow[f].creds, token, MaxTokens - Reserved)
        /\ flow' = [flow EXCEPT ![f].pc = "register", ![f].token = token, ![f].creds = token]
    /\ UNCHANGED <<dead, target, file, entry, reload, running, fcm, issue>>

\* register_with_invite, or register_phone_for_sms: Intratone pushes to this
\* token from now on, if it is the device of the entry.
RegisterCodes(f) ==
    /\ At(f, "register")
    /\ target' = IF flow[f].kind \in Again THEN flow[f].token ELSE target
    /\ Goes(f, "auth")
    /\ UNCHANGED <<google, file, entry, reload, running, fcm, issue>>

\* authenticate_for_invite grants a JWT.
AfterAuth(kind) ==
    CASE kind = "repair" -> "save" [] kind = "silent" -> "load" [] OTHER -> "check"

Authenticated(f) ==
    /\ At(f, "auth")
    /\ Goes(f, AfterAuth(flow[f].kind))
    /\ UNCHANGED <<google, target, file, entry, reload, running, fcm, issue>>

\* A request fails, or the user leaves: back to the form, which forgets it all.
GivesUp(f) ==
    /\ flow[f].pc \in {"fcm", "register", "auth", "video"}
    /\ Forgets(f)
    /\ UNCHANGED <<google, target, file, entry, reload, running, fcm, issue>>

\* _abort_if_unique_id_configured, before the store is touched.  A second flow
\* of the same account is aborted by async_set_unique_id.
NotConfigured(f) ==
    flow[f].kind = "pair" => entry = "none" /\ \A g \in Flows \ {f} : ~At(g, "save") /\ ~At(g, "video")

UniqueId(f) ==
    /\ At(f, "check")
    /\ IF NotConfigured(f) THEN Goes(f, "save") ELSE Forgets(f)
    /\ UNCHANGED <<google, target, file, entry, reload, running, fcm, issue>>

\* A silent reauth loads its store to change the JWT alone.
Load(f) ==
    /\ At(f, "load")
    /\ flow' = [flow EXCEPT ![f].pc = "save", ![f].token = file.token, ![f].creds = file.creds]
    /\ UNCHANGED <<google, target, file, entry, reload, running, fcm, issue>>

\* The flow's own store is updated, and all of it written.
Save(f) ==
    /\ At(f, "save")
    /\ file' = [token |-> flow[f].token, creds |-> flow[f].creds]
    /\ Goes(f, IF flow[f].kind = "pair" THEN "video" ELSE "saved")
    /\ UNCHANGED <<google, target, entry, reload, running, fcm, issue>>

\* Mutant: the running entry is left as it is.
NoReload == reload
Scheduled == entry = "loaded"

\* The repair is closed and a reload scheduled.
Finish(f) ==
    /\ At(f, "saved")
    /\ Forgets(f)
    /\ issue' = (issue /\ flow[f].kind # "repair")
    /\ reload' = Scheduled
    /\ UNCHANGED <<google, target, file, entry, running, fcm>>

\* async_create_entry at the end of the video form: the device that was paired
\* is the entry's, and its token the one Intratone pushes to.
CreateEntry(f) ==
    /\ At(f, "video")
    /\ entry = "none"
    /\ entry' = "down"
    /\ target' = flow[f].token
    /\ Forgets(f)
    /\ UNCHANGED <<google, file, reload, running, fcm, issue>>
-----------------------------------------------------------------------------
Listener == ListenerRegisters \/ TokenChecked \/ ListenerCrashes
Store == PersistCreds \/ JwtRefreshed \/ Written \/ LateSave
Lifecycle == Setup \/ Unload \/ Crash \/ Remove

Flow(f) ==
    \/ Submit(f)
    \/ FlowRegisters(f)
    \/ RegisterCodes(f)
    \/ Authenticated(f)
    \/ GivesUp(f)
    \/ UniqueId(f)
    \/ Load(f)
    \/ Save(f)
    \/ Finish(f)
    \/ CreateEntry(f)

Next ==
    \/ Rotate
    \/ Listener
    \/ Store
    \/ Lifecycle
    \/ \E f \in Flows : Flow(f)

Spec == Init /\ [][Next]_vars

\* What was scheduled runs, and writes end.  Nothing is assumed about users,
\* Google or Intratone.
FairSpec ==
    /\ Spec
    /\ WF_vars(Setup)
    /\ WF_vars(reload /\ Unload)
    /\ WF_vars(PersistCreds)
    /\ WF_vars(Written)
    /\ \A f \in Flows : WF_vars(Save(f)) /\ WF_vars(Finish(f))
-----------------------------------------------------------------------------
(* Properties.                                                             *)

\* The entry runs, what it started has ended, and no flow is at work.
Settled ==
    /\ entry = "loaded" /\ fcm.pc = "up"
    /\ ~reload
    /\ writing = NoCreds /\ rotated = None
    /\ AtWork = {}

\* When Intratone pushes to another token than the one the listener is on, and
\* that one works, the repair says so (_check_token_registration): the
\* doorbell does not go silent unnoticed, whatever fails or is overwritten.
SilenceSignalled ==
    Settled /\ fcm.live \notin dead /\ fcm.live # target => issue

\* The token that a flow has stored is the one the running entry comes to
\* hold, since the entry is reloaded for it (Finish, Setup).  A late write may
\* put another in its place in the file, but none that works while it does: so
\* the check of the token can tell.
StoredIsAdopted ==
    \A t \in Tokens :
        (\E f \in Flows : At(f, "saved") /\ flow[f].token = t) ~>
            \/ cache.token = t
            \/ file.token # t /\ (t \in dead \/ file.token \in dead \union {None})
=============================================================================
