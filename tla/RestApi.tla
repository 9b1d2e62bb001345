------------------------------ MODULE RestApi ------------------------------
(***************************************************************************)
(* The REST client (rest_api.py) and the Mobipass repair it drives         *)
(* (__init__.py).  Four operations send an authenticated request; when the *)
(* server answers with an error they wait for a refresh of the JWT and     *)
(* send it once more.  All of them, and the 12-hour timer, share one       *)
(* refresh task.  A refresh tries each form of the phone number in turn.   *)
(*                                                                         *)
(* An operation is called at most once; the timer ticks for ever.          *)
(***************************************************************************)
EXTENDS Integers, FiniteSets

CONSTANTS
    Callers,    \* the operations that are called
    NumTels,    \* the forms of the phone number that auth/device is tried with
    Server,     \* what the server may do: "limit" the rate of auth/device (HTTP
                \* 429), "revoke" the credentials, "move" the key
    NumSlots    \* bound: refresh tasks that exist at a time

Operations == {"answer", "list", "open", "mobipass"}

ASSUME CallersAssumption == Callers \in SUBSET Operations
ASSUME TelsAssumption == NumTels \in Nat \ {0}
ASSUME ServerAssumption == Server \in SUBSET {"limit", "revoke", "move"}
ASSUME SlotsAssumption == NumSlots \in Nat \ {0}

Timer == "timer"
Waiters == Callers \union {Timer}
Refreshes == 1 .. NumSlots
Check == 0          \* the run of authenticate_device made once at setup
Runs == Refreshes \union {Check}
NoTask == 0

VARIABLES
    jwt,          \* the JWT in the store's cache, as the server would judge it
    mobipass,     \* mobipass_state: who holds the key, when last told
    refreshTask,  \* _refresh_task
    run,          \* each run of authenticate_device: phase, candidate, last_error
    call,         \* each waiter: where it is suspended, the JWT its request
                  \* carries, the refresh it awaits, what came of it
    stops,        \* the calls of async_stop() so far
    issue,        \* the Mobipass repair is raised
    reauth,       \* a reauth was started
    registered,   \* server: the form of the number the account is keyed on
    revoked,      \* server: the credentials are revoked
    elsewhere     \* server: another device holds the key

server == <<registered, revoked, elsewhere>>
vars == <<jwt, mobipass, refreshTask, run, call, stops, issue, reauth, server>>

Jwts == {"none", "valid", "expired"}
Errors == {"none", "refused", "outage"}
Results == {"none", "ok", "denied", "failed", "expired", "unreachable", "auth",
            "cancelled", "refresh cancelled"}

Phases == {"idle", "first", "refresh", "resumed", "retry", "ended"}
Call == [at : Phases, jwt : Jwts, task : Refreshes \union {NoTask}, result : Results]
Run == [phase : {"idle", "auth", "save"}, tel : 1 .. NumTels, last : Errors]

CallsTyped == call \in [Waiters -> Call]
RunsTyped == run \in [Runs -> Run]
TaskTyped == refreshTask \in Refreshes \union {NoTask}
ServerTyped == registered \in 1 .. NumTels /\ revoked \in BOOLEAN /\ elsewhere \in BOOLEAN
ClientTyped ==
    /\ jwt \in Jwts
    /\ mobipass \in {"unknown", "here", "elsewhere"}
    /\ stops \in 0 .. 2
    /\ issue \in BOOLEAN /\ reauth \in BOOLEAN

TypeOK == CallsTyped /\ RunsTyped /\ TaskTyped /\ ClientTyped /\ ServerTyped

Stopped == stops > 0
Running(r) == run[r].phase /= "idle"

Idle == [phase |-> "idle", tel |-> 1, last |-> "none"]
Trying(tel, last) == [phase |-> "auth", tel |-> tel, last |-> last]
Begun == Trying(1, "none")

Waiter == [at |-> "idle", jwt |-> "none", task |-> NoTask, result |-> "none"]
Requesting(phase, j) == [Waiter EXCEPT !.at = phase, !.jwt = j]
Awaiting(r) == [Waiter EXCEPT !.at = "refresh", !.task = r]
Given(phase, how) == [Waiter EXCEPT !.at = phase, !.result = how]

\* The entry is set up, and its check of the Mobipass state has begun.
Init ==
    /\ jwt \in {"none", "valid"}
    /\ mobipass = "unknown"
    /\ refreshTask = NoTask
    /\ run = [r \in Runs |-> IF r = Check THEN Begun ELSE Idle]
    /\ call = [w \in Waiters |-> Waiter]
    /\ stops = 0
    /\ issue = FALSE /\ reauth = FALSE
    /\ registered \in 1 .. NumTels
    /\ revoked = FALSE
    /\ elsewhere \in BOOLEAN

----------------------------------------------------------------------------
(* refresh_jwt(): join the refresh in flight, or start one. *)

InFlight == refreshTask /= NoTask /\ Running(refreshTask)

\* A refresh task that is over makes room for another.
Free == CHOOSE r \in Refreshes : ~Running(r)

NewRefresh(w) ==
    /\ \E r \in Refreshes : ~Running(r)
    /\ refreshTask' = Free
    /\ run' = [run EXCEPT ![Free] = Begun]
    /\ call' = [call EXCEPT ![w] = Awaiting(Free)]

\* Mutant: a refresh that is over is taken for one in flight.
RefreshJwtOnce(w) ==
    \/ /\ refreshTask /= NoTask
       /\ call' = [call EXCEPT ![w] = IF InFlight THEN Awaiting(refreshTask)
                                                  ELSE Given("resumed", "ok")]
       /\ UNCHANGED <<refreshTask, run>>
    \/ refreshTask = NoTask /\ NewRefresh(w)

\* Mutant: every caller has a refresh of its own.
RefreshJwtAlone(w) == NewRefresh(w)

RefreshJwt(w) ==
    \/ /\ InFlight
       /\ call' = [call EXCEPT ![w] = Awaiting(refreshTask)]
       /\ UNCHANGED <<refreshTask, run>>
    \/ ~InFlight /\ NewRefresh(w)

Waiting(w, r) == call[w].at = "refresh" /\ call[w].task = r

\* Mutant: only a refresh that succeeds wakes them.
WokenBySuccess(r, how) ==
    [w \in Waiters |-> IF Waiting(w, r) /\ how = "ok" THEN Given("resumed", how) ELSE call[w]]

\* Refresh r is over: whoever awaits it is woken with what it gave.
Woken(r, how) ==
    [w \in Waiters |-> IF Waiting(w, r) THEN Given("resumed", how) ELSE call[w]]

----------------------------------------------------------------------------
(* authenticate_device(): one candidate after the other. *)

\* The form of the number the server knows: it answers with a JWT.
Recognised(r) == run[r].tel = registered /\ ~revoked

\* Mutants: every failure a verdict, and none.
AlwaysAuth(last) == "auth"
NeverAuth(last) == "failed"

\* How authenticate_device fails once every candidate has: an outage is
\* re-raised, anything else is a verdict on the credentials.
Verdict(last) == IF last = "outage" THEN "failed" ELSE "auth"

Finish(r, how) ==
    /\ run' = [run EXCEPT ![r] = Idle]
    /\ call' = Woken(r, how)

LastTel(tel) == tel = NumTels

TryNext(r, last) ==
    /\ \/ /\ LastTel(run[r].tel)
          /\ Finish(r, Verdict(last))
       \/ /\ ~LastTel(run[r].tel)
          /\ run' = [run EXCEPT ![r] = Trying(@.tel + 1, last)]
          /\ UNCHANGED call
    /\ UNCHANGED <<jwt, mobipass, refreshTask, stops, issue, reauth, server>>

Unreachable(r) ==
    /\ run[r].phase = "auth"
    /\ Finish(r, "unreachable")
    /\ UNCHANGED <<jwt, mobipass, refreshTask, stops, issue, reauth, server>>

Outage(r) == run[r].phase = "auth" /\ TryNext(r, "outage")

\* HTTP 429 is below 500 and has a body: it is taken for a refusal.
Refused(r) ==
    /\ run[r].phase = "auth"
    /\ ~Recognised(r) \/ "limit" \in Server
    /\ TryNext(r, "refused")

\* An answer without a JWT: last_error stays that of an earlier candidate.
NoJwt(r) == run[r].phase = "auth" /\ ~Recognised(r) /\ TryNext(r, run[r].last)

\* Mutant: a repair once raised is never cleared.
NeverCleared(state) == issue \/ state = "elsewhere"

\* _evaluate_mobipass_issue(): the repair follows mobipass_state.
Evaluated(state) == state = "elsewhere"

Holder == IF elsewhere THEN "elsewhere" ELSE "here"

\* The server's JWT reaches the store's cache before the store is saved.
Granted(r) ==
    /\ run[r].phase = "auth" /\ Recognised(r)
    /\ mobipass' = Holder
    /\ run' = [run EXCEPT ![r].phase = "save"]
    /\ jwt' = "valid"
    /\ UNCHANGED <<refreshTask, call, stops, issue, reauth, server>>

Saved(r) ==
    /\ run[r].phase = "save"
    /\ Finish(r, "ok")
    /\ UNCHANGED <<jwt, mobipass, refreshTask, stops, issue, reauth, server>>

\* The check made at setup keeps the flags and drops the JWT.
Checked ==
    /\ run[Check].phase = "auth" /\ Recognised(Check)
    /\ mobipass' = Holder
    /\ issue' = Evaluated(mobipass')
    /\ run' = [run EXCEPT ![Check] = Idle]
    /\ UNCHANGED <<jwt, refreshTask, call, stops, reauth, server>>

AuthenticateDevice(r) == Unreachable(r) \/ Outage(r) \/ Refused(r) \/ NoJwt(r)

RefreshOnce(r) == AuthenticateDevice(r) \/ Granted(r) \/ Saved(r)

InitialCheck == AuthenticateDevice(Check) \/ Checked

----------------------------------------------------------------------------
(* An authenticated operation: a request, and once more after a refresh.   *)

unaffected == <<jwt, mobipass, stops, issue, reauth, server>>

End(c, how) == call' = [call EXCEPT ![c] = Given("ended", how)]

\* Entities are unloaded before the client is stopped: no call begins later.
Begin(c) ==
    /\ call[c].at = "idle" /\ ~Stopped
    /\ IF jwt = "none" THEN End(c, "auth")
                       ELSE call' = [call EXCEPT ![c] = Requesting("first", jwt)]
    /\ UNCHANGED <<refreshTask, run, unaffected>>

\* The server decides, or is not reached: the answer is the caller's.
Settled(c, verdicts) ==
    /\ \/ call[c].jwt = "valid" /\ \E v \in verdicts : End(c, v)
       \/ End(c, "unreachable")
    /\ UNCHANGED <<refreshTask, run, unaffected>>

\* The first answer is an error, that of an expired JWT or any other.
Refresh(c) ==
    /\ RefreshJwt(c)
    /\ UNCHANGED unaffected

FailedAgain(c) ==
    /\ End(c, IF call[c].jwt = "expired" THEN "expired" ELSE "failed")
    /\ UNCHANGED <<refreshTask, run, unaffected>>

Answer(c, verdicts) ==
    \/ call[c].at = "first" /\ (Settled(c, verdicts) \/ Refresh(c))
    \/ call[c].at = "retry" /\ (Settled(c, verdicts) \/ FailedAgain(c))

\* The retry carries the JWT the store holds by then.
Resume(c) ==
    /\ call[c].at = "resumed"
    /\ IF call[c].result = "ok"
        THEN call' = [call EXCEPT ![c] = Requesting("retry", jwt)]
        ELSE End(c, call[c].result)
    /\ UNCHANGED <<refreshTask, run, unaffected>>

Request(c, verdicts) ==
    c \in Callers /\ (Begin(c) \/ Answer(c, verdicts) \/ Resume(c))

\* The server opens the door, or answers with error /= 0.
AnswerCall == Request("answer", {"ok", "denied"})
OpenAccess == Request("open", {"ok", "denied"})

ListAccess == Request("list", {"ok"})

\* A MOBIPASS_* refusal is final; "SMS sent" is a success.
MobipassPost == Request("mobipass", {"ok", "denied"})

InCall(c) == call[c].at \in {"first", "refresh", "resumed", "retry"}

\* Mutant: the refresh is awaited without the shield, and goes with the caller.
CancelUnshielded(c) ==
    /\ InCall(c)
    /\ call' = [w \in Waiters |->
         IF w = c THEN Given("ended", "cancelled")
         ELSE IF call[c].at = "refresh" /\ Waiting(w, call[c].task)
         THEN Given("resumed", "refresh cancelled") ELSE call[w]]
    /\ run' = IF call[c].at = "refresh" THEN [run EXCEPT ![call[c].task] = Idle] ELSE run
    /\ UNCHANGED <<refreshTask, unaffected>>

\* The caller's task is cancelled: the refresh it awaits is shielded.
CancelCall(c) ==
    /\ InCall(c)
    /\ End(c, "cancelled")
    /\ UNCHANGED <<refreshTask, run, unaffected>>

----------------------------------------------------------------------------
(* The timer's _tick, and async_stop(). *)

Tick ==
    /\ call[Timer].at = "idle" /\ ~Stopped
    /\ RefreshJwt(Timer)
    /\ UNCHANGED unaffected

Ticked ==
    /\ call[Timer].at = "resumed"
    /\ call' = [call EXCEPT ![Timer] = Waiter]
    /\ reauth' = (reauth \/ call[Timer].result = "auth")
    /\ issue' = IF call[Timer].result = "ok" THEN Evaluated(mobipass) ELSE issue
    /\ UNCHANGED <<jwt, mobipass, refreshTask, run, stops, server>>

\* async_unload_entry() stops the client, then its unload hook does again.
\* Nothing awaits the check, which the entry cancels with its other tasks.
Stop ==
    /\ stops < 2
    /\ stops' = stops + 1
    /\ IF InFlight THEN Finish(refreshTask, "refresh cancelled")
                   ELSE UNCHANGED <<run, call>>
    /\ refreshTask' = NoTask
    /\ UNCHANGED <<jwt, mobipass, issue, reauth, server>>

CancelCheck ==
    /\ stops = 2
    /\ Running(Check)
    /\ run' = [run EXCEPT ![Check] = Idle]
    /\ UNCHANGED <<jwt, mobipass, refreshTask, call, stops, issue, reauth, server>>

----------------------------------------------------------------------------
(* The server. *)

\* A JWT lives for hours and a call for seconds: one just minted outlives
\* the call it was minted for.
Expire ==
    /\ jwt = "valid"
    /\ \A r \in Refreshes : run[r].phase /= "save"
    /\ \A c \in Callers : call[c].at \notin {"resumed", "retry"}
    /\ jwt' = "expired"
    /\ call' = [w \in Waiters |->
                  IF call[w].jwt = "valid" THEN Requesting(call[w].at, "expired") ELSE call[w]]
    /\ UNCHANGED <<mobipass, refreshTask, run, stops, issue, reauth, server>>

Revoke ==
    /\ "revoke" \in Server /\ ~revoked
    /\ revoked' = TRUE
    /\ UNCHANGED <<jwt, mobipass, refreshTask, run, call, stops, issue, reauth,
                   registered, elsewhere>>

KeyMoves ==
    /\ "move" \in Server
    /\ elsewhere' = ~elsewhere
    /\ UNCHANGED <<jwt, mobipass, refreshTask, run, call, stops, issue, reauth,
                   registered, revoked>>

----------------------------------------------------------------------------

Operation == AnswerCall \/ ListAccess \/ OpenAccess \/ MobipassPost

Next ==
    \/ Operation
    \/ \E c \in Callers : CancelCall(c)
    \/ Tick
    \/ Ticked
    \/ \E r \in Refreshes : RefreshOnce(r)
    \/ InitialCheck
    \/ CancelCheck
    \/ Stop
    \/ Expire
    \/ Revoke
    \/ KeyMoves

Spec == Init /\ [][Next]_vars

\* Every request is answered or times out (REQUEST_TIMEOUT, 20 s), the event
\* loop runs what is ready, and the timer ticks.  An outage ends: a refresh
\* tried again and again is one day granted or refused.
Fairness ==
    /\ WF_vars(AnswerCall) /\ WF_vars(ListAccess)
    /\ WF_vars(OpenAccess) /\ WF_vars(MobipassPost)
    /\ WF_vars(Tick) /\ WF_vars(Ticked)
    /\ \A r \in Refreshes :
        WF_vars(RefreshOnce(r)) /\ SF_vars(Granted(r)) /\ SF_vars(Refused(r))

FairSpec == Spec /\ Fairness

----------------------------------------------------------------------------
(* Properties. *)

\* However many operations fail at once, one refresh at a time asks the
\* server for a JWT (refresh_jwt).
SingleFlight ==
    \A r, s \in Refreshes : Running(r) /\ Running(s) => r = s

\* An operation never ends with the error of an expired JWT: it has a fresh one
\* by its second attempt, whoever asked for the refresh, or ends with the error
\* of that refresh (open_access and the three others).
ExpiryIsCured ==
    \A c \in Callers : call[c].at = "ended" => call[c].result /= "expired"

\* An operation that is cancelled takes no other one with it: a shared
\* refresh is cut only by async_stop().
CancelIsPrivate ==
    \A w \in Waiters : call[w].result = "refresh cancelled" => Stopped

\* The user is asked to pair again only when the credentials are revoked,
\* never because of an outage (_tick and authenticate_device).
ReauthMeansRevoked == reauth => revoked

\* Every operation ends, whatever becomes of the refresh it waits for.
CallsEnd ==
    \A c \in Callers : call[c].at = "first" ~> call[c].at = "ended"

\* Revoked credentials are noticed, and the user asked to pair again (_tick).
RevocationNoticed == revoked ~> (reauth \/ Stopped)

\* The repair never disagrees for ever with who holds the key.
IssueSettles == []<>((issue <=> elsewhere) \/ Stopped \/ revoked)
=============================================================================
