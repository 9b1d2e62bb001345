--------------------------- MODULE RestApi_proofs ---------------------------
(***************************************************************************)
(* Theorems about the REST client for every set of operations, every       *)
(* number of phone forms and every server: one refresh at a time, nobody   *)
(* who waits for it is forgotten, and a cancelled call is nobody else's    *)
(* business.  With no rate limit, the last phone form decides: a reauth    *)
(* follows a revocation if the account is keyed on that form.              *)
(***************************************************************************)
EXTENDS RestApi, TLAPS

\* The two records a run starts from and ends in are runs.
LEMMA RunType == Idle \in Run /\ Begun \in Run
  BY TelsAssumption DEF Idle, Begun, Trying, Run, Errors

\* The records a waiter goes through are typed, field by field.
LEMMA CallType ==
    /\ Waiter \in Call
    /\ \A phase \in Phases, j \in Jwts : Requesting(phase, j) \in Call
    /\ \A r \in Refreshes : Awaiting(r) \in Call
    /\ \A phase \in Phases, how \in Results : Given(phase, how) \in Call
  BY DEF Waiter, Requesting, Awaiting, Given, Call, Phases, Jwts, Results, NoTask

\* What the records of a waiter hold.
LEMMA CallFields ==
    /\ Waiter.at = "idle" /\ Waiter.result = "none"
    /\ \A phase, j : Requesting(phase, j).at = phase /\ Requesting(phase, j).result = "none"
    /\ \A r : Awaiting(r).at = "refresh" /\ Awaiting(r).result = "none"
    /\ \A phase, how : Given(phase, how).at = phase /\ Given(phase, how).result = how
  BY DEF Waiter, Requesting, Awaiting, Given

\* Ending run r, whatever it gives, keeps the runs and the waiters typed.
LEMMA FinishType ==
    ASSUME RunsTyped, CallsTyped, NEW r \in Runs, NEW how \in Results, Finish(r, how)
    PROVE  RunsTyped' /\ CallsTyped'
<1>1. RunsTyped'
  BY RunType DEF Finish, RunsTyped
<1>2. CallsTyped'
  BY CallType DEF Finish, Woken, CallsTyped, Phases
<1> QED
  BY <1>1, <1>2

\* So does joining the refresh in flight, or starting one.
LEMMA RefreshType ==
    ASSUME RunsTyped, CallsTyped, TaskTyped,
           NEW w \in Waiters, RefreshJwt(w)
    PROVE  RunsTyped' /\ CallsTyped' /\ TaskTyped'
<1>1. CASE InFlight /\ call' = [call EXCEPT ![w] = Awaiting(refreshTask)]
           /\ UNCHANGED <<refreshTask, run>>
  <2>1. refreshTask \in Refreshes
    BY <1>1 DEF InFlight, TaskTyped
  <2> QED
    BY <1>1, <2>1, CallType DEF RunsTyped, CallsTyped, TaskTyped
<1>2. CASE ~InFlight /\ NewRefresh(w)
  <2>1. Free \in Refreshes
    BY <1>2 DEF NewRefresh, Free
  <2> QED
    BY <1>2, <2>1, CallType, RunType DEF NewRefresh, RunsTyped, CallsTyped, TaskTyped, Runs
<1> QED
  BY <1>1, <1>2 DEF RefreshJwt

\* Ending call c keeps the waiters typed.
LEMMA EndType ==
    ASSUME CallsTyped, NEW c \in Waiters, NEW how \in Results, End(c, how)
    PROVE  CallsTyped'
  BY CallType DEF End, CallsTyped, Phases

\* What authenticate_device leaves alone keeps its type.
LEMMA RestType ==
    ASSUME TypeOK, UNCHANGED <<jwt, mobipass, refreshTask, stops, issue, reauth, server>>
    PROVE  TaskTyped' /\ ClientTyped' /\ ServerTyped'
<1>1. TaskTyped /\ ClientTyped /\ ServerTyped
  BY DEF TypeOK
<1>2. TaskTyped' /\ ServerTyped'
  BY <1>1 DEF TaskTyped, ServerTyped, server
<1>3. ClientTyped'
  BY <1>1 DEF ClientTyped
<1> QED
  BY <1>2, <1>3

\* A step of authenticate_device leaves a typed state.
LEMMA AuthenticateType ==
    ASSUME TypeOK, NEW r \in Runs, AuthenticateDevice(r)
    PROVE  TypeOK'
<1>0. RunsTyped /\ CallsTyped
  BY DEF TypeOK
<1>1. CASE Unreachable(r)
  <2>1. RunsTyped' /\ CallsTyped'
    BY <1>0, <1>1, FinishType DEF Unreachable, Results
  <2>2. TaskTyped' /\ ClientTyped' /\ ServerTyped'
    BY <1>1, RestType DEF Unreachable
  <2> QED
    BY <2>1, <2>2 DEF TypeOK
<1>2. ASSUME NEW last \in Errors, TryNext(r, last)
      PROVE  TypeOK'
  <2>1. ASSUME Finish(r, Verdict(last)) PROVE RunsTyped' /\ CallsTyped'
    <3>1. Verdict(last) \in Results
      BY DEF Verdict, Results
    <3> QED
      BY <1>0, <2>1, <3>1, FinishType
  <2>2. ASSUME ~LastTel(run[r].tel), UNCHANGED call,
               run' = [run EXCEPT ![r] = Trying(@.tel + 1, last)]
        PROVE  RunsTyped' /\ CallsTyped'
    <3>1. run[r] \in Run /\ run[r].tel \in 1 .. NumTels /\ run[r].tel /= NumTels
      BY <1>0, <2>2 DEF RunsTyped, Run, LastTel
    <3>2. run[r].tel + 1 \in 1 .. NumTels
      BY <3>1, TelsAssumption
    <3>3. Trying(run[r].tel + 1, last) \in Run
      BY <1>2, <3>2 DEF Trying, Run
    <3>4. RunsTyped'
      BY <1>0, <2>2, <3>3 DEF RunsTyped
    <3> QED
      BY <1>0, <2>2, <3>4 DEF CallsTyped
  <2>3. RunsTyped' /\ CallsTyped'
    BY <1>2, <2>1, <2>2 DEF TryNext
  <2>4. TaskTyped' /\ ClientTyped' /\ ServerTyped'
    BY <1>2, RestType DEF TryNext
  <2> QED
    BY <2>3, <2>4 DEF TypeOK
<1>3. run[r].last \in Errors
  BY <1>0 DEF RunsTyped, Run
<1> QED
  BY <1>1, <1>2, <1>3 DEF AuthenticateDevice, Outage, Refused, NoJwt, Errors

\* What a step of a waiter leaves alone keeps its type.
LEMMA UnaffectedType ==
    ASSUME TypeOK, UNCHANGED unaffected
    PROVE  ClientTyped' /\ ServerTyped'
<1>1. ClientTyped /\ ServerTyped
  BY DEF TypeOK
<1>2. ServerTyped'
  BY <1>1 DEF ServerTyped, unaffected, server
<1>3. ClientTyped'
  BY <1>1 DEF ClientTyped, unaffected
<1> QED
  BY <1>2, <1>3

\* A step of a waiter that is not about the refresh leaves a typed state.
LEMMA WaiterType ==
    ASSUME TypeOK, CallsTyped', UNCHANGED <<refreshTask, run, unaffected>>
    PROVE  TypeOK'
<1>1. RunsTyped' /\ TaskTyped'
  BY DEF TypeOK, RunsTyped, TaskTyped
<1> QED
  BY <1>1, UnaffectedType DEF TypeOK

\* A step of an operation leaves a typed state.
LEMMA RequestType ==
    ASSUME TypeOK, NEW c, NEW V \in SUBSET Results, Request(c, V)
    PROVE  TypeOK'
<1>0. c \in Waiters /\ CallsTyped /\ RunsTyped /\ TaskTyped
  BY DEF Request, Waiters, TypeOK
<1>1. CASE Begin(c)
  <2>1. ASSUME End(c, "auth") PROVE CallsTyped'
    BY <1>0, <2>1, EndType DEF Results
  <2>2. ASSUME call' = [call EXCEPT ![c] = Requesting("first", jwt)] PROVE CallsTyped'
    <3>1. Requesting("first", jwt) \in Call
      BY CallType DEF TypeOK, ClientTyped, Phases
    <3> QED
      BY <1>0, <2>2, <3>1 DEF CallsTyped
  <2> QED
    BY <1>1, <2>1, <2>2, WaiterType DEF Begin
<1>2. CASE Settled(c, V)
  <2>1. CallsTyped'
    BY <1>0, <1>2, EndType DEF Settled, Results
  <2> QED
    BY <1>2, <2>1, WaiterType DEF Settled
<1>3. CASE Refresh(c)
  <2>1. RunsTyped' /\ CallsTyped' /\ TaskTyped'
    BY <1>0, <1>3, RefreshType DEF Refresh
  <2> QED
    BY <1>3, <2>1, UnaffectedType DEF Refresh, TypeOK
<1>4. CASE FailedAgain(c)
  <2>1. CallsTyped'
    BY <1>0, <1>4, EndType DEF FailedAgain, Results
  <2> QED
    BY <1>4, <2>1, WaiterType DEF FailedAgain
<1>5. CASE Resume(c)
  <2>1. ASSUME call' = [call EXCEPT ![c] = Requesting("retry", jwt)] PROVE CallsTyped'
    <3>1. Requesting("retry", jwt) \in Call
      BY CallType DEF TypeOK, ClientTyped, Phases
    <3> QED
      BY <1>0, <2>1, <3>1 DEF CallsTyped
  <2>2. ASSUME End(c, call[c].result) PROVE CallsTyped'
    <3>1. call[c].result \in Results
      BY <1>0 DEF CallsTyped, Call
    <3> QED
      BY <1>0, <2>2, <3>1, EndType
  <2> QED
    BY <1>5, <2>1, <2>2, WaiterType DEF Resume
<1> QED
  BY <1>1, <1>2, <1>3, <1>4, <1>5 DEF Request, Answer

\* TypeOK is inductive.
LEMMA NextTypeOK == TypeOK /\ [Next]_vars => TypeOK'
<1> SUFFICES ASSUME TypeOK, [Next]_vars PROVE TypeOK'
  OBVIOUS
<1>0. /\ Timer \in Waiters /\ Callers \subseteq Waiters
      /\ Refreshes \subseteq Runs /\ Check \in Runs
      /\ CallsTyped /\ RunsTyped /\ TaskTyped /\ ClientTyped /\ ServerTyped
  BY DEF Waiters, Runs, TypeOK
<1>1. CASE Operation
  <2>1. {"ok", "denied"} \in SUBSET Results /\ {"ok"} \in SUBSET Results
    BY DEF Results
  <2> QED
    BY <1>1, <2>1, RequestType DEF Operation, AnswerCall, ListAccess, OpenAccess, MobipassPost
<1>2. ASSUME NEW c \in Callers, CancelCall(c)
      PROVE  TypeOK'
  <2>1. CallsTyped'
    BY <1>0, <1>2, EndType DEF CancelCall, Results
  <2> QED
    BY <1>2, <2>1, WaiterType DEF CancelCall
<1>3. CASE Tick
  <2>1. RunsTyped' /\ CallsTyped' /\ TaskTyped'
    BY <1>0, <1>3, RefreshType DEF Tick
  <2> QED
    BY <1>3, <2>1, UnaffectedType DEF Tick, TypeOK
<1>4. CASE Ticked
  <2>1. CallsTyped'
    BY <1>0, <1>4, CallType DEF Ticked, CallsTyped
  <2>2. RunsTyped' /\ TaskTyped' /\ ServerTyped'
    BY <1>0, <1>4 DEF Ticked, RunsTyped, TaskTyped, ServerTyped, server
  <2>3. reauth' \in BOOLEAN /\ issue' \in BOOLEAN
    BY <1>0, <1>4 DEF Ticked, Evaluated, ClientTyped
  <2>4. ClientTyped'
    BY <1>0, <1>4, <2>3 DEF Ticked, ClientTyped
  <2> QED
    BY <2>1, <2>2, <2>4 DEF TypeOK
<1>5. ASSUME NEW r \in Refreshes, RefreshOnce(r)
      PROVE  TypeOK'
  <2>1. CASE AuthenticateDevice(r)
    BY <1>0, <2>1, AuthenticateType
  <2>2. CASE Granted(r)
    <3>1. RunsTyped'
      BY <1>0, <2>2 DEF Granted, RunsTyped, Run
    <3>2. CallsTyped' /\ TaskTyped' /\ ServerTyped'
      BY <1>0, <2>2 DEF Granted, CallsTyped, TaskTyped, ServerTyped, server
    <3>3. ClientTyped'
      BY <1>0, <2>2 DEF Granted, ClientTyped, Jwts, Holder
    <3> QED
      BY <3>1, <3>2, <3>3 DEF TypeOK
  <2>3. CASE Saved(r)
    <3>1. RunsTyped' /\ CallsTyped'
      BY <1>0, <2>3, FinishType DEF Saved, Results
    <3> QED
      BY <2>3, <3>1, RestType DEF Saved, TypeOK
  <2> QED
    BY <1>5, <2>1, <2>2, <2>3 DEF RefreshOnce
<1>6. CASE InitialCheck
  <2>1. CASE Checked
    <3>1. RunsTyped'
      BY <1>0, <2>1, RunType DEF Checked, RunsTyped
    <3>2. CallsTyped' /\ TaskTyped' /\ ServerTyped'
      BY <1>0, <2>1 DEF Checked, CallsTyped, TaskTyped, ServerTyped, server
    <3>3. issue' \in BOOLEAN
      BY <2>1 DEF Checked, Evaluated
    <3>4. ClientTyped'
      BY <1>0, <2>1, <3>3 DEF Checked, ClientTyped, Holder
    <3> QED
      BY <3>1, <3>2, <3>4 DEF TypeOK
  <2> QED
    BY <1>0, <1>6, <2>1, AuthenticateType DEF InitialCheck
<1>7. CASE CancelCheck
  <2>1. RunsTyped'
    BY <1>0, <1>7, RunType DEF CancelCheck, RunsTyped
  <2>2. CallsTyped'
    BY <1>0, <1>7 DEF CancelCheck, CallsTyped
  <2> QED
    BY <1>7, <2>1, <2>2, RestType DEF CancelCheck, TypeOK
<1>8. CASE Stop
  <2>1. ASSUME InFlight, Finish(refreshTask, "refresh cancelled")
        PROVE  RunsTyped' /\ CallsTyped'
    <3>1. refreshTask \in Runs
      BY <1>0, <2>1 DEF InFlight, TaskTyped
    <3> QED
      BY <1>0, <2>1, <3>1, FinishType DEF Results
  <2>2. ASSUME UNCHANGED <<run, call>> PROVE RunsTyped' /\ CallsTyped'
    BY <1>0, <2>2 DEF RunsTyped, CallsTyped
  <2>3. TaskTyped' /\ ServerTyped'
    BY <1>0, <1>8 DEF Stop, TaskTyped, ServerTyped, server
  <2>4. stops' \in 0 .. 2
    <3>1. stops \in 0 .. 2
      BY <1>0 DEF ClientTyped
    <3>2. stops < 2 /\ stops' = stops + 1
      BY <1>8 DEF Stop
    <3> QED
      BY <3>1, <3>2
  <2>5. ClientTyped'
    BY <1>0, <1>8, <2>4 DEF Stop, ClientTyped
  <2> QED
    BY <1>8, <2>1, <2>2, <2>3, <2>5 DEF Stop, TypeOK
<1>9. CASE Expire
  <2>1. \A w \in Waiters : call[w] \in Call /\ call[w].at \in Phases
    BY <1>0 DEF CallsTyped, Call
  <2>2. \A w \in Waiters : Requesting(call[w].at, "expired") \in Call
    BY <2>1, CallType DEF Jwts
  <2>3. CallsTyped'
    BY <1>9, <2>1, <2>2 DEF Expire, CallsTyped
  <2>4. RunsTyped' /\ TaskTyped' /\ ServerTyped'
    BY <1>0, <1>9 DEF Expire, RunsTyped, TaskTyped, ServerTyped, server
  <2>5. ClientTyped'
    BY <1>0, <1>9 DEF Expire, ClientTyped, Jwts
  <2> QED
    BY <2>3, <2>4, <2>5 DEF TypeOK
<1>10. CASE Revoke \/ KeyMoves
  <2>1. RunsTyped' /\ CallsTyped' /\ TaskTyped'
    BY <1>0, <1>10 DEF Revoke, KeyMoves, RunsTyped, CallsTyped, TaskTyped
  <2>2. revoked' \in BOOLEAN /\ elsewhere' \in BOOLEAN
    BY <1>0, <1>10 DEF Revoke, KeyMoves, ServerTyped
  <2>3. ServerTyped'
    BY <1>0, <1>10, <2>2 DEF Revoke, KeyMoves, ServerTyped
  <2>4. ClientTyped'
    BY <1>0, <1>10 DEF Revoke, KeyMoves, ClientTyped
  <2> QED
    BY <2>1, <2>3, <2>4 DEF TypeOK
<1>11. CASE UNCHANGED vars
  <2>1. CallsTyped'
    BY <1>0, <1>11 DEF vars, CallsTyped
  <2> QED
    BY <1>11, <2>1, WaiterType DEF vars, unaffected
<1> QED
  BY <1>1, <1>2, <1>3, <1>4, <1>5, <1>6, <1>7, <1>8, <1>9, <1>10, <1>11 DEF Next

\* The state of the client has its type in every reachable state.
THEOREM TypeCorrect == Spec => []TypeOK
<1>1. Init => TypeOK
  <2> SUFFICES ASSUME Init PROVE TypeOK
    OBVIOUS
  <2>1. RunsTyped /\ CallsTyped
    BY RunType, CallType DEF Init, RunsTyped, CallsTyped
  <2>2. TaskTyped /\ ServerTyped
    BY DEF Init, TaskTyped, ServerTyped
  <2>3. /\ jwt \in Jwts /\ stops \in 0 .. 2
        /\ mobipass \in {"unknown", "here", "elsewhere"}
    BY DEF Init, Jwts
  <2>4. ClientTyped
    BY <2>3 DEF Init, ClientTyped
  <2> QED
    BY <2>1, <2>2, <2>4 DEF TypeOK
<1> QED
  BY <1>1, NextTypeOK, PTL DEF Spec

-----------------------------------------------------------------------------
(***************************************************************************)
(* One refresh at a time: the refresh that runs, if any, is the one that   *)
(* _refresh_task names.                                                    *)
(***************************************************************************)
FlightInv == \A r \in Refreshes : Running(r) => refreshTask = r

\* Steps that start no run and do not change _refresh_task keep FlightInv.
LEMMA FlightKept ==
    ASSUME FlightInv, refreshTask' = refreshTask,
           \A r \in Refreshes : Running(r)' => Running(r)
    PROVE  FlightInv'
  BY DEF FlightInv

\* The end of a run starts no other.
LEMMA FinishRuns ==
    ASSUME RunsTyped, NEW s \in Runs, NEW how, Finish(s, how)
    PROVE  \A r \in Runs : Running(r)' => Running(r) /\ r /= s
  BY DEF Finish, Running, RunsTyped, Idle

\* A refresh is started only when none runs.
LEMMA RefreshFlight ==
    ASSUME RunsTyped, FlightInv, NEW w, RefreshJwt(w)
    PROVE  FlightInv'
<1>0. Refreshes \subseteq Runs /\ \A r \in Refreshes : r /= NoTask
  BY SlotsAssumption DEF Runs, Refreshes, NoTask
<1>1. CASE UNCHANGED <<refreshTask, run>>
  BY <1>1, FlightKept DEF Running
<1>2. CASE ~InFlight /\ NewRefresh(w)
  <2>1. \A r \in Refreshes : ~Running(r)
    BY <1>0, <1>2 DEF FlightInv, InFlight
  <2>2. refreshTask' = Free /\ run' = [run EXCEPT ![Free] = Begun]
    BY <1>2 DEF NewRefresh
  <2> QED
    BY <1>0, <2>1, <2>2 DEF FlightInv, Running, RunsTyped
<1> QED
  BY <1>1, <1>2 DEF RefreshJwt

\* FlightInv is inductive.
LEMMA NextFlightInv == TypeOK /\ FlightInv /\ [Next]_vars => FlightInv'
<1> SUFFICES ASSUME TypeOK, FlightInv, [Next]_vars PROVE FlightInv'
  OBVIOUS
<1>0. RunsTyped /\ Refreshes \subseteq Runs /\ Check \in Runs
  BY DEF TypeOK, Runs
<1>1. ASSUME UNCHANGED <<refreshTask, run>>
      PROVE  FlightInv'
  BY <1>1, FlightKept DEF Running
<1>2. ASSUME NEW c, NEW V, Request(c, V)
      PROVE  FlightInv'
  BY <1>0, <1>1, <1>2, RefreshFlight
     DEF Request, Begin, Answer, Settled, Refresh, FailedAgain, Resume
<1>3. CASE Operation
  BY <1>2, <1>3 DEF Operation, AnswerCall, ListAccess, OpenAccess, MobipassPost
<1>4. CASE Tick
  BY <1>0, <1>4, RefreshFlight DEF Tick
<1>5. ASSUME NEW r \in Runs, AuthenticateDevice(r)
      PROVE  FlightInv'
  <2>1. refreshTask' = refreshTask
    BY <1>5 DEF AuthenticateDevice, Unreachable, Outage, Refused, NoJwt, TryNext
  <2>2. run[r].phase = "auth"
    BY <1>5 DEF AuthenticateDevice, Unreachable, Outage, Refused, NoJwt
  <2>3. ASSUME NEW how, Finish(r, how)
        PROVE  \A s \in Refreshes : Running(s)' => Running(s)
    BY <1>0, <2>3, FinishRuns
  <2>4. ASSUME NEW new, run' = [run EXCEPT ![r] = new]
        PROVE  \A s \in Refreshes : Running(s)' => Running(s)
    BY <1>0, <2>2, <2>4 DEF Running, RunsTyped
  <2>5. ASSUME NEW last, TryNext(r, last)
        PROVE  \A s \in Refreshes : Running(s)' => Running(s)
    BY <2>3, <2>4, <2>5 DEF TryNext
  <2>6. \A s \in Refreshes : Running(s)' => Running(s)
    BY <1>5, <2>3, <2>5 DEF AuthenticateDevice, Unreachable, Outage, Refused, NoJwt
  <2> QED
    BY <2>1, <2>6, FlightKept
<1>6. ASSUME NEW r \in Refreshes, RefreshOnce(r)
      PROVE  FlightInv'
  <2>1. CASE Granted(r)
    <3>1. \A s \in Refreshes : Running(s)' => Running(s)
      BY <1>0, <2>1 DEF Granted, Running, RunsTyped
    <3> QED
      BY <2>1, <3>1, FlightKept DEF Granted
  <2>2. CASE Saved(r)
    <3>1. \A s \in Refreshes : Running(s)' => Running(s)
      BY <1>0, <2>2, FinishRuns DEF Saved
    <3> QED
      BY <2>2, <3>1, FlightKept DEF Saved
  <2> QED
    BY <1>0, <1>5, <1>6, <2>1, <2>2 DEF RefreshOnce
<1>7. CASE InitialCheck
  <2>1. CASE Checked
    <3>1. \A s \in Refreshes : Running(s)' => Running(s)
      BY <1>0, <2>1 DEF Checked, Running, RunsTyped, Idle
    <3> QED
      BY <2>1, <3>1, FlightKept DEF Checked
  <2> QED
    BY <1>0, <1>5, <1>7, <2>1 DEF InitialCheck
<1>8. CASE CancelCheck
  <2>1. \A s \in Refreshes : Running(s)' => Running(s)
    BY <1>0, <1>8 DEF CancelCheck, Running, RunsTyped, Idle
  <2> QED
    BY <1>8, <2>1, FlightKept DEF CancelCheck
<1>9. CASE Stop
  <2>1. CASE InFlight /\ Finish(refreshTask, "refresh cancelled")
    <3>1. refreshTask \in Runs
      BY <2>1 DEF InFlight, TypeOK, TaskTyped, Runs
    <3>2. \A r \in Refreshes : ~Running(r)'
      BY <1>0, <2>1, <3>1, FinishRuns DEF FlightInv
    <3> QED
      BY <3>2 DEF FlightInv
  <2>2. CASE ~InFlight /\ UNCHANGED <<run, call>>
    <3>1. \A r \in Refreshes : ~Running(r)
      BY <2>2, SlotsAssumption DEF FlightInv, InFlight, Refreshes, NoTask
    <3> QED
      BY <2>2, <3>1 DEF FlightInv, Running
  <2> QED
    BY <1>9, <2>1, <2>2 DEF Stop
<1>10. CASE (\E c \in Callers : CancelCall(c)) \/ Ticked \/ Expire \/ Revoke \/ KeyMoves
            \/ UNCHANGED vars
  BY <1>1, <1>10 DEF CancelCall, Ticked, Expire, Revoke, KeyMoves, vars
<1> QED
  BY <1>3, <1>4, <1>6, <1>7, <1>8, <1>9, <1>10 DEF Next

\* However many operations fail, one refresh at a time asks for a JWT.
THEOREM RefreshIsShared == Spec => []SingleFlight
<1>1. Init => FlightInv
  BY SlotsAssumption DEF Init, FlightInv, Running, Idle, Runs, Refreshes, Check
<1>2. FlightInv => SingleFlight
  BY DEF FlightInv, SingleFlight
<1> QED
  BY <1>1, <1>2, NextFlightInv, TypeCorrect, PTL DEF Spec

-----------------------------------------------------------------------------
(***************************************************************************)
(* Who is woken, and with what.                                            *)
(***************************************************************************)

\* Ending a run gives its result to waiters, and leaves the others alone.
LEMMA FinishGives ==
    ASSUME CallsTyped, NEW r, NEW how, Finish(r, how), NEW w \in Waiters
    PROVE  \/ call'[w] = call[w]
           \/ call'[w].at = "resumed" /\ call'[w].result = how
  BY CallFields DEF Finish, Woken, CallsTyped

\* A step of an operation gives its caller a result of the server, of the
\* refresh it awaited, or of a missing JWT, and leaves the others alone.
LEMMA RequestGives ==
    ASSUME CallsTyped, NEW c, NEW V, Request(c, V), NEW w \in Waiters
    PROVE  \/ call'[w] = call[w]
           \/ /\ w = c /\ call'[w].at /= "resumed"
              /\ call'[w].result \in V \union {"none", "auth", "unreachable", "expired",
                                               "failed", call[c].result}
<1>0. c \in Waiters /\ c \in Callers
  BY DEF Request, Waiters
<1>1. ASSUME NEW new, call' = [call EXCEPT ![c] = new], new.at /= "resumed",
             new.result \in V \union {"none", "auth", "unreachable", "expired",
                                      "failed", call[c].result}
      PROVE  \/ call'[w] = call[w]
             \/ /\ w = c /\ call'[w].at /= "resumed"
                /\ call'[w].result \in V \union {"none", "auth", "unreachable", "expired",
                                                 "failed", call[c].result}
  BY <1>0, <1>1 DEF CallsTyped
<1>2. CASE Begin(c)
  BY <1>1, <1>2, CallFields DEF Begin, End
<1>3. CASE Settled(c, V)
  BY <1>1, <1>3, CallFields DEF Settled, End
<1>4. CASE Refresh(c)
  BY <1>1, <1>4, CallFields DEF Refresh, RefreshJwt, NewRefresh
<1>5. CASE FailedAgain(c)
  BY <1>1, <1>5, CallFields DEF FailedAgain, End
<1>6. CASE Resume(c)
  BY <1>1, <1>6, CallFields DEF Resume, End
<1> QED
  BY <1>2, <1>3, <1>4, <1>5, <1>6 DEF Request, Answer

\* CancelIsPrivate is inductive: only async_stop() cuts a refresh.
LEMMA NextCancelIsPrivate ==
    TypeOK /\ CancelIsPrivate /\ [Next]_vars => CancelIsPrivate'
<1> SUFFICES ASSUME TypeOK, CancelIsPrivate, [Next]_vars PROVE CancelIsPrivate'
  OBVIOUS
<1>0. CallsTyped /\ stops \in 0 .. 2 /\ Timer \in Waiters /\ Callers \subseteq Waiters
  BY DEF TypeOK, ClientTyped, Waiters
<1>1. ASSUME stops' = stops,
             \A w \in Waiters : call'[w].result \in {call[w].result, "none"}
                                \/ call'[w].result /= "refresh cancelled"
      PROVE  CancelIsPrivate'
  BY <1>1 DEF CancelIsPrivate, Stopped
<1>2. ASSUME NEW c, NEW V, "refresh cancelled" \notin V, Request(c, V)
      PROVE  CancelIsPrivate'
  <2>1. stops' = stops
    BY <1>2 DEF Request, Begin, Answer, Settled, Refresh, FailedAgain, Resume, unaffected
  <2>2. \A w \in Waiters : call'[w].result = call[w].result
                           \/ call'[w].result /= "refresh cancelled"
    <3>1. TAKE w \in Waiters
    <3>2. \/ call'[w] = call[w]
          \/ /\ w = c
             /\ call'[w].result \in V \union {"none", "auth", "unreachable", "expired",
                                              "failed", call[c].result}
      BY <1>0, <1>2, RequestGives
    <3> QED
      BY <1>2, <3>2
  <2> QED
    BY <1>1, <2>1, <2>2
<1>3. CASE Operation
  BY <1>2, <1>3 DEF Operation, AnswerCall, ListAccess, OpenAccess, MobipassPost
<1>4. ASSUME NEW r, NEW how, Finish(r, how), how /= "refresh cancelled", stops' = stops
      PROVE  CancelIsPrivate'
  BY <1>0, <1>1, <1>4, FinishGives
<1>5. ASSUME NEW c \in Callers, CancelCall(c)
      PROVE  CancelIsPrivate'
  <2>1. \A w \in Waiters : call'[w].result = call[w].result \/ call'[w].result = "cancelled"
    BY <1>0, <1>5, CallFields DEF CancelCall, End, CallsTyped
  <2> QED
    BY <1>1, <1>5, <2>1 DEF CancelCall, unaffected
<1>6. CASE Tick
  <2>1. \A w \in Waiters : call'[w].result = call[w].result \/ call'[w].result = "none"
    BY <1>0, <1>6, CallFields DEF Tick, RefreshJwt, NewRefresh, CallsTyped
  <2> QED
    BY <1>1, <1>6, <2>1 DEF Tick, unaffected
<1>7. CASE Ticked
  <2>1. \A w \in Waiters : call'[w].result = call[w].result \/ call'[w].result = "none"
    BY <1>0, <1>7, CallFields DEF Ticked, CallsTyped
  <2> QED
    BY <1>1, <1>7, <2>1 DEF Ticked
<1>8. ASSUME call' = call, stops' = stops
      PROVE  CancelIsPrivate'
  BY <1>1, <1>8
<1>9. ASSUME NEW r, AuthenticateDevice(r)
      PROVE  CancelIsPrivate'
  <2>1. stops' = stops
    BY <1>9 DEF AuthenticateDevice, Unreachable, Outage, Refused, NoJwt, TryNext
  <2>2. \A last : Verdict(last) /= "refresh cancelled"
    BY DEF Verdict
  <2>3. ASSUME NEW last, TryNext(r, last)
        PROVE  CancelIsPrivate'
    BY <1>4, <1>8, <2>1, <2>2, <2>3 DEF TryNext
  <2> QED
    BY <1>4, <1>9, <2>1, <2>3 DEF AuthenticateDevice, Unreachable, Outage, Refused, NoJwt
<1>10. ASSUME NEW r \in Refreshes, RefreshOnce(r)
       PROVE  CancelIsPrivate'
  BY <1>4, <1>8, <1>9, <1>10 DEF RefreshOnce, Granted, Saved
<1>11. CASE InitialCheck \/ CancelCheck
  BY <1>8, <1>9, <1>11 DEF InitialCheck, Checked, CancelCheck
<1>12. CASE Stop
  <2>1. stops' = stops + 1
    BY <1>12 DEF Stop
  <2>2. stops' > 0
    BY <1>0, <2>1
  <2> QED
    BY <2>2 DEF CancelIsPrivate, Stopped
<1>13. CASE Expire
  <2>1. \A w \in Waiters : call'[w].result = call[w].result \/ call'[w].result = "none"
    BY <1>0, <1>13, CallFields DEF Expire
  <2> QED
    BY <1>1, <1>13, <2>1 DEF Expire
<1>14. CASE Revoke \/ KeyMoves \/ UNCHANGED vars
  BY <1>8, <1>14 DEF Revoke, KeyMoves, vars
<1> QED
  BY <1>3, <1>5, <1>6, <1>7, <1>10, <1>11, <1>12, <1>13, <1>14 DEF Next

\* A call that is cancelled takes no other one with it.
THEOREM CancelStaysPrivate == Spec => []CancelIsPrivate
<1>1. Init => CancelIsPrivate
  BY CallFields DEF Init, CancelIsPrivate
<1> QED
  BY <1>1, NextCancelIsPrivate, TypeCorrect, PTL DEF Spec

-----------------------------------------------------------------------------
(***************************************************************************)
(* Nobody is forgotten: a waiter awaits a refresh that runs, and so is     *)
(* woken when that ends, is stopped, or its slot is given to another.      *)
(***************************************************************************)
Awaited(w) == call[w].jwt = "none" /\ call[w].task \in Refreshes /\ Running(call[w].task)

NobodyForgotten == \A w \in Waiters : call[w].at = "refresh" => Awaited(w)

\* A step keeps NobodyForgotten if whoever goes on waiting does so for a run that
\* goes on.
LEMMA AwaitedKept ==
    ASSUME NobodyForgotten,
           \A w \in Waiters : \/ call'[w] = call[w]
                              \/ call'[w].at /= "refresh"
                              \/ Awaited(w)',
           \A w \in Waiters :
               call'[w] = call[w] /\ call[w].at = "refresh" => Running(call[w].task)'
    PROVE  NobodyForgotten'
  BY DEF NobodyForgotten, Awaited

\* When a run ends, all that awaited it are woken.
LEMMA FinishForgetsNobody ==
    ASSUME RunsTyped, CallsTyped, NobodyForgotten, NEW r \in Runs, NEW how, Finish(r, how)
    PROVE  NobodyForgotten'
<1>1. \A w \in Waiters : IF Waiting(w, r) THEN call'[w].at = "resumed" ELSE call'[w] = call[w]
  BY CallFields DEF Finish, Woken, CallsTyped
<1>2. \A s \in Runs : s /= r => run'[s] = run[s]
  BY DEF Finish, RunsTyped
<1>3. \A w \in Waiters : call'[w] = call[w] /\ call[w].at = "refresh" => Running(call[w].task)'
  <2> SUFFICES ASSUME NEW w \in Waiters, call'[w] = call[w], call[w].at = "refresh"
               PROVE  Running(call[w].task)'
    OBVIOUS
  <2>1. call[w].task \in Runs /\ Running(call[w].task)
    BY DEF NobodyForgotten, Awaited, Runs
  <2>2. call[w].task /= r
    BY <1>1 DEF Waiting
  <2>3. run'[call[w].task] = run[call[w].task]
    BY <1>2, <2>1, <2>2
  <2> QED
    BY <2>1, <2>3 DEF Running
<1> QED
  BY <1>1, <1>3, AwaitedKept

\* Whoever joins a refresh joins one that runs, or starts it.
LEMMA RefreshForgetsNobody ==
    ASSUME RunsTyped, CallsTyped, TaskTyped, NobodyForgotten, NEW v \in Waiters, RefreshJwt(v)
    PROVE  NobodyForgotten'
<1>1. \A r : Awaiting(r).at = "refresh" /\ Awaiting(r).jwt = "none" /\ Awaiting(r).task = r
  BY DEF Awaiting, Waiter
<1>2. CASE InFlight /\ call' = [call EXCEPT ![v] = Awaiting(refreshTask)]
           /\ UNCHANGED <<refreshTask, run>>
  <2>1. refreshTask \in Refreshes /\ Running(refreshTask)'
    BY <1>2 DEF InFlight, TaskTyped, Running
  <2>2. \A w \in Waiters : call'[w] = IF w = v THEN Awaiting(refreshTask) ELSE call[w]
    BY <1>2 DEF CallsTyped
  <2>3. \A w \in Waiters : call'[w] = call[w] \/ Awaited(w)'
    BY <1>1, <1>2, <2>1, <2>2 DEF Awaited, Running
  <2>4. \A w \in Waiters :
           call'[w] = call[w] /\ call[w].at = "refresh" => Running(call[w].task)'
    BY <1>2 DEF NobodyForgotten, Awaited, Running
  <2> QED
    BY <2>3, <2>4, AwaitedKept
<1>3. CASE NewRefresh(v)
  <2>1. PICK r : r = Free
    OBVIOUS
  <2>2. r \in Refreshes /\ r \in Runs
    BY <1>3, <2>1 DEF NewRefresh, Free, Runs
  <2>3. Begun.phase = "auth"
    BY DEF Begun, Trying
  <2>4. \A s \in Runs : run'[s] = IF s = r THEN Begun ELSE run[s]
    BY <1>3, <2>1 DEF NewRefresh, RunsTyped
  <2>5. \A s \in Refreshes : Running(s) \/ s = r => Running(s)'
    BY <2>3, <2>4 DEF Running, Runs
  <2>6. \A w \in Waiters : call'[w] = IF w = v THEN Awaiting(r) ELSE call[w]
    BY <1>3, <2>1 DEF NewRefresh, CallsTyped
  <2>7. \A w \in Waiters : call'[w] = call[w] \/ Awaited(w)'
    BY <1>1, <2>2, <2>5, <2>6 DEF Awaited
  <2>8. \A w \in Waiters :
           call'[w] = call[w] /\ call[w].at = "refresh" => Running(call[w].task)'
    BY <2>5 DEF NobodyForgotten, Awaited
  <2> QED
    BY <2>7, <2>8, AwaitedKept
<1> QED
  BY <1>2, <1>3 DEF RefreshJwt

\* NobodyForgotten is inductive.
LEMMA NextNobodyForgotten == TypeOK /\ NobodyForgotten /\ [Next]_vars => NobodyForgotten'
<1> SUFFICES ASSUME TypeOK, NobodyForgotten, [Next]_vars PROVE NobodyForgotten'
  OBVIOUS
<1>0. /\ CallsTyped /\ RunsTyped /\ TaskTyped /\ Timer \in Waiters /\ Callers \subseteq Waiters
      /\ Refreshes \subseteq Runs /\ Check \in Runs /\ Check \notin Refreshes
  BY DEF TypeOK, Waiters, Runs, Check, Refreshes
<1>1. ASSUME \A s \in Refreshes : run'[s].phase = run[s].phase,
             \A w \in Waiters : call'[w] = call[w] \/ call'[w].at /= "refresh"
      PROVE  NobodyForgotten'
  <2>1. \A w \in Waiters :
           call'[w] = call[w] /\ call[w].at = "refresh" => Running(call[w].task)'
    BY <1>1 DEF NobodyForgotten, Awaited, Running
  <2> QED
    BY <1>1, <2>1, AwaitedKept
<1>2. ASSUME NEW c, NEW V, Request(c, V)
      PROVE  NobodyForgotten'
  <2>1. c \in Waiters
    BY <1>2 DEF Request, Waiters
  <2>2. ASSUME NEW how, End(c, how), UNCHANGED run PROVE NobodyForgotten'
    <3>1. \A w \in Waiters : call'[w] = call[w] \/ call'[w].at = "ended"
      BY <1>0, <2>1, <2>2, CallFields DEF End, CallsTyped
    <3> QED
      BY <1>1, <2>2, <3>1
  <2>3. ASSUME NEW phase, NEW j, phase /= "refresh", UNCHANGED run,
               call' = [call EXCEPT ![c] = Requesting(phase, j)]
        PROVE  NobodyForgotten'
    <3>1. \A w \in Waiters : call'[w] = call[w] \/ call'[w].at = phase
      BY <1>0, <2>1, <2>3, CallFields DEF CallsTyped
    <3> QED
      BY <1>1, <2>3, <3>1
  <2>4. CASE Begin(c)
    BY <2>2, <2>3, <2>4 DEF Begin
  <2>5. CASE Settled(c, V) \/ FailedAgain(c)
    BY <2>2, <2>5 DEF Settled, FailedAgain
  <2>6. CASE Refresh(c)
    BY <1>0, <2>1, <2>6, RefreshForgetsNobody DEF Refresh
  <2>7. CASE Resume(c)
    BY <2>2, <2>3, <2>7 DEF Resume
  <2> QED
    BY <1>2, <2>4, <2>5, <2>6, <2>7 DEF Request, Answer
<1>3. CASE Operation
  BY <1>2, <1>3 DEF Operation, AnswerCall, ListAccess, OpenAccess, MobipassPost
<1>4. CASE (\E c \in Callers : CancelCall(c)) \/ Ticked
  <2>1. \A w \in Waiters : call'[w] = call[w] \/ call'[w].at \in {"ended", "idle"}
    BY <1>0, <1>4, CallFields DEF CancelCall, End, Ticked, CallsTyped
  <2>2. UNCHANGED run
    BY <1>4 DEF CancelCall, Ticked
  <2> QED
    BY <1>1, <2>1, <2>2
<1>5. CASE Tick
  BY <1>0, <1>5, RefreshForgetsNobody DEF Tick
<1>6. ASSUME NEW r \in Runs, AuthenticateDevice(r)
      PROVE  NobodyForgotten'
  <2>1. ASSUME NEW how, Finish(r, how) PROVE NobodyForgotten'
    BY <1>0, <2>1, FinishForgetsNobody
  <2>2. ASSUME NEW last, run' = [run EXCEPT ![r] = Trying(@.tel + 1, last)], UNCHANGED call
        PROVE  NobodyForgotten'
    <3>1. run[r].phase = "auth"
      BY <1>6 DEF AuthenticateDevice, Unreachable, Outage, Refused, NoJwt
    <3>2. \A s \in Refreshes : run'[s].phase = run[s].phase
      BY <1>0, <2>2, <3>1 DEF RunsTyped, Trying
    <3> QED
      BY <1>1, <2>2, <3>2
  <2>3. ASSUME NEW last, TryNext(r, last) PROVE NobodyForgotten'
    BY <2>1, <2>2, <2>3 DEF TryNext
  <2> QED
    BY <1>6, <2>1, <2>3 DEF AuthenticateDevice, Unreachable, Outage, Refused, NoJwt
<1>7. ASSUME NEW r \in Refreshes, RefreshOnce(r)
      PROVE  NobodyForgotten'
  <2>1. CASE Granted(r)
    <3>1. \A s \in Runs : run'[s].phase = run[s].phase \/ (s = r /\ run'[s].phase = "save")
      BY <1>0, <2>1 DEF Granted, RunsTyped, Run
    <3>2. UNCHANGED call
      BY <2>1 DEF Granted
    <3>3. \A w \in Waiters :
             call'[w] = call[w] /\ call[w].at = "refresh" => Running(call[w].task)'
      BY <1>0, <3>1, <3>2 DEF NobodyForgotten, Awaited, Running
    <3> QED
      BY <3>2, <3>3, AwaitedKept
  <2>2. CASE Saved(r)
    BY <1>0, <2>2, FinishForgetsNobody DEF Saved
  <2> QED
    BY <1>0, <1>6, <1>7, <2>1, <2>2 DEF RefreshOnce
<1>8. CASE InitialCheck \/ CancelCheck
  <2>1. CASE Checked \/ CancelCheck
    <3>1. UNCHANGED call /\ \A s \in Refreshes : run'[s].phase = run[s].phase
      BY <1>0, <2>1 DEF Checked, CancelCheck, RunsTyped
    <3> QED
      BY <1>1, <3>1
  <2> QED
    BY <1>0, <1>6, <1>8, <2>1 DEF InitialCheck
<1>9. CASE Stop
  <2>1. CASE InFlight /\ Finish(refreshTask, "refresh cancelled")
    <3>1. refreshTask \in Runs
      BY <2>1 DEF InFlight, TypeOK, TaskTyped, Runs
    <3> QED
      BY <1>0, <2>1, <3>1, FinishForgetsNobody
  <2> QED
    BY <1>1, <1>9, <2>1 DEF Stop
<1>10. CASE Expire
  <2>1. \A w \in Waiters : call'[w] = call[w] \/ call'[w].at /= "refresh"
    <3> SUFFICES ASSUME NEW w \in Waiters, call'[w] /= call[w] PROVE call'[w].at /= "refresh"
      OBVIOUS
    <3>1. call[w].jwt = "valid" /\ call'[w] = Requesting(call[w].at, "expired")
      BY <1>0, <1>10 DEF Expire
    <3>2. call[w].at /= "refresh"
      BY <3>1 DEF NobodyForgotten, Awaited
    <3> QED
      BY <3>1, <3>2, CallFields
  <2> QED
    BY <1>1, <1>10, <2>1 DEF Expire
<1>11. CASE Revoke \/ KeyMoves \/ UNCHANGED vars
  BY <1>1, <1>11 DEF Revoke, KeyMoves, vars
<1> QED
  BY <1>3, <1>4, <1>5, <1>7, <1>8, <1>9, <1>10, <1>11 DEF Next

\* No operation, and no tick of the timer, waits for a refresh that is over: not
\* when it fails, is stopped, or makes room for another.
THEOREM NobodyEverForgotten == Spec => []NobodyForgotten
<1>1. Init => NobodyForgotten
  BY CallFields DEF Init, NobodyForgotten
<1> QED
  BY <1>1, NextNobodyForgotten, TypeCorrect, PTL DEF Spec

-----------------------------------------------------------------------------
(***************************************************************************)
(* An expired JWT fails no operation: what a refresh brought is in the     *)
(* store when its waiters resume, and is still good when they ask again.   *)
(***************************************************************************)
Minted == \A r \in Refreshes : run[r].phase = "save" => jwt = "valid"
Armed == \A c \in Callers : call[c].at = "resumed" /\ call[c].result = "ok" => jwt = "valid"
RetriesFresh == \A c \in Callers : call[c].at = "retry" => call[c].jwt = "valid"
NeverExpired == \A w \in Waiters : call[w].result /= "expired"

FreshInv == Minted /\ Armed /\ RetriesFresh /\ NeverExpired

\* What a waiter may become without harm to FreshInv.
Fresh(w) ==
    \/ call'[w] = call[w]
    \/ /\ call'[w].result /= "expired"
       /\ call'[w].at = "resumed" /\ call'[w].result = "ok" => jwt' = "valid"
       /\ call'[w].at = "retry" => call'[w].jwt = "valid"

\* A step that spoils no JWT and leaves every waiter fresh keeps FreshInv.
LEMMA FreshKept ==
    ASSUME FreshInv, jwt' \in {jwt, "valid"}, \A w \in Waiters : Fresh(w),
           \A r \in Refreshes : run'[r].phase = "save" => run[r].phase = "save" \/ jwt' = "valid"
    PROVE  FreshInv'
<1>0. Callers \subseteq Waiters
  BY DEF Waiters
<1>1. Minted'
  BY DEF FreshInv, Minted
<1>2. Armed'
  BY <1>0 DEF FreshInv, Armed, Fresh
<1>3. RetriesFresh'
  BY <1>0 DEF FreshInv, RetriesFresh, Fresh
<1>4. NeverExpired'
  BY DEF FreshInv, NeverExpired, Fresh
<1> QED
  BY <1>1, <1>2, <1>3, <1>4 DEF FreshInv

\* A run that ends saves nothing any more.
LEMMA FinishSaves ==
    ASSUME RunsTyped, NEW s \in Runs, NEW how, Finish(s, how)
    PROVE  \A r \in Runs : run'[r].phase = "save" => run[r].phase = "save"
  BY DEF Finish, RunsTyped, Idle

\* Ending a run with anything but a late "ok" keeps FreshInv.
LEMMA FinishFresh ==
    ASSUME RunsTyped, CallsTyped, FreshInv, NEW s \in Runs, NEW how, Finish(s, how),
           how /= "expired", how = "ok" => jwt = "valid", jwt' = jwt
    PROVE  FreshInv'
<1>1. \A w \in Waiters : Fresh(w)
  BY FinishGives DEF Fresh
<1>2. \A r \in Refreshes : run'[r].phase = "save" => run[r].phase = "save"
  BY FinishSaves DEF Runs
<1> QED
  BY <1>1, <1>2, FreshKept

\* Joining a refresh, or starting one, keeps FreshInv.
LEMMA RefreshFresh ==
    ASSUME RunsTyped, CallsTyped, FreshInv, NEW v \in Waiters, RefreshJwt(v), jwt' = jwt
    PROVE  FreshInv'
<1>1. \A w \in Waiters : Fresh(w)
  BY CallFields DEF RefreshJwt, NewRefresh, CallsTyped, Fresh
<1>2. Begun.phase = "auth" /\ Refreshes \subseteq Runs
  BY DEF Begun, Trying, Runs
<1>3. \A r \in Refreshes : run'[r].phase = "save" => run[r].phase = "save"
  BY <1>2 DEF RefreshJwt, NewRefresh, RunsTyped
<1> QED
  BY <1>1, <1>3, FreshKept

\* A step of an operation keeps FreshInv.
LEMMA RequestFresh ==
    ASSUME RunsTyped, CallsTyped, FreshInv, NEW c, NEW V, "expired" \notin V, Request(c, V)
    PROVE  FreshInv'
<1>0. c \in Waiters /\ c \in Callers /\ jwt' = jwt
  BY DEF Request, Waiters, Begin, Answer, Settled, Refresh, FailedAgain, Resume, unaffected
<1>1. ASSUME NEW new, call' = [call EXCEPT ![c] = new], UNCHANGED run,
             new.result /= "expired", new.at /= "resumed",
             new.at = "retry" => new.jwt = "valid"
      PROVE  FreshInv'
  <2>1. \A w \in Waiters : Fresh(w)
    BY <1>0, <1>1 DEF CallsTyped, Fresh
  <2> QED
    BY <1>0, <1>1, <2>1, FreshKept
<1>2. ASSUME NEW how, End(c, how), how /= "expired", UNCHANGED run
      PROVE  FreshInv'
  <2>1. Given("ended", how).at = "ended" /\ Given("ended", how).result = how
    BY CallFields
  <2> QED
    BY <1>1, <1>2, <2>1 DEF End
<1>3. CASE Begin(c)
  BY <1>1, <1>2, <1>3, CallFields DEF Begin
<1>4. CASE Settled(c, V)
  BY <1>2, <1>4 DEF Settled
<1>5. CASE Refresh(c)
  BY <1>0, <1>5, RefreshFresh DEF Refresh
<1>6. CASE call[c].at = "retry" /\ FailedAgain(c)
  <2>1. call[c].jwt = "valid"
    BY <1>0, <1>6 DEF FreshInv, RetriesFresh
  <2> QED
    BY <1>2, <1>6, <2>1 DEF FailedAgain
<1>7. CASE Resume(c)
  <2>1. CASE call[c].result = "ok"
    <3>1. jwt = "valid"
      BY <1>0, <1>7, <2>1 DEF Resume, FreshInv, Armed
    <3>2. /\ Requesting("retry", jwt).jwt = "valid"
          /\ Requesting("retry", jwt).at = "retry"
          /\ Requesting("retry", jwt).result = "none"
      BY <3>1 DEF Requesting, Waiter
    <3>3. call' = [call EXCEPT ![c] = Requesting("retry", jwt)] /\ UNCHANGED run
      BY <1>7, <2>1 DEF Resume
    <3> QED
      BY <1>1, <3>2, <3>3
  <2>2. CASE call[c].result /= "ok"
    BY <1>0, <1>2, <1>7, <2>2 DEF Resume, FreshInv, NeverExpired
  <2> QED
    BY <2>1, <2>2
<1> QED
  BY <1>3, <1>4, <1>5, <1>6, <1>7 DEF Request, Answer

\* A candidate that fails keeps FreshInv.
LEMMA AuthenticateFresh ==
    ASSUME RunsTyped, CallsTyped, FreshInv, NEW s \in Runs, AuthenticateDevice(s)
    PROVE  FreshInv'
<1>1. jwt' = jwt
  BY DEF AuthenticateDevice, Unreachable, Outage, Refused, NoJwt, TryNext
<1>2. \A how : Finish(s, how) /\ how \notin {"ok", "expired"} => FreshInv'
  BY <1>1, FinishFresh
<1>3. \A last : Verdict(last) \notin {"ok", "expired"}
  BY DEF Verdict
<1>4. ASSUME NEW last, TryNext(s, last)
      PROVE  FreshInv'
  <2>1. CASE Finish(s, Verdict(last))
    BY <1>2, <1>3, <2>1
  <2>2. CASE run' = [run EXCEPT ![s] = Trying(@.tel + 1, last)] /\ UNCHANGED call
    <3>1. \A r \in Refreshes : run'[r].phase = "save" => run[r].phase = "save"
      BY <2>2 DEF RunsTyped, Runs, Trying
    <3>2. \A w \in Waiters : Fresh(w)
      BY <2>2 DEF Fresh
    <3> QED
      BY <1>1, <3>1, <3>2, FreshKept
  <2> QED
    BY <1>4, <2>1, <2>2 DEF TryNext
<1> QED
  BY <1>2, <1>4 DEF AuthenticateDevice, Unreachable, Outage, Refused, NoJwt

\* FreshInv is inductive.
LEMMA NextFreshInv == TypeOK /\ FreshInv /\ [Next]_vars => FreshInv'
<1> SUFFICES ASSUME TypeOK, FreshInv, [Next]_vars PROVE FreshInv'
  OBVIOUS
<1>0. /\ CallsTyped /\ RunsTyped /\ Timer \in Waiters /\ Callers \subseteq Waiters
      /\ Refreshes \subseteq Runs /\ Check \in Runs
  BY DEF TypeOK, Waiters, Runs
<1>1. ASSUME UNCHANGED run, jwt' \in {jwt, "valid"}, \A w \in Waiters : Fresh(w)
      PROVE  FreshInv'
  BY <1>1, FreshKept
<1>2. CASE Operation
  BY <1>0, <1>2, RequestFresh DEF Operation, AnswerCall, ListAccess, OpenAccess, MobipassPost
<1>3. ASSUME NEW c \in Callers, CancelCall(c)
      PROVE  FreshInv'
  <2>1. \A w \in Waiters : Fresh(w)
    BY <1>0, <1>3, CallFields DEF CancelCall, End, CallsTyped, Fresh
  <2> QED
    BY <1>1, <1>3, <2>1 DEF CancelCall, unaffected
<1>4. CASE Tick
  BY <1>0, <1>4, RefreshFresh DEF Tick, unaffected
<1>5. CASE Ticked
  <2>1. \A w \in Waiters : Fresh(w)
    BY <1>0, <1>5, CallFields DEF Ticked, CallsTyped, Fresh
  <2> QED
    BY <1>1, <1>5, <2>1 DEF Ticked
<1>6. ASSUME NEW r \in Refreshes, RefreshOnce(r)
      PROVE  FreshInv'
  <2>1. CASE Granted(r)
    <3>1. \A w \in Waiters : Fresh(w)
      BY <2>1 DEF Granted, Fresh
    <3> QED
      BY <2>1, <3>1, FreshKept DEF Granted
  <2>2. CASE Saved(r)
    <3>1. jwt = "valid" /\ jwt' = jwt
      BY <1>6, <2>2 DEF Saved, FreshInv, Minted
    <3> QED
      BY <1>0, <1>6, <2>2, <3>1, FinishFresh DEF Saved
  <2> QED
    BY <1>0, <1>6, <2>1, <2>2, AuthenticateFresh DEF RefreshOnce
<1>7. CASE InitialCheck \/ CancelCheck
  <2>1. CASE Checked \/ CancelCheck
    <3>1. \A r \in Refreshes : run'[r].phase = "save" => run[r].phase = "save"
      BY <1>0, <2>1 DEF Checked, CancelCheck, RunsTyped, Idle
    <3>2. \A w \in Waiters : Fresh(w)
      BY <2>1 DEF Checked, CancelCheck, Fresh
    <3> QED
      BY <2>1, <3>1, <3>2, FreshKept DEF Checked, CancelCheck
  <2> QED
    BY <1>0, <1>7, <2>1, AuthenticateFresh DEF InitialCheck
<1>8. CASE Stop
  <2>1. CASE InFlight /\ Finish(refreshTask, "refresh cancelled")
    <3>1. refreshTask \in Runs
      BY <2>1 DEF InFlight, TypeOK, TaskTyped, Runs
    <3> QED
      BY <1>0, <1>8, <2>1, <3>1, FinishFresh DEF Stop
  <2>2. CASE UNCHANGED <<run, call>>
    BY <1>1, <1>8, <2>2 DEF Stop, Fresh
  <2> QED
    BY <1>8, <2>1, <2>2 DEF Stop
<1>9. CASE Expire
  <2>1. Minted' /\ Armed'
    <3>1. ASSUME NEW c \in Callers PROVE ~(call'[c].at = "resumed")
      BY <1>0, <1>9, <3>1, CallFields DEF Expire
    <3> QED
      BY <1>9, <3>1 DEF Expire, Minted, Armed
  <2>2. RetriesFresh'
    BY <1>0, <1>9, CallFields DEF Expire, RetriesFresh
  <2>3. NeverExpired'
    BY <1>9, CallFields DEF Expire, FreshInv, NeverExpired
  <2> QED
    BY <2>1, <2>2, <2>3 DEF FreshInv
<1>10. CASE Revoke \/ KeyMoves \/ UNCHANGED vars
  <2>1. \A w \in Waiters : Fresh(w)
    BY <1>10 DEF Revoke, KeyMoves, vars, Fresh
  <2> QED
    BY <1>1, <1>10, <2>1 DEF Revoke, KeyMoves, vars
<1> QED
  BY <1>2, <1>3, <1>4, <1>5, <1>6, <1>7, <1>8, <1>9, <1>10 DEF Next

\* No operation ends with the error of an expired JWT: the second request
\* carries one that the refresh has just brought, whoever started it.
THEOREM ExpiryAlwaysCured == Spec => []ExpiryIsCured
<1>1. Init => FreshInv
  <2> SUFFICES ASSUME Init PROVE FreshInv
    OBVIOUS
  <2>1. \A r \in Refreshes : run[r].phase /= "save"
    BY DEF Init, Runs, Begun, Trying, Idle
  <2>2. \A w \in Waiters : call[w].at = "idle" /\ call[w].result = "none"
    BY CallFields DEF Init
  <2> QED
    BY <2>1, <2>2 DEF FreshInv, Minted, Armed, RetriesFresh, NeverExpired, Waiters
<1>2. FreshInv => ExpiryIsCured
  BY DEF FreshInv, NeverExpired, ExpiryIsCured, Waiters
<1> QED
  BY <1>1, <1>2, NextFreshInv, TypeCorrect, PTL DEF Spec

-----------------------------------------------------------------------------
(***************************************************************************)
(* A reauth means a revocation, when the form of the number the account is *)
(* keyed on is the last one tried and the server does not limit the rate:  *)
(* a waiter that is told "auth" was told so by a refusal of that form, and *)
(* the credentials are revoked.                                            *)
(***************************************************************************)
NoLimit == "limit" \notin Server
LastFormRegistered == registered = NumTels

VerdictInv ==
    LastFormRegistered =>
        /\ ReauthMeansRevoked
        /\ \A w \in Waiters : call[w].at = "resumed" /\ call[w].result = "auth" => revoked

\* The account keeps the form of the number it is keyed on.
LEMMA RegisteredOnce == [Next]_vars => registered' = registered
BY DEF Next, Operation, AnswerCall, ListAccess, OpenAccess, MobipassPost, Request, Begin, Answer,
   Settled, Refresh, FailedAgain, Resume, unaffected, CancelCall, Tick, Ticked, RefreshOnce,
   AuthenticateDevice, Unreachable, Outage, Refused, NoJwt, TryNext, Granted, Saved, InitialCheck,
   Checked, CancelCheck, Stop, Expire, Revoke, KeyMoves, vars, server

\* VerdictInv is inductive.
LEMMA NextVerdictInv ==
    ASSUME NoLimit
    PROVE  TypeOK /\ VerdictInv /\ [Next]_vars => VerdictInv'
<1> SUFFICES ASSUME TypeOK, LastFormRegistered, VerdictInv, [Next]_vars PROVE VerdictInv'
  <2>1. [Next]_vars => registered' = registered
    BY RegisteredOnce
  <2> QED
    BY <2>1 DEF VerdictInv, LastFormRegistered
<1>0. CallsTyped /\ RunsTyped /\ Timer \in Waiters /\ Callers \subseteq Waiters
      /\ Refreshes \subseteq Runs /\ Check \in Runs
  BY DEF TypeOK, Waiters, Runs
<1>1. ASSUME revoked' = revoked, reauth' = reauth,
             \A w \in Waiters : \/ call'[w] = call[w]
                                \/ call'[w].at /= "resumed"
                                \/ call'[w].result /= "auth"
                                \/ revoked
      PROVE  VerdictInv'
  BY <1>1 DEF VerdictInv, ReauthMeansRevoked
<1>2. ASSUME NEW c, NEW V, Request(c, V)
      PROVE  VerdictInv'
  <2>1. revoked' = revoked /\ reauth' = reauth
    BY <1>2 DEF Request, Begin, Answer, Settled, Refresh, FailedAgain, Resume, unaffected, server
  <2> QED
    BY <1>0, <1>1, <1>2, <2>1, RequestGives
<1>3. CASE Operation
  BY <1>2, <1>3 DEF Operation, AnswerCall, ListAccess, OpenAccess, MobipassPost
<1>4. ASSUME NEW r, NEW how, Finish(r, how), how /= "auth" \/ revoked,
             revoked' = revoked, reauth' = reauth
      PROVE  VerdictInv'
  BY <1>0, <1>1, <1>4, FinishGives
<1>5. ASSUME call' = call, revoked' = revoked, reauth' = reauth
      PROVE  VerdictInv'
  BY <1>1, <1>5
<1>6. ASSUME NEW c \in Callers, CancelCall(c)
      PROVE  VerdictInv'
  <2>1. \A w \in Waiters : call'[w] = call[w] \/ call'[w].at = "ended"
    BY <1>0, <1>6, CallFields DEF CancelCall, End, CallsTyped
  <2> QED
    BY <1>1, <1>6, <2>1 DEF CancelCall, unaffected, server
<1>7. CASE Tick
  <2>1. \A w \in Waiters : call'[w] = call[w] \/ call'[w].at = "refresh"
    BY <1>0, <1>7, CallFields DEF Tick, RefreshJwt, NewRefresh, CallsTyped
  <2> QED
    BY <1>1, <1>7, <2>1 DEF Tick, unaffected, server
<1>8. CASE Ticked
  <2>1. \A w \in Waiters : call'[w] = call[w] \/ call'[w].at = "idle"
    BY <1>0, <1>8, CallFields DEF Ticked, CallsTyped
  <2>2. revoked' = revoked
    BY <1>8 DEF Ticked, server
  <2>3. reauth' => revoked
    BY <1>0, <1>8 DEF Ticked, VerdictInv, ReauthMeansRevoked
  <2> QED
    BY <2>1, <2>2, <2>3 DEF VerdictInv, ReauthMeansRevoked
<1>9. ASSUME NEW r \in Runs, AuthenticateDevice(r)
      PROVE  VerdictInv'
  <2>1. revoked' = revoked /\ reauth' = reauth
    BY <1>9 DEF AuthenticateDevice, Unreachable, Outage, Refused, NoJwt, TryNext, server
  <2>2. ASSUME NEW last, TryNext(r, last), last = "outage" \/ ~Recognised(r)
        PROVE  VerdictInv'
    <3>1. LastTel(run[r].tel) => Verdict(last) /= "auth" \/ revoked
      BY <2>2 DEF LastTel, LastFormRegistered, Verdict, Recognised
    <3> QED
      BY <1>4, <1>5, <2>1, <2>2, <3>1 DEF TryNext
  <2>3. CASE Unreachable(r)
    BY <1>4, <2>1, <2>3 DEF Unreachable
  <2> QED
    BY <1>9, <2>2, <2>3, NoLimit DEF AuthenticateDevice, Outage, Refused, NoJwt, NoLimit
<1>10. ASSUME NEW r \in Refreshes, RefreshOnce(r)
       PROVE  VerdictInv'
  <2>1. CASE Granted(r)
    BY <1>5, <2>1 DEF Granted, server
  <2>2. CASE Saved(r)
    BY <1>4, <2>2 DEF Saved, server
  <2> QED
    BY <1>0, <1>9, <1>10, <2>1, <2>2 DEF RefreshOnce
<1>11. CASE InitialCheck
  <2>1. CASE Checked
    BY <1>5, <2>1 DEF Checked, server
  <2> QED
    BY <1>0, <1>9, <1>11, <2>1 DEF InitialCheck
<1>12. CASE CancelCheck
  BY <1>5, <1>12 DEF CancelCheck, server
<1>13. CASE Stop
  <2>1. revoked' = revoked /\ reauth' = reauth
    BY <1>13 DEF Stop, server
  <2> QED
    BY <1>4, <1>5, <1>13, <2>1 DEF Stop
<1>14. CASE Expire
  <2>1. revoked' = revoked /\ reauth' = reauth
    BY <1>14 DEF Expire, server
  <2>2. \A w \in Waiters : call'[w] = call[w] \/ call'[w].result = "none"
    BY <1>0, <1>14, CallFields DEF Expire, CallsTyped
  <2> QED
    BY <1>1, <2>1, <2>2
<1>15. CASE Revoke
  BY <1>15 DEF Revoke, VerdictInv, ReauthMeansRevoked
<1>16. CASE KeyMoves \/ UNCHANGED vars
  BY <1>5, <1>16 DEF KeyMoves, vars, server
<1> QED
  BY <1>3, <1>6, <1>7, <1>8, <1>10, <1>11, <1>12, <1>13, <1>14, <1>15, <1>16 DEF Next

\* When the form of the number the account is keyed on is tried last, and the
\* server limits no rate, the user is asked to pair again only if the credentials
\* are revoked: however many forms there are, whatever outages the server has.
THEOREM LastFormDecides ==
    ASSUME NoLimit
    PROVE  Spec => [](LastFormRegistered => ReauthMeansRevoked)
<1>1. Init => VerdictInv
  BY CallFields DEF Init, VerdictInv, ReauthMeansRevoked
<1>2. VerdictInv => (LastFormRegistered => ReauthMeansRevoked)
  BY DEF VerdictInv
<1>3. TypeOK /\ VerdictInv /\ [Next]_vars => VerdictInv'
  BY NoLimit, NextVerdictInv
<1> QED
  BY <1>1, <1>2, <1>3, TypeCorrect, PTL DEF Spec

\* With one form of the phone number and no rate limit, whatever outages the
\* server has, the user is asked to pair again only if the credentials are
\* revoked.
THEOREM ReauthIsDeserved ==
    ASSUME NumTels = 1, NoLimit
    PROVE  Spec => []ReauthMeansRevoked
<1>1. TypeOK => LastFormRegistered
  <2>1. NumTels = 1
    OBVIOUS
  <2> QED
    BY <2>1 DEF TypeOK, ServerTyped, LastFormRegistered
<1>2. Spec => [](LastFormRegistered => ReauthMeansRevoked)
  BY NoLimit, LastFormDecides
<1> QED
  BY <1>1, <1>2, TypeCorrect, PTL
=============================================================================
