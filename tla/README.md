# Verification of the Intratone integration

TLA+ models of the Home Assistant custom component in `src/custom_components/intratone`
(a video doorbell: push notifications, SIP calls, an ffmpeg bridge, a REST API), the TLC
runs that check them and the TLAPS proofs about them. Line numbers refer to the commit
under `src/`. `PROJECT.json` maps every definition to the lines it stands for.

## 1. Inventory

| Component | State it keeps | Operations | Depends on |
|---|---|---|---|
| FCM listener (`fcm_listener.py`) | push client, supervisor task, connected flag | start, stop, dispatch of a push as a new task, token check | coordinator, store |
| Coordinator (`coordinator.py`) | ring on display (`data`), parked invite (`_pending`), SIP call it tracks | ring push, cancel push, `async_ensure_call_started`, `async_wait_for_stream`, `async_open_door`, `set_stream_url` | call manager, REST client |
| Call manager (`call_manager.py`) | active call, SIP client, bound sockets, spawn, grace and max-duration tasks | `start_call`, `abort_active_call`, `async_stop`, SIP callbacks, timers | SIP client, bridge |
| SIP client (`sip_client.py`) | one call: state, CSeq, Via branch, media, re-INVITE flag | `call`, MESSAGE, re-INVITE, `hang_up`, every response and request received | TCP connection |
| Audio bridge (`audio_bridge.py`) | generation, prewarm task, ffmpeg, three RTP endpoints, push event | `prewarm`, `start`, `stop`, unwinding | ffmpeg, go2rtc |
| RTP handling (`audio_bridge.py`) | keyframe gate, placeholder clock, PLI loop | datagrams in, silence out | UDP |
| REST client (`rest_api.py`) | refresh task, Mobipass flags; the JWT is in the store | four operations with a retry, JWT refresh, 12-hour timer, `async_stop` | store, config entry |
| Mobipass repair (`__init__.py`) | whether the repair is raised | evaluation at setup and after a refresh | REST client |
| Credentials store (`store.py`) | JWT, FCM token and credentials, cached | load, update, remove | a file |
| Set-up and unload (`__init__.py`) | the runtime objects | set-up in order, unload in order, unload hooks | all |
| Config flow, repair flows | the form the user is at | pairing, SMS, reauth, re-pair, key transfer | REST functions, store |
| Entities | momentary states, last ring | camera pull, unlock, backlight, test button, ring event | coordinator |
| `digest_auth.py`, `stun.py`, `app_credentials.py`, `go2rtc.py`, `diagnostics.py` | none | pure functions, probes | |

How they interact. A ring push is dispatched as a task of its own; it aborts the call that
is still tracked and parks the new invite. Nothing is dialled until a user looks at the
camera or unlocks: that task calls `start_call` (a TCP connect, then the INVITE). The 200 OK
schedules `_spawn_bridge`, which starts the bridge and calls `set_stream_url` back; the tasks
that wait for the stream go on. A BYE starts a grace of 60 seconds in which the stream
stays up; then the bridge is stopped and the coordinator told. A cancel push and an unload
end the call at once. Operations of the REST client that get an error share one refresh.

All of it runs on one asyncio event loop, so what is hard is not data races but what
happens between the two sides of an `await`: a guard that was tested before it, an attribute
that was replaced during it, a cancellation delivered in it, two handlers that resume in
either order. Next to that: a SIP server that retransmits, crosses our requests and never
says BYE, an ffmpeg that ignores SIGTERM, and a REST server that limits, fails and revokes.
The hazards are listed in `PROJECT.json`, each at its line.

What makes each component correct:

- SIP client: numbers increase; ACK and CANCEL name their INVITE; one established and one
  terminated callback; nothing after a goodbye; renegotiation never revives video.
- Call manager and coordinator: one dialog, the one the manager holds; the ring on display
  can be answered, and its stream, door code and ports are its own; every call ends and
  every ffmpeg is reaped; a stop is final.
- RTP handling: ffmpeg is always fed, with frames it can decode, on a clock that advances;
  a closed gate opens again; a call is degraded only when no video came.
- Bridge: no process or endpoint out of reach; a valid start keeps what it built; starts
  and stops end.
- REST client: one refresh at a time; an expired JWT fails no operation; a cancelled
  caller harms nobody; a reauth if and only if the credentials are revoked; the repair
  settles.
- Store, flows, listener: the token Intratone pushes to is the one the listener is on, or the
  repair says so; one push client at a time, and one again after each crash; an entry that is
  not set up leaves nothing running.

## 2. Modules

| Module | Models | A step is |
|---|---|---|
| `Dialog` | what the SIP client of one call promises the manager (abstract) | a promise |
| `Bridge` | what the audio bridge promises the manager (abstract) | a promise |
| `SipClient` | one `IntratoneSipClient`, its TCP connection, the server | one callback or method (they do not await) |
| `CallManager` | `CallManager`; SIP client and bridge reduced to what it depends on | the code between two awaits that suspend |
| `Coordinator` | `IntratoneCoordinator` composed with `CallManager` (EXTENDS), pushes, users, unload | likewise |
| `AudioBridge` | `prewarm`, `start`, `stop` and their tasks | likewise |
| `VideoGate` | `_VideoRtpProtocol` and `_pli_loop` of one call, on a clock | one callback, or the loop between two waits |
| `RestApi` | `IntratoneAPI`, the Mobipass repair, the server | the code between two requests |
| `Pairing` | the stores on one credentials file, tokens, the flows that register one, set-up and removal | the code between two awaits that suspend |
| `FcmListener` | the supervisor, the push clients, `async_stop` | likewise |
| `Runtime` | set-up, its failures, unload and unload hooks, composed with `FcmListener` (EXTENDS) | likewise |
| `SipClient_proofs`, `Coordinator_proofs`, `AudioBridge_proofs`, `VideoGate_proofs`, `RestApi_proofs`, `Pairing_proofs`, `Runtime_proofs` | theorems and proofs | |

There is no separate MC module: the constants are small numbers, strings and model values, which
the `.cfg` files give directly. Each variable is commented with the attribute it stands for.
Some correspondences are worth spelling out.

**Dialog, between SipClient and CallManager.** The manager sees of a SIP client only its two
callbacks and the calls it makes to it. `Dialog` states what it may rely on: a call is placed once,
established at most once and only while it rings, ends once, and is never established after
its transport was closed. `SipClient` implements it (`ImplementsDialog`, by the refinement
mapping `Promise`); the calls of `Coordinator` do no more than it allows (`CallsKeepPromise`, one
instance per ring). Both refinements are proved, so the reduced SIP client of `CallManager` is
justified by the detailed one.

**Bridge, between AudioBridge and CallManager.** `Bridge` states what the manager may rely on when
it begins a start only on an empty bridge: a start that returns its URL leaves an ffmpeg, kept for its call
until a stop; a start that fails, is cancelled or is passed by a stop leaves none. `AudioBridge` implements it
(`ImplementsBridge`), and the manager's coarser bridge does no more, and starts nothing before the bridge is
empty (`BridgeKeepsPromise`). The stop of an unload does not count as a wait in that
mapping: a 200 OK may schedule a start behind it, which the second stop, the unload hook's, ends. Both
refinements are proved.

**SipClient.** A message keeps its method or response class, its CSeq number, the INVITE its
branch was drawn for and the media of its SDP. `toServer` and `toClient` are the two
directions of the connection; `toClient` includes the receive buffer, so a read that
delivers several messages is several `Dispatch` steps in a row. The actions `SrvXxx` are the server, external:
it answers late, challenges, accepts, refuses, retransmits, refreshes the session and
hangs up.

**CallManager and Coordinator.** A call is named by its ring. `dialog[c]` is the state of the
SIP client of `c` (`SipClient` has the detail). `spawn[c]` is `_spawn_bridge`: scheduled,
adopting the prewarmed ffmpeg, spawning one, waiting for its first push. `stale` is the set of
starts whose generation a `stop()` has passed. `frame[t]` says where a push, a cancel or the unload is suspended
inside `abort_active_call` or `async_stop`; a handler that does not suspend is one step
(`Push`, `Cancel`), one that does is two or three (`PushAborts`, `HandlerStopsBridge`, `PushResumes`). The constant
`Races` names windows in which pushes and the unload may arrive: during a TCP connect
(`"connect"`), while another handler is suspended (`"overlap"`), while the bridge is being stopped
after a grace (`"teardown"`). A run that leaves a window out says what holds
as long as nothing arrives in it.

**AudioBridge.** A start is named by its call and so is all it builds. `start[c]` keeps the await it is
suspended at, its generation and its local process; `stop[s]` likewise. `CallManager` has a
coarser bridge: there the wait for a prewarmed ffmpeg inside `stop()` is one step; `Bridge` relates the two.

**VideoGate.** A tick is the placeholder's interval of half a second; `Tick` waits until every
callback due at this instant has run, which is how the model states that the loop keeps
up. A packet is a whole frame, key or delta; `net` holds those in flight, which may be lost. Timestamps are
taken modulo `Width` where the code masks them with 2^32, and nowhere else: `lastOut` and
`offset` are the unwrapped attributes they are in the code. `ref` is a history variable: what the decoder has as reference.

**RestApi.** `run[r]` is a run of `authenticate_device` with its candidate and last error; `call[w]`
is an operation or the timer, with the JWT its request carries. `jwt` says how the
server would judge the JWT, not what it is.

**Pairing.** Tokens are numbered as Google issues them. `cache` is the store of the running entry and `flow[f]`
that of a flow; each saves its whole cache, so the later write wins, and a write is two steps. Nothing waits
for a write: not the unload, nor the set-up, which opens a store of its own. What the stores of earlier entries may
still write is `late`: the write that was in flight, the credentials of a `_persist_creds` task
(`fcm_listener.py:287`), or the whole cache once more for an operation whose refresh outlived the unload
(`rest_api.py:588`, `store.py:78`); `LateSave` writes it behind the back of the running entry. `target` is the
token Intratone pushes to; only `registercodes` moves it. `Behind` says that some store has a token that works and
the file has other credentials than those: `Submit` keeps a reauth or a repair from beginning there, unless
`"behind"` is in `Races`.

**FcmListener and Runtime.** `sup` is the supervisor task: where it waits, how many health checks its run
has survived, and how often the backoff was doubled. Nothing but the library changes `client[k]` to started or to
stopping by itself. `stage` counts the ordered stops of `async_unload_entry` that have
ended; `hooks` are the stops that Home Assistant runs afterwards as concurrent tasks, also after a set-up that failed.

## 3. Runs

Passing runs:

| Run | Bounds | Shows |
|---|---|---|
| `sip_dialog` | 3 requests after the INVITE, the server writes while fewer than 3 messages are in flight, video, fairness | `CSeqIncreasing`, `CancelNamesInvite`, `ReinviteAnswered`, `AnswerAcked`, and the refinement `ImplementsDialog` |
| `doorbell_teardown` | 2 rings, cancels by call_id and by uuid, pushes also during a teardown, fairness | `ManagerTracksDialog`, `StreamServed`, `DoorCodeMatchesCall`, `BridgeUsesOfferedPort`, `BridgeReaped`, `StopIsFinal`, `RingStaysAnswerable`, `RingNotBlocked`, `CallsKeepPromise`, `BridgeKeepsPromise`, `CallSettles`, `StopReaps` |
| `doorbell_races` | 2 rings, every race | `DialledOnce` |
| `bridge_stops` | 2 calls, 2 stops, fairness | `NothingLost`, `ValidStartIntact`, `UnwindsItsOwn`, `TasksEnd`, and the refinement `ImplementsBridge` |
| `video_gate` | 7 seconds, 2 frames in flight, timers of 1 to 2 seconds, 32 timestamps, two phases of the door's clock, frames lost and late | `FfmpegFed`, `GateReopens`, `DecodableFrames`, `TimestampsAdvance`, `DowngradeJustified` |
| `api_calls` | 3 operations and the timer, 1 form, 2 refresh slots, revocation | `SingleFlight`, `ExpiryIsCured`, `CancelIsPrivate` |
| `api_live` | the Mobipass operation and the timer, revocation, key moves, fairness | `ReauthMeansRevoked`, `CallsEnd`, `RevocationNoticed`, `IssueSettles` |
| `pairing` | 3 tokens, 1 of them kept for what is not a flow, 1 late write at a time, 2 flows one after the other, reloads, rotation, fairness | `SilenceSignalled`, `StoredIsAdopted` |
| `runtime` | 2 push clients at a time, 3 doublings of the backoff, a run is healthy after 2 checks, set-ups that fail and are retried, reloads, fairness; deadlock is checked | `NoOrphan`, `UnloadedIsQuiet` (which includes that the push source stops first), `Reconnects` |

Every property of a passing run is violated by at least one mutant of the model, listed in
`PROJECT.json`: a dropped guard, a missing reset, a swapped order. The type invariants are not
among the runs' properties: they are proved (section 4).

Runs that refute what the code says of itself (the findings):

| Run | Refuted | Why |
|---|---|---|
| `sip_refusal` | `RefusalKeepsCall` | a retransmitted 200 OK clears the flag of the re-INVITE in progress, whose refusal then ends the call |
| `doorbell_two_dialogs` | `OneDialog` | two connects pass the guard |
| `api_outage` | `ReauthMeansRevoked` | only the error of the last form of the number is judged |

What `sip_refusal` refutes is promised twice (`sip_client.py:422-423`, `574-578`). `ReinviteAnswered` and
`AnswerAcked` do not see it: once the flag is down the first says nothing, and the second is about the INVITE that
places the call. It says no more because of another defect: an ACK takes the number of the last MESSAGE
(`sip_client.py:882`). A re-INVITE that is accepted after a MESSAGE stays unacknowledged, and one that is refused after
a MESSAGE is acknowledged with its own branch and the number of the MESSAGE, where `_build_ack` says
"same transaction as INVITE" (line 859): `RefusalAckNamesInvite`, put into the cfg of `sip_refusal` in the place of
`RefusalKeepsCall`, is refuted as well.

### What the windows leave out

Some passing properties hold because a run keeps a window shut. Opening it shows what the code does there:

| In the cfg of | Set | Refuted |
|---|---|---|
| `doorbell_teardown` | `Races = {"connect"}` | `RingNotBlocked`: a ring during a connect aborts nothing, and is refused later; `BridgeUsesOfferedPort`: the second connect replaces the sockets of the first; `StopIsFinal`: a connect that completes after `async_stop` places its call; and a connect that fails drops the client of another call (`ConnectRaises`), so that its max-duration timer finds no client and gives up and the manager stays busy until a push or a cancel aborts that call |
| `doorbell_teardown` | `Races = {"overlap"}` | `RingStaysAnswerable`: a cancel that waited for its abort drops the invite of the ring that came meanwhile (`coordinator.py:449`); with 3 rings also `DoorCodeMatchesCall`, `RingNotBlocked`, `StopIsFinal` and `BridgeUsesOfferedPort` |
| `bridge_stops` | `Overlap = {"prewarm"}` | `ValidStartIntact`: `stop()` bumps the generation, waits for the prewarmed ffmpeg, then sweeps what a newer start built; also `NothingLost` |
| `bridge_stops` | `Overlap = {"starts"}` | `UnwindsItsOwn`: an invalidated start unwinds the bridge of a newer one; also `NothingLost` |
| `video_gate` | `Network = {"reorder"}` or `{"restart"}` | `TimestampsAdvance`: the offset of the take-over is kept, so a packet that was overtaken, or a door that restarts its clock, sends the output back |
| `api_live` | `Server = {"limit"}` | `ReauthMeansRevoked`: HTTP 429 counts as a refusal of the credentials |
| `pairing` | `Races = {"behind"}` | `SilenceSignalled`: a reauth has saved token 2 and the reloaded entry listens on it, then a late write of the entry before puts the dead token 1 back into the file; a second reauth starts from the file, registers token 3, moves the pushes to it and gives up. The listener compares 2 with 2 and raises nothing, although the "live FCM token no longer matches Intratone's" (`fcm_listener.py:255`) |
| `pairing` | `Races = {"flows"}` or `{"removal"}` | `SilenceSignalled`: two flows on one entry each register a token and save their own store; a flow, or a write, that outlives the removal of its entry saves for an entry paired anew |
| `runtime` | `StopSuspends = TRUE` | `NoOrphan`: if the library's `stop()` suspended for a client that was not started, the supervisor would start that client after it |

One more window needs no constant. On the REST side an operation that fails after `async_stop` starts a refresh
that nobody cancels (`rest_api.py:588`, `655`), although `async_stop` cancels the one in flight because an "orphaned
refresh would otherwise finish against the torn-down entry" (`rest_api.py:653-654`). `RestApi` takes that step, and no
property forbids it; what it writes into the store is a late write of `Pairing`.

`RingStaysAnswerable` does not speak of a ring that comes while a bridge past its grace is being stopped (the
history variable `parked` leaves it out): there the end of the old call drops the invite of
the new ring (`call_manager.py:488`). And an `async_stop` may leave a bridge startup behind
when a 200 OK arrives while it stops the bridge; `StopReaps` shows that the second
`async_stop`, run by the unload hook, takes care of it.

### Bounds and why they are enough

- Two rings: a race is between what belongs to a call and what belongs to the next.
- Three requests beyond the INVITE: a challenge, a MESSAGE and a re-INVITE, or a MESSAGE and a BYE,
  fit; three messages in flight allow a retransmission to cross each of them.
- Two calls and two stops for the bridge: a start, the stop that invalidates it, and a
  start and a stop after it.
- Three operations for the REST client: one that starts a refresh, one that shares it and one that comes after it;
  a second refresh slot would show two at a time, and does in the mutant of `SingleFlight`.
- `InitialCSeq` is 50 in the code and 1 in the runs: only the differences of the numbers matter, and the
  proofs leave it open.
- Fourteen ticks of the video clock hold a burst of PLIs, a take-over, a stall and a second take-over,
  and the periodic gate; the timers keep their order, not their values. Timestamps advance by 2 per tick and wrap
  at 32: from the second of the two bases the door's clock wraps in the middle of the run. The output
  starts with the call and does not reach the wrap, which on the wire takes 13 hours.
- Three tokens: the one paired with, one for a flow that pairs again after it died, and one more. The last is kept for
  rotations and reloads (`Reserved`), so that flows cannot use up the supply. One late write at a time: a second is the
  first again, once it was written. Each of the three races is refuted within these bounds, so the hazards fit in. With
  four tokens, two of them reserved, TLC finds no error either, in 1.2 million states.
- Two push clients: the one that ends and the one that replaces it; a third is the second again.

### Assumptions of the models

- Timing: the grace of 60 seconds outlasts the start and the reaping of a bridge; a JWT that was just minted
  outlives the retry it was minted for (the guard of `Expire`); a task that is ready runs before
  the next event comes from outside where the code hands over within one turn of the loop (`Turn`
  in `AudioBridge`).
- The two windows of `AudioBridge.Overlap` are left out of `bridge_stops`: a start that overlaps the prewarm
  wait of a stop, and a start that overlaps another. The call manager produces them only through
  the races of `doorbell_two_dialogs`, or a teardown that meets a new call.
- A push arrives at most once per ring and rings arrive in order; handlers may finish in any order. An unload
  stops the source of the pushes first, but the task of a push that was received before may still run.
- `firebase_messaging` and Home Assistant are external: their actions are read from how the code uses
  them. The library's `stop()` returns at once for a client that was not started (`StopSuspends`).

### Fairness

- `SipClient`: data that was received is dispatched, a `close()` completes, a peer that is there reads. Nothing
  is assumed about what the server sends.
- `Coordinator`: ready tasks run, timers expire (grace, max duration, stream timeout), a killed
  process exits, the unload hook runs. Nothing is assumed about pushes, users or the server,
  so `CallSettles` rests on the max-duration timer alone.
- `AudioBridge`: tasks run and their timeouts expire; ffmpeg exits when it is killed, not when it is
  terminated.
- `RestApi`: a request is answered or times out (20 seconds), the timer ticks, and an outage ends: a refresh that is
  tried again and again is granted or refused one day (strong fairness). Without the last,
  neither the repair nor a revocation could be noticed.
- `Pairing`: what was scheduled runs (a set-up, a reload, the task that stores rotated credentials) and writes
  end. Nothing is assumed about users, Google or Intratone.
- `Runtime`: the supervisor and a stop go on when they are ready; a registration and a login that are
  tried again and again succeed one day, and one day a login outlives the interval of the
  health checks (strong fairness: each may fail any number of times first).
- `VideoGate` has safety properties only: its clock waits for the timers that are due.

## 4. Proofs

For every value of the constants their assumptions allow:

| Theorem | Property | Argument |
|---|---|---|
| `SipClient_proofs!TypeCorrect` | `TypeOK` | inductive |
| `SipClient_proofs!CSeqAlwaysIncreasing` | `CSeqIncreasing` | inductive with the type: `cseq` bounds every number on the wire and what the server has read |
| `SipClient_proofs!CallbacksAlwaysPaired` | `CallbacksPaired` | inductive with the type |
| `SipClient_proofs!GoodbyeAlwaysLast`, `CancelAlwaysNamesInvite` | `GoodbyeIsLast`, `CancelNamesInvite` | strengthened by what a live call has on the wire: no goodbye yet, and no INVITE above `branch` |
| `SipClient_proofs!KeepsThePromise` | `ImplementsDialog` | refinement: each action maps to a step of `Dialog` or a stutter, given the type and `CallbacksPaired` |
| `SipClient_proofs!ReinviteAlwaysAnswered` | `ReinviteAnswered` | `ReinviteInv`: the re-INVITE or its answer is on the wire or with the server |
| `SipClient_proofs!AnswerAlwaysAcked` | core of `AnswerAcked` | `AnswerInv`: while the call is dialled the server has at most the last INVITE, for a challenge leaves it none, and what it accepted is on its way back |
| `Coordinator_proofs!TypeCorrect` | `TypeOK` | inductive, one lemma per group of actions |
| `Coordinator_proofs!RingDialledOnce` | `DialledOnce` | every race. `Inv`: a ring that a task dials is marked as started, and by one task |
| `Coordinator_proofs!CallsAlwaysKeepPromise` | `CallsKeepPromise` | every race. A call that was placed stays marked as started (`MarkedInv`), so no step places it again |
| `Coordinator_proofs!CalmTracksDialog` | `ManagerTracksDialog` | under `Calm`, `TrackInv`: one task at a time connects or suspends, and what it will find when it resumes |
| `Coordinator_proofs!CalmRingNotBlocked` | `RingNotBlocked` | under `Calm`, from `TrackInv`: a start that is allowed is never refused (`NeverRefused`) |
| `Coordinator_proofs!CalmDoorCode` | `DoorCodeMatchesCall` | under `Calm`, `ShownInv`: what is dialled, tracked or pending is what is shown |
| `Coordinator_proofs!CalmOwnPort` | `BridgeUsesOfferedPort` | under `Calm`, `SocketInv`: the sockets held belong to the call that connects or is tracked, and a scheduled start to the tracked call |
| `Coordinator_proofs!CalmBridgeReaped` | `BridgeReaped` | under `Calm`, `BridgeInv`: an ffmpeg has a start, the tracked call or an unload to come, and no handler that waits finds another |
| `Coordinator_proofs!CalmStreamServed` | `StreamServed` | under `Calm`, `StreamInv`: the URL on display is that of the tracked ring, whose bridge runs unless something is tearing it down, and that will drop the URL |
| `Coordinator_proofs!CalmBridgeKeepsPromise` | `BridgeKeepsPromise` | under `Calm`, refinement: `StaleInv`, a start whose generation was passed is one the manager has given up and does not begin anew |
| `Coordinator_proofs!CalmCallTimed` | core of `CallSettles` | under `Calm`, `TimedInv`: the max-duration timer is armed exactly while a dialog is up, and after it there is one grace, or an abort that waits |
| `AudioBridge_proofs!TypeCorrect` | `TypeOK` | any overlap, inductive |
| `AudioBridge_proofs!NoWaitIsInVain` | core of `TasksEnd` | any overlap. `AwaitInv`: a process only advances, and a task waits for one that is spawned, killed, or terminated under a timeout |
| `AudioBridge_proofs!NeverLost` | `NothingLost` | no overlap. `HeldInv`: from its spawn on a process is held by the bridge, the prewarm, the cleanup, or a start or stop that waits for it |
| `AudioBridge_proofs!ValidStartKept`, `EmptyAtRest`, `UnwindsOnlyItsOwn` | `ValidStartIntact`, `StoppedIsEmpty` (proved only, no run checks it), `UnwindsItsOwn` | no overlap. `TurnInv`: one start at a time, passed by any stop that has still to sweep; `ProcInv`, `OwnInv`: what the bridge refers to during a start is that start's; `SweptInv`: at any other time it serves a call |
| `AudioBridge_proofs!BridgeImplemented` | `ImplementsBridge` | no overlap, refinement: `WholeInv`, what the bridge holds at each await of a start, and that it holds nothing unless a start is in flight, a stop has still to sweep or a call is served |
| `VideoGate_proofs!TypeCorrect` | `TypeOK` | any timers and network, inductive |
| `VideoGate_proofs!AlwaysFed` | `FfmpegFed` | `FeedInv`: the next tick of the placeholder bounds the age of what ffmpeg has |
| `VideoGate_proofs!FramesAlwaysDecodable`, `DowngradeAlwaysJustified` | `DecodableFrames`, `DowngradeJustified` | `DecodeInv`: what the gate and the live flag say of the decoder's reference, also when frames are reordered |
| `VideoGate_proofs!GateAlwaysReopens` | `GateReopens` | `LoopInv`: a gate that is closed has the loop waiting, with its wake-up ahead |
| `VideoGate_proofs!TimestampsAlwaysAdvance` | `TimestampsAdvance` | under `Timely`, `StampInv`: what is in flight is in the order it was filmed and at most `MaxDelay` old; the stamp of the last frame sent is the time it was filmed plus the delay of the take-over, short of the turns the door's clock has made |
| `RestApi_proofs!TypeCorrect` | `TypeOK` | inductive, by the named parts of the type |
| `RestApi_proofs!RefreshIsShared` | `SingleFlight` | `FlightInv`: the refresh that runs is the one `_refresh_task` names |
| `RestApi_proofs!NobodyEverForgotten` | core of `CallsEnd` | inductive with the type: who waits for a refresh waits for one that runs, and that one answers all who do |
| `RestApi_proofs!CancelStaysPrivate` | `CancelIsPrivate` | inductive: only `async_stop` gives a waiter the cancelled refresh |
| `RestApi_proofs!ExpiryAlwaysCured` | `ExpiryIsCured` | `FreshInv`: who retries does so with a JWT that was minted for it, and that one does not expire before |
| `RestApi_proofs!ReauthIsDeserved`, `LastFormDecides` | `ReauthMeansRevoked` | `NoLimit`, and one form of the number, or an account keyed on the form tried last. `VerdictInv`: a refusal that is pending is then a revocation |
| `Pairing_proofs!TypeCorrect` | `TypeOK` | every race, inductive |
| `Pairing_proofs!CalmSilenceSignalled` | `SilenceSignalled` | `Races = {}`, any number of late writes. `Laws`: Google replaces a token only when its credentials are dead, so a store that has another token than the one Intratone pushes to has a dead one (`StoresInv`, `TargetInv`), also a store whose write is yet to come; what a late write puts back cannot make the entry listen on its token unnoticed. What a flow holds is the token Intratone pushes to, or no store has one that works (`AgainInv`) |
| `Runtime_proofs!NeverAnOrphan`, `AlwaysQuiet`, `PushSourceStopsFirst` | `NoOrphan`, `UnloadedIsQuiet`, its conjunct `PushSourceFirst` | when `stop()` of a fresh client does not suspend. `ListenerInv`: which client the supervisor and the stop may meet; `EntryInv`: what runs at each stage |
| `Runtime_proofs!ListenerAlwaysAttended` | core of `Reconnects` | whether or not `stop()` suspends, inductive: while the entry is set up the supervisor runs, on a client that is still its own |

`Calm` is, in `Coordinator_proofs`, that pushes come in no window but the teardown; in
`AudioBridge_proofs`, that starts overlap nothing; in `Pairing_proofs`, that one flow at a time works on the
entry, that it begins with the credentials of the working token if some store has them, and that the entry is not
removed under it or under a write. `NoLimit` is that the server never answers 429. `Timely` is that the network keeps the order, that its
delay is shorter than the timer of the take-over, and that both together are less than half the width of a timestamp (on the
wire, some seconds against 13 hours). These conditions are not conveniences: where pushes, starts or flows
overlap, where a flow begins behind, where the server limits and where frames are overtaken, TLC refutes the
properties (section 3). Two properties of `doorbell_teardown`, `StopIsFinal` and `RingStaysAnswerable`, are
model-checked only: under `Calm` little is left of what endangers them (a stop during a connect, overlapping cancels, a
ring during a teardown), and in those windows they fail.

What fairness gives (`AnswerAcked`, `CallSettles`, `StopReaps`, `TasksEnd`, `CallsEnd`, `RevocationNoticed`,
`IssueSettles`, `StoredIsAdopted`, `Reconnects`) is model-checked only: liveness is out of reach of the prover.
For five of them the safety core is proved, marked as such in the table: that what has to happen always has
something that will make it happen, a message on its way, a timer that is armed, a task or a process that
goes on. What the proofs leave to TLC is that the fair steps, taken one after the other, get there; and
the whole of `StopReaps`, `RevocationNoticed`, `IssueSettles` and `StoredIsAdopted`.

## 5. What is not modelled

- In the call manager: a port that cannot be bound, an ffmpeg that crashes during a call, a
  `stop()` that is itself cancelled. The await in which a superseded spawn stops its bridge is
  part of the step that finds it superseded.
- In the coordinator: the unregister push (it only starts a reauth), several taps of one entity at a time.
- In the REST client: the update of the numeric id, errors of the store, the parsing of the access list.
- In the packet handling: audio and its RTCP, statistics, sequence numbers (they are drawn one after the
  other whatever is sent), frames that span several packets.
- In the flows: forms, options and the validation of what is typed. In the entities: the momentary revert, the
  ring event, the self-test of go2rtc.
- Message framing of the TCP stream, and the pure functions on strings and bytes (`digest_auth.py`, `stun.py`,
  `app_credentials.py`, `_tel_candidates`, `_parse_seconds`): they have no state, and unit tests reach them.
- The components marked `not_modelled` in `PROJECT.json`, with the reason there.

## 6. Plan

Done, in this order: `SipClient`, `CallManager` and `Coordinator`, `AudioBridge`, `RestApi`, their proofs;
`Dialog` and its two refinements; `VideoGate`, `Pairing`, `FcmListener` and `Runtime`; the proofs of the
safety properties that the runs check; `Bridge` and its two refinements; the safety cores of the liveness properties. What
could follow:

1. The cores of `StopReaps`, `RevocationNoticed`, `IssueSettles` and `StoredIsAdopted`.
2. What holds of the doorbell under `Races = {"overlap"}`: with two rings TLC finds `CallTimed` to hold there, and no proof says so.
3. The audio protocol with its silence, and a frame as several packets in `VideoGate`.
4. The momentary revert of the entities and the self-test, as further users of the coordinator.
