------------------------------ MODULE VideoGate ------------------------------
(***************************************************************************)
(* The video of one call (audio_bridge.py): _VideoRtpProtocol forwards the *)
(* VP8 stream of the door to ffmpeg, re-stamped so that it continues the   *)
(* placeholder picture which ffmpeg gets while no video flows, and         *)
(* _pli_loop asks the gateway for keyframes, closing the protocol's gate   *)
(* until one has come.                                                     *)
(*                                                                         *)
(* A tick of the clock is the placeholder's interval of 0.5 s; it passes   *)
(* once what is due at this instant has run.  A packet is a whole frame.   *)
(***************************************************************************)
EXTENDS Integers, Sequences

CONSTANTS
    Horizon,   \* bound: ticks of the clock
    InTransit, \* bound: frames in flight
    MaxDelay,  \* ticks a frame may spend on the network
    Resume,    \* _VIDEO_PLACEHOLDER_RESUME_S
    PliMax,    \* _PLI_MAX_SENDS
    PliWait,   \* _PLI_INTERVAL_S, and the wait that follows a periodic PLI
    Periodic,  \* _PLI_PERIODIC_INTERVAL_S
    Rate,      \* _VIDEO_CLOCK_RATE: units of the RTP clock per tick
    Width,     \* values of an RTP timestamp, 2^32 on the wire
    Bases,     \* RTP timestamps at which the door may start its clock
    Network    \* what the stream may do besides losing frames: "reorder" them,
               \* or "restart" with another clock

ASSUME ClockAssumption == Horizon \in Nat /\ Rate \in Nat \ {0} /\ Width \in Nat \ {0}
ASSUME NetworkAssumption ==
    /\ InTransit \in Nat
    /\ MaxDelay \in Nat
    /\ Bases \subseteq 0 .. Width - 1
    /\ Network \subseteq {"reorder", "restart"}
ASSUME TimerAssumption ==
    Resume \in Nat \ {0} /\ PliMax \in Nat /\ PliWait \in Nat \ {0} /\ Periodic \in Nat \ {0}

Time == 0 .. Horizon
Kinds == {"key", "delta"}
Never == -1

VARIABLES
    now,       \* time.monotonic()
    base,      \* the door's RTP clock at now = 0
    path,      \* the gateway has had an answer to a STUN request
    filmed,    \* when the door filmed its last frame
    net,       \* the frames in flight
    opened,    \* the datagram endpoint: "new", "open", "closed"
    due,       \* when _placeholder_handle fires
    heard,     \* first_rtp_event
    keyframe,  \* keyframe_received, the gate
    keyEvent,  \* keyframe_event
    live,      \* _ts_offset is not None
    offset,    \* its value then
    lastReal,  \* _last_real_at
    lastOut,   \* _last_out_ts, which is not wrapped
    pli,       \* _pli_loop: where it waits, its PLIs so far, when it wakes
    failed,    \* on_video_failure was called
    sent,      \* the last frame ffmpeg got
    ref        \* what its decoder's reference frame is (history)

clock == <<opened, due>>
gate == <<heard, keyframe, keyEvent>>
stream == <<live, offset, lastReal, lastOut>>
door == <<base, path, filmed, net>>
vars == <<now, door, clock, gate, stream, pli, failed, sent, ref>>

\* A frame the gate dropped breaks the chain of references ("gap"); a gate the
\* loop opens again without a keyframe accepts that ("excused").
TypeOK ==
    /\ now \in Time
    /\ base \in Bases
    /\ path \in BOOLEAN
    /\ filmed \in Time \union {Never}
    /\ net \in Seq([kind : Kinds, rtp : 0 .. Width - 1, at : Time])
    /\ opened \in {"new", "open", "closed"}
    /\ due \in Int
    /\ heard \in BOOLEAN /\ keyframe \in BOOLEAN /\ keyEvent \in BOOLEAN
    /\ live \in BOOLEAN /\ offset \in Int
    /\ lastReal \in Time /\ lastOut \in Nat
    /\ pli \in [pc : {"first", "burst", "periodic", "gate", "done"}, sends : 0 .. PliMax, wake : Int]
    /\ failed \in BOOLEAN
    /\ sent \in [kind : Kinds \union {"placeholder", "none"}, ts : 0 .. Width - 1, at : Time]
    /\ ref \in {"none", "placeholder", "key", "gap", "excused"}

Init ==
    /\ now = 0
    /\ base \in Bases
    /\ path = FALSE
    /\ filmed = Never
    /\ net = << >>
    /\ opened = "new"
    /\ due = Never
    /\ heard = FALSE /\ keyframe = FALSE /\ keyEvent = FALSE
    /\ live = FALSE /\ offset = 0
    /\ lastReal = 0 /\ lastOut = 0
    /\ pli = [pc |-> "first", sends |-> 0, wake |-> Never]
    /\ failed = FALSE
    /\ sent = [kind |-> "none", ts |-> 0, at |-> 0]
    /\ ref = "none"
-----------------------------------------------------------------------------
(* What ffmpeg gets.                                                       *)

\* _next_clock_ts: the wall clock, never behind the last timestamp sent.
\* Mutant: the wall clock.
WallClockTs == now * Rate
NextClockTs == IF lastOut < now * Rate THEN now * Rate ELSE lastOut + 1

SendToFfmpeg(kind, ts) ==
    /\ sent' = [kind |-> kind, ts |-> ts % Width, at |-> now]
    /\ lastOut' = IF lastOut < ts THEN ts ELSE lastOut

\* No real frame for so long that the placeholder takes over.
Stalled == live /\ now - lastReal >= Resume

\* What a stall leaves of the live stream.
\* Mutant: the offset is kept.
KeepsOffset == live
StaysLive == live /\ ~Stalled

\* _placeholder_tick: while the stream is live it only arms itself again.
PlaceholderTick ==
    /\ live' = StaysLive
    /\ IF live'
       THEN UNCHANGED <<sent, lastOut, ref>>
       ELSE SendToFfmpeg("placeholder", NextClockTs) /\ ref' = "placeholder"
    /\ due' = now + 1
    /\ UNCHANGED <<now, door, gate, offset, lastReal, pli, failed>>

\* The endpoint is wrapped; start_placeholder sends the first frame.
Start ==
    /\ opened = "new"
    /\ opened' = "open"
    /\ PlaceholderTick

PlaceholderDue ==
    /\ opened = "open"
    /\ due = now
    /\ PlaceholderTick
    /\ UNCHANGED opened
-----------------------------------------------------------------------------
(* The gateway and the network, external.                                  *)

\* A STUN request is answered, which makes the gateway send.
StunRequest ==
    /\ opened = "open"
    /\ ~path
    /\ path' = TRUE
    /\ UNCHANGED <<now, base, filmed, net, clock, gate, stream, pli, failed, sent, ref>>

Clocked(at) == (base + Rate * at) % Width

\* The door films at most a frame per tick, by its clock or a new one.
Film ==
    /\ path
    /\ Len(net) < InTransit
    /\ filmed < now
    /\ filmed' = now
    /\ base' \in IF "restart" \in Network THEN Bases ELSE {base}
    /\ \E kind \in Kinds :
        net' = Append(net, [kind |-> kind, rtp |-> (base' + Rate * now) % Width, at |-> now])
    /\ UNCHANGED <<now, path, clock, gate, stream, pli, failed, sent, ref>>

\* The frame that leaves the network next.
Arriving == IF "reorder" \in Network THEN DOMAIN net ELSE DOMAIN net \intersect {1}
Without(i) == SubSeq(net, 1, i - 1) \o SubSeq(net, i + 1, Len(net))

Lose ==
    /\ \E i \in Arriving : net' = Without(i)
    /\ UNCHANGED <<now, base, path, filmed, clock, gate, stream, pli, failed, sent, ref>>
-----------------------------------------------------------------------------
(* datagram_received, for an RTP packet.                                   *)

\* What every packet does, forwarded or not.
Heard(f) ==
    /\ heard' = TRUE
    /\ keyframe' = (keyframe \/ f.kind = "key")
    /\ keyEvent' = (keyEvent \/ (~keyframe /\ f.kind = "key"))
    /\ UNCHANGED <<now, base, path, filmed, clock, pli, failed>>

\* The stream takes over from the placeholder on a keyframe only.
\* Mutant: on any frame.
AnyFrame(f) == TRUE
TakesOver(f) == f.kind = "key"

\* The gate is closed, or ffmpeg is on the placeholder.
Dropped(f) == ~keyframe' \/ (~live /\ ~TakesOver(f))

Drop(f) ==
    /\ Dropped(f)
    /\ ref' = IF ref \in {"key", "excused"} THEN "gap" ELSE ref
    /\ UNCHANGED <<stream, sent>>

Forward(f) ==
    /\ ~Dropped(f)
    /\ offset' = IF live THEN offset ELSE NextClockTs - f.rtp
    /\ live' = TRUE
    /\ lastReal' = now
    /\ SendToFfmpeg(f.kind, f.rtp + offset')
    /\ ref' = IF f.kind = "key" THEN "key" ELSE ref

DatagramReceived ==
    /\ opened = "open"
    /\ \E i \in Arriving :
        /\ net' = Without(i)
        /\ Heard(net[i])
        /\ Drop(net[i]) \/ Forward(net[i])

\* stop(): the loop is cancelled, the handle too, the endpoint closed.
Close ==
    /\ opened = "open"
    /\ opened' = "closed"
    /\ due' = Never
    /\ net' = << >>
    /\ pli' = [pli EXCEPT !.pc = "done"]
    /\ UNCHANGED <<now, base, path, filmed, gate, stream, failed, sent, ref>>
-----------------------------------------------------------------------------
(* _pli_loop: each step is what runs between two of its waits.             *)

Waits(pc, sends, delay) == pli' = [pc |-> pc, sends |-> sends, wake |-> now + delay]

\* A wait on keyframe_event, or its timeout.
Woken == keyEvent \/ pli.wake = now

PliReady ==
    /\ opened = "open"
    /\ \/ pli.pc = "first" /\ heard
       \/ pli.pc \in {"burst", "gate"} /\ Woken
       \/ pli.pc = "periodic" /\ pli.wake = now

\* The burst has its keyframe; the last wait of the burst counts too.
\* Mutant: it does not.
FoundInTime == keyframe /\ pli.sends < PliMax
FoundKeyframe == keyframe

InBurst == PliReady /\ pli.pc \in {"first", "burst"}

PliBurst ==
    /\ InBurst
    /\ ~keyframe
    /\ pli.sends < PliMax
    /\ Waits("burst", pli.sends + 1, PliWait)
    /\ UNCHANGED <<now, door, clock, gate, stream, failed, sent, ref>>

PliFound ==
    /\ InBurst
    /\ FoundKeyframe
    /\ Waits("periodic", pli.sends, Periodic)
    /\ UNCHANGED <<now, door, clock, gate, stream, failed, sent, ref>>

\* The manager is asked to go on without video.
PliGivesUp ==
    /\ InBurst
    /\ ~FoundKeyframe
    /\ pli.sends = PliMax
    /\ failed' = TRUE
    /\ pli' = [pli EXCEPT !.pc = "done"]
    /\ UNCHANGED <<now, door, clock, gate, stream, sent, ref>>

\* A periodic PLI closes the gate.
PliPeriodic ==
    /\ PliReady
    /\ pli.pc = "periodic"
    /\ keyframe' = FALSE
    /\ keyEvent' = FALSE
    /\ Waits("gate", pli.sends, PliWait)
    /\ UNCHANGED <<now, door, clock, heard, stream, failed, sent, ref>>

\* Mutant: the gate stays as it is.
LeftClosed == UNCHANGED gate /\ UNCHANGED ref
Reopened ==
    /\ keyframe' = TRUE
    /\ keyEvent' = TRUE
    /\ UNCHANGED heard
    /\ ref' = IF ~keyframe /\ ref = "gap" THEN "excused" ELSE ref

\* The keyframe came, or the gate is opened without it.
PliGate ==
    /\ PliReady
    /\ pli.pc = "gate"
    /\ IF keyframe THEN UNCHANGED <<gate, ref>> ELSE Reopened
    /\ Waits("periodic", pli.sends, Periodic)
    /\ UNCHANGED <<now, door, clock, stream, failed, sent>>
-----------------------------------------------------------------------------
\* The event loop keeps up: time passes when no callback is due.
Tick ==
    /\ opened = "open"
    /\ now < Horizon
    /\ due # now
    /\ ~PliReady
    /\ \A i \in DOMAIN net : now - net[i].at < MaxDelay
    /\ now' = now + 1
    /\ UNCHANGED <<door, clock, gate, stream, pli, failed, sent, ref>>

Next ==
    \/ Start
    \/ PlaceholderDue
    \/ StunRequest
    \/ Film
    \/ Lose
    \/ DatagramReceived
    \/ Close
    \/ PliBurst
    \/ PliFound
    \/ PliGivesUp
    \/ PliPeriodic
    \/ PliGate
    \/ Tick

Spec == Init /\ [][Next]_vars
-----------------------------------------------------------------------------
(* Properties.                                                             *)

\* ffmpeg's input never dries up: between the stall of the stream and the
\* placeholder (_placeholder_tick), through every closing of the gate, there is
\* no silence longer than the stall that is tolerated.
FfmpegFed ==
    opened = "open" => now - sent.at <= Resume

\* ffmpeg never gets a P-frame of the door whose reference it has not had
\* (datagram_received: a decoder in that state stays stuck): not after a
\* placeholder, nor behind frames the gate dropped, unless _pli_loop gave up
\* waiting for the keyframe.
DecodableFrames ==
    [][sent' # sent /\ sent'.kind = "delta" => ref \in {"key", "excused"}]_vars

\* Serial-number arithmetic on timestamps that wrap.
Ahead(a, b) == (b - a) % Width \in 1 .. Width \div 2

\* Across take-overs, stalls and wrapping clocks, every frame ffmpeg gets is
\* stamped later than the one before (_next_clock_ts, _ts_offset).
TimestampsAdvance ==
    [][sent' # sent => Ahead(sent.ts, sent'.ts)]_vars

\* Once a keyframe has come the gate is closed only while _pli_loop waits for
\* the next one, and never longer than that wait: no extended blackout.
GateReopens ==
    opened = "open" /\ ~keyframe /\ pli.pc \notin {"first", "burst"} =>
        failed \/ (pli.pc = "gate" /\ now \in pli.wake - PliWait .. pli.wake)

\* The call is degraded to audio only if the decoder has had nothing but the
\* placeholder: not for a keyframe that came during the last wait of the burst.
DowngradeJustified ==
    [][failed' # failed => ref = "placeholder" /\ ~live]_vars
=============================================================================
