-------------------------- MODULE VideoGate_proofs --------------------------
(***************************************************************************)
(* The video of a call, for any timers, any clocks and any network,        *)
(* reordering and restarts included: ffmpeg is fed, gets no frame it       *)
(* cannot decode, and the gate is reopened; a call is degraded only while  *)
(* the decoder has had nothing but the placeholder.                        *)
(*                                                                         *)
(* FeedInv bounds the age of what ffmpeg has by the next tick of the       *)
(* placeholder; DecodeInv ties the decoder's reference to the mode and the *)
(* gate; LoopInv ties the gate to where the loop waits.  Each is inductive *)
(* given the types.                                                        *)
(*                                                                         *)
(* That timestamps advance needs the order of arrival: it is proved for    *)
(* networks that keep it.  StampInv says what the last stamp is, counted   *)
(* on a clock that does not wrap, by the time its frame was filmed.        *)
(***************************************************************************)
EXTENDS VideoGate, SequenceTheorems, TLAPS

Frames == [kind : Kinds, rtp : 0 .. Width - 1, at : Time]

FeedInv ==
    opened = "open" =>
        /\ due \in now .. now + 1
        /\ live => sent.at = lastReal /\ due <= lastReal + Resume
        /\ ~live => due <= sent.at + 1

DecodeInv ==
    /\ opened = "new" => ~live
    /\ live => ref \in {"key", "gap", "excused"}
    /\ live /\ keyframe => ref # "gap"
    /\ opened = "open" /\ ~live => ref = "placeholder"

LoopInv ==
    /\ opened = "new" => pli.pc = "first"
    /\ live /\ pli.pc \in {"first", "burst"} => keyframe
    /\ pli.pc = "periodic" => keyframe
    /\ opened = "open" /\ pli.pc = "gate" => now \in pli.wake - PliWait .. pli.wake
    /\ opened = "open" /\ pli.pc = "done" => failed

Inv == TypeOK /\ FeedInv /\ DecodeInv /\ LoopInv
-----------------------------------------------------------------------------
(* Types.                                                                  *)

\* Timestamps are wrapped to Width, and the placeholder's clock is one.
LEMMA Clocks ==
    /\ \A n \in Int : n % Width \in 0 .. Width - 1
    /\ \A t \in Time : t * Rate \in Nat /\ Rate * t \in Nat
<1>1. \A n \in Int : n % Width \in 0 .. Width - 1
  BY ClockAssumption
<1>2. \A a, b \in Nat : a * b \in Nat
  OBVIOUS
<1>3. \A t \in Time : t \in Nat
  BY DEF Time
<1> QED
  BY <1>1, <1>2, <1>3, ClockAssumption

\* A frame leaves the network.
LEMMA WithoutType ==
    ASSUME net \in Seq(Frames), NEW i \in DOMAIN net
    PROVE  Without(i) \in Seq(Frames) /\ net[i] \in Frames
<1>1. i \in 1 .. Len(net) /\ Len(net) \in Nat
  OBVIOUS
<1>2. SubSeq(net, 1, i - 1) \in Seq(Frames) /\ SubSeq(net, i + 1, Len(net)) \in Seq(Frames)
  BY <1>1, SubSeqProperties
<1> QED
  BY <1>1, <1>2, ConcatProperties DEF Without

\* What ffmpeg is sent, and when.
LEMMA SendTypes ==
    ASSUME TypeOK, NEW kind \in Kinds \union {"placeholder"}, NEW ts \in Int, SendToFfmpeg(kind, ts)
    PROVE  /\ sent' \in [kind : Kinds \union {"placeholder", "none"}, ts : 0 .. Width - 1, at : Time]
           /\ lastOut' \in Nat
<1>1. ts % Width \in 0 .. Width - 1
  BY Clocks
<1>2. now \in Time /\ lastOut \in Nat
  BY DEF TypeOK
<1>3. sent' = [kind |-> kind, ts |-> ts % Width, at |-> now]
  BY DEF SendToFfmpeg
<1>4. lastOut' \in Nat
  BY <1>2 DEF SendToFfmpeg
<1> QED
  BY <1>1, <1>2, <1>3, <1>4

LEMMA ClockTsType == TypeOK => NextClockTs \in Nat
<1> SUFFICES ASSUME TypeOK PROVE NextClockTs \in Nat
  OBVIOUS
<1>1. now * Rate \in Nat /\ lastOut \in Nat
  BY Clocks DEF TypeOK
<1> QED
  BY <1>1 DEF NextClockTs

\* The placeholder's tick.
LEMMA TickTypes ==
    ASSUME TypeOK, PlaceholderTick, opened' \in {"new", "open", "closed"} PROVE TypeOK'
<1>0. UNCHANGED <<now, base, path, filmed, net, heard, keyframe, keyEvent, offset, lastReal, pli, failed>>
  BY DEF PlaceholderTick, door, gate
<1>1. due' \in Int /\ live' \in BOOLEAN
  <2>1. now \in Int
    BY DEF TypeOK, Time
  <2>2. live' = StaysLive /\ due' = now + 1
    BY DEF PlaceholderTick
  <2> QED
    BY <2>1, <2>2 DEF StaysLive
<1>2. /\ sent' \in [kind : Kinds \union {"placeholder", "none"}, ts : 0 .. Width - 1, at : Time]
      /\ lastOut' \in Nat
      /\ ref' \in {"none", "placeholder", "key", "gap", "excused"}
  <2>1. CASE live'
    BY <2>1 DEF PlaceholderTick, TypeOK
  <2>2. CASE ~live'
    <3>1. SendToFfmpeg("placeholder", NextClockTs) /\ ref' = "placeholder"
      BY <2>2 DEF PlaceholderTick
    <3> QED
      BY <3>1, ClockTsType, SendTypes
  <2> QED
    BY <2>1, <2>2
<1> QED
  BY <1>0, <1>1, <1>2 DEF TypeOK

\* A packet of the door is counted, and dropped or forwarded.
LEMMA PacketTypes == ASSUME TypeOK, DatagramReceived PROVE TypeOK'
<1>1. PICK i \in DOMAIN net : net' = Without(i) /\ Heard(net[i]) /\ (Drop(net[i]) \/ Forward(net[i]))
  BY DEF DatagramReceived, Arriving
<1>2. net \in Seq(Frames)
  BY DEF TypeOK, Frames
<1>3. net' \in Seq(Frames) /\ net[i] \in Frames
  BY <1>1, <1>2, WithoutType
<1>4. UNCHANGED <<now, base, path, filmed, opened, due, pli, failed>>
      /\ heard' \in BOOLEAN /\ keyframe' \in BOOLEAN /\ keyEvent' \in BOOLEAN
  BY <1>1 DEF Heard, clock
<1>5. CASE Drop(net[i])
  BY <1>3, <1>4, <1>5 DEF Drop, stream, TypeOK, Frames
<1>6. CASE Forward(net[i])
  <2>1. net[i].kind \in Kinds /\ net[i].rtp \in Int
    BY <1>3 DEF Frames
  <2>2. NextClockTs \in Nat
    BY ClockTsType
  <2>3. offset' \in Int
    BY <1>6, <2>1, <2>2 DEF Forward, TypeOK
  <2>4. net[i].rtp + offset' \in Int
    BY <2>1, <2>3
  <2>5. SendToFfmpeg(net[i].kind, net[i].rtp + offset')
    BY <1>6 DEF Forward
  <2>6. /\ sent' \in [kind : Kinds \union {"placeholder", "none"}, ts : 0 .. Width - 1, at : Time]
        /\ lastOut' \in Nat
    BY <2>1, <2>4, <2>5, SendTypes
  <2>7. live' \in BOOLEAN /\ lastReal' \in Time /\ ref' \in {"none", "placeholder", "key", "gap", "excused"}
    BY <1>6 DEF Forward, TypeOK
  <2> QED
    BY <1>3, <1>4, <2>3, <2>6, <2>7 DEF TypeOK, Frames
<1> QED
  BY <1>1, <1>5, <1>6

\* The loop's waits.
LEMMA WaitsTypes ==
    ASSUME TypeOK, NEW pc \in {"first", "burst", "periodic", "gate"}, NEW sends \in 0 .. PliMax,
           NEW delay \in Nat, Waits(pc, sends, delay)
    PROVE  pli' \in [pc : {"first", "burst", "periodic", "gate", "done"}, sends : 0 .. PliMax, wake : Int]
<1>1. now + delay \in Int
  BY DEF TypeOK, Time
<1> QED
  BY <1>1 DEF Waits

LEMMA LoopTypes ==
    ASSUME TypeOK, PliBurst \/ PliFound \/ PliGivesUp \/ PliPeriodic \/ PliGate PROVE TypeOK'
<1> DEFINE PliType == [pc : {"first", "burst", "periodic", "gate", "done"}, sends : 0 .. PliMax, wake : Int]
<1>0. pli \in PliType /\ pli.sends \in 0 .. PliMax
  BY DEF TypeOK
<1>1. UNCHANGED <<now, base, path, filmed, net, opened, due, heard, live, offset, lastReal, lastOut, sent>>
  BY DEF PliBurst, PliFound, PliGivesUp, PliPeriodic, PliGate, Reopened, door, clock, gate, stream
<1>2. keyframe' \in BOOLEAN /\ keyEvent' \in BOOLEAN /\ failed' \in BOOLEAN
      /\ ref' \in {"none", "placeholder", "key", "gap", "excused"}
  BY DEF PliBurst, PliFound, PliGivesUp, PliPeriodic, PliGate, Reopened, gate, TypeOK
<1>3. pli' \in PliType
  <2>1. CASE PliBurst
    <3>1. pli.sends + 1 \in 0 .. PliMax
      BY <1>0, <2>1, TimerAssumption DEF PliBurst
    <3> QED
      BY <2>1, <3>1, WaitsTypes, TimerAssumption DEF PliBurst
  <2>2. CASE PliFound
    BY <1>0, <2>2, WaitsTypes, TimerAssumption DEF PliFound
  <2>3. CASE PliGivesUp
    BY <1>0, <2>3 DEF PliGivesUp
  <2>4. CASE PliPeriodic
    BY <1>0, <2>4, WaitsTypes, TimerAssumption DEF PliPeriodic
  <2>5. CASE PliGate
    BY <1>0, <2>5, WaitsTypes, TimerAssumption DEF PliGate
  <2> QED
    BY <2>1, <2>2, <2>3, <2>4, <2>5
<1> QED
  BY <1>1, <1>2, <1>3 DEF TypeOK

\* Every step keeps the types.
LEMMA TypeStep == TypeOK /\ [Next]_vars => TypeOK'
<1> SUFFICES ASSUME TypeOK, [Next]_vars PROVE TypeOK'
  OBVIOUS
<1>1. CASE Start \/ PlaceholderDue
  BY <1>1, TickTypes DEF Start, PlaceholderDue
<1>2. CASE StunRequest
  BY <1>2 DEF StunRequest, clock, gate, stream, TypeOK
<1>3. CASE Film
  <2>1. PICK kind \in Kinds :
          net' = Append(net, [kind |-> kind, rtp |-> (base' + Rate * now) % Width, at |-> now])
    BY <1>3 DEF Film
  <2>2. base' \in Bases /\ base' \in Int /\ now \in Time /\ Rate * now \in Nat
    <3>1. base' \in Bases
      BY <1>3 DEF Film, TypeOK
    <3>2. Bases \subseteq Int
      BY NetworkAssumption
    <3>3. now \in Time
      BY DEF TypeOK
    <3> QED
      BY <3>1, <3>2, <3>3, Clocks
  <2>3. (base' + Rate * now) % Width \in 0 .. Width - 1
    BY <2>2, Clocks
  <2>4. [kind |-> kind, rtp |-> (base' + Rate * now) % Width, at |-> now] \in Frames
    BY <2>2, <2>3 DEF Frames
  <2>5. net' \in Seq(Frames)
    BY <2>1, <2>4 DEF TypeOK, Frames
  <2> QED
    BY <1>3, <2>2, <2>5 DEF Film, clock, gate, stream, TypeOK, Frames
<1>4. CASE Lose
  <2>1. PICK i \in DOMAIN net : net' = Without(i)
    BY <1>4 DEF Lose, Arriving
  <2>2. net' \in Seq(Frames)
    BY <2>1, WithoutType DEF TypeOK, Frames
  <2> QED
    BY <1>4, <2>2 DEF Lose, clock, gate, stream, TypeOK, Frames
<1>5. CASE DatagramReceived
  BY <1>5, PacketTypes
<1>6. CASE Close
  <2>1. pli' \in [pc : {"first", "burst", "periodic", "gate", "done"}, sends : 0 .. PliMax, wake : Int]
    BY <1>6 DEF Close, TypeOK
  <2>2. due' \in Int /\ net' \in Seq([kind : Kinds, rtp : 0 .. Width - 1, at : Time])
    BY <1>6 DEF Close, Never
  <2> QED
    BY <1>6, <2>1, <2>2 DEF Close, gate, stream, TypeOK
<1>7. CASE PliBurst \/ PliFound \/ PliGivesUp \/ PliPeriodic \/ PliGate
  BY <1>7, LoopTypes
<1>8. CASE Tick
  <2>1. now' \in Time
    BY <1>8, ClockAssumption DEF Tick, TypeOK, Time
  <2> QED
    BY <1>8, <2>1 DEF Tick, door, clock, gate, stream, TypeOK
<1>9. CASE UNCHANGED vars
  BY <1>9 DEF vars, door, clock, gate, stream, TypeOK
<1> QED
  BY <1>1, <1>2, <1>3, <1>4, <1>5, <1>6, <1>7, <1>8, <1>9 DEF Next
-----------------------------------------------------------------------------
(* Feed, references and the loop.                                          *)

\* The endpoint is not open yet.
LEMMA InvInit == Init => Inv
<1> SUFFICES ASSUME Init PROVE Inv
  OBVIOUS
<1>1. pli \in [pc : {"first", "burst", "periodic", "gate", "done"}, sends : 0 .. PliMax, wake : Int]
  BY TimerAssumption DEF Init, Never
<1>2. sent \in [kind : Kinds \union {"placeholder", "none"}, ts : 0 .. Width - 1, at : Time]
  BY ClockAssumption DEF Init, Time
<1>3. now \in Time /\ lastReal \in Time /\ due \in Int /\ filmed \in Time \union {Never}
  BY ClockAssumption DEF Init, Time, Never
<1>4. net \in Seq([kind : Kinds, rtp : 0 .. Width - 1, at : Time])
  BY DEF Init
<1>5. offset \in Int /\ lastOut \in Nat
  BY DEF Init
<1>6. /\ base \in Bases /\ opened \in {"new", "open", "closed"}
      /\ ref \in {"none", "placeholder", "key", "gap", "excused"}
  BY DEF Init
<1>7. /\ path \in BOOLEAN /\ heard \in BOOLEAN /\ keyframe \in BOOLEAN /\ keyEvent \in BOOLEAN
      /\ live \in BOOLEAN /\ failed \in BOOLEAN
  BY Zenon DEF Init
<1>8. TypeOK
  BY <1>1, <1>2, <1>3, <1>4, <1>5, <1>6, <1>7 DEF TypeOK
<1>9. FeedInv /\ DecodeInv /\ LoopInv
  BY DEF Init, FeedInv, DecodeInv, LoopInv
<1> QED
  BY <1>8, <1>9 DEF Inv

\* A tick of the placeholder leaves a live stream only if it flows.
LEMMA TickKeeps ==
    ASSUME Inv, PlaceholderTick, opened \in {"new", "open"}, opened' = "open"
    PROVE  FeedInv' /\ DecodeInv' /\ LoopInv'
<1>0. /\ now \in Int /\ lastReal \in Int /\ Resume \in Int
      /\ UNCHANGED <<now, keyframe, lastReal, pli, failed>> /\ due' = now + 1
  BY TimerAssumption DEF Inv, TypeOK, Time, PlaceholderTick, gate
<1>1. CASE live'
  <2>1. live /\ now - lastReal < Resume /\ UNCHANGED <<sent, ref>> /\ opened = "open"
    <3>1. live /\ ~(now - lastReal >= Resume)
      BY <1>1, Zenon DEF PlaceholderTick, StaysLive, Stalled
    <3>2. UNCHANGED <<sent, ref>>
      BY <1>1 DEF PlaceholderTick
    <3>3. opened = "open"
      BY <3>1 DEF Inv, DecodeInv
    <3> QED
      BY <1>0, <3>1, <3>2, <3>3
  <2>2. FeedInv'
    BY <1>0, <1>1, <2>1 DEF Inv, FeedInv
  <2> QED
    BY <1>0, <1>1, <2>1, <2>2 DEF Inv, DecodeInv, LoopInv
<1>2. CASE ~live'
  <2>1. sent'.at = now /\ ref' = "placeholder"
    BY <1>2 DEF PlaceholderTick, SendToFfmpeg
  <2>2. FeedInv'
    BY <1>0, <1>2, <2>1 DEF FeedInv
  <2>3. DecodeInv'
    BY <1>2, <2>1 DEF DecodeInv
  <2>4. LoopInv'
    BY <1>0, <1>2 DEF Inv, LoopInv
  <2> QED
    BY <2>2, <2>3, <2>4
<1> QED
  BY <1>1, <1>2

\* A packet: the stream takes over, or goes on, with a reference.
LEMMA PacketKeeps == ASSUME Inv, DatagramReceived PROVE FeedInv' /\ DecodeInv' /\ LoopInv'
<1>1. PICK i \in DOMAIN net : net' = Without(i) /\ Heard(net[i]) /\ (Drop(net[i]) \/ Forward(net[i]))
  BY DEF DatagramReceived, Arriving
<1>2. net[i].kind \in Kinds
  <2>1. net[i] \in Frames
    BY WithoutType DEF Inv, TypeOK, Frames
  <2> QED
    BY <2>1 DEF Frames
<1>3. /\ opened = "open" /\ UNCHANGED <<opened, now, due, pli, failed>>
      /\ keyframe' = (keyframe \/ net[i].kind = "key")
  BY <1>1 DEF DatagramReceived, Heard, clock
<1>4. CASE Drop(net[i])
  <2>1. UNCHANGED <<live, lastReal, sent>> /\ (ref' = ref \/ (ref \in {"key", "excused"} /\ ref' = "gap"))
    BY <1>4 DEF Drop, stream
  <2>2. live => ~keyframe'
    BY <1>4 DEF Drop, Dropped
  <2> QED
    BY <1>3, <2>1, <2>2 DEF Inv, FeedInv, DecodeInv, LoopInv
<1>5. CASE Forward(net[i])
  <2>1. live' = TRUE /\ lastReal' = now /\ sent'.at = now /\ keyframe' = TRUE
    BY <1>5 DEF Forward, Dropped, SendToFfmpeg
  <2>2. ref' \in {"key", "excused"}
    <3>1. CASE net[i].kind = "key"
      BY <1>5, <3>1 DEF Forward
    <3>2. CASE net[i].kind # "key"
      <4>1. live /\ keyframe /\ ref' = ref
        BY <1>3, <1>5, <3>2 DEF Forward, Dropped, TakesOver
      <4> QED
        BY <4>1 DEF Inv, DecodeInv
    <3> QED
      BY <3>1, <3>2
  <2>3. now \in Int /\ due \in now .. now + 1
    BY <1>3 DEF Inv, FeedInv, TypeOK, Time
  <2> QED
    BY <1>3, <2>1, <2>2, <2>3, TimerAssumption DEF Inv, FeedInv, DecodeInv, LoopInv
<1> QED
  BY <1>1, <1>4, <1>5

\* The loop: it closes the gate only to wait, and opens it when the wait ends.
LEMMA LoopKeeps ==
    ASSUME Inv, PliBurst \/ PliFound \/ PliGivesUp \/ PliPeriodic \/ PliGate
    PROVE  FeedInv' /\ DecodeInv' /\ LoopInv'
<1>1. opened = "open" /\ now \in Int /\ UNCHANGED <<opened, now, due, live, lastReal, sent>>
  BY DEF PliBurst, PliFound, PliGivesUp, PliPeriodic, PliGate, InBurst, PliReady, clock, stream,
         Inv, TypeOK, Time
<1>2. FeedInv'
  BY <1>1 DEF Inv, FeedInv
<1>3. CASE PliBurst \/ PliFound \/ PliGivesUp
  <2>1. UNCHANGED <<keyframe, ref>>
    BY <1>3 DEF PliBurst, PliFound, PliGivesUp, gate
  <2>2. pli'.pc = "burst" \/ (pli'.pc = "periodic" /\ keyframe) \/ (pli'.pc = "done" /\ failed')
    BY <1>3 DEF PliBurst, PliFound, PliGivesUp, FoundKeyframe, Waits, Inv, TypeOK
  <2>3. pli.pc \in {"first", "burst"}
    BY <1>3 DEF PliBurst, PliFound, PliGivesUp, InBurst
  <2> QED
    BY <1>1, <1>2, <2>1, <2>2, <2>3 DEF Inv, DecodeInv, LoopInv
<1>4. CASE PliPeriodic
  <2>1. keyframe' = FALSE /\ ref' = ref /\ pli'.pc = "gate" /\ pli'.wake = now + PliWait
    BY <1>4 DEF PliPeriodic, Waits
  <2>2. now \in pli'.wake - PliWait .. pli'.wake
    BY <1>1, <2>1, TimerAssumption
  <2> QED
    BY <1>1, <1>2, <2>1, <2>2 DEF Inv, DecodeInv, LoopInv
<1>5. CASE PliGate
  <2>1. pli'.pc = "periodic" /\ keyframe' = TRUE
    BY <1>5 DEF PliGate, Waits, Reopened, gate
  <2>2. ref' = ref \/ (ref = "gap" /\ ref' = "excused")
    BY <1>5 DEF PliGate, Reopened
  <2>3. live => ref' # "gap"
    BY <1>5 DEF PliGate, Reopened, Inv, DecodeInv
  <2> QED
    BY <1>1, <1>2, <2>1, <2>2, <2>3 DEF Inv, DecodeInv, LoopInv
<1> QED
  BY <1>3, <1>4, <1>5

\* Every step keeps the invariant.
LEMMA InvStep == Inv /\ [Next]_vars => Inv'
<1> SUFFICES ASSUME Inv, [Next]_vars PROVE FeedInv' /\ DecodeInv' /\ LoopInv'
  BY TypeStep DEF Inv
<1>1. CASE Start \/ PlaceholderDue
  BY <1>1, TickKeeps DEF Start, PlaceholderDue
<1>2. CASE StunRequest \/ Film \/ Lose \/ UNCHANGED vars
  <2>1. UNCHANGED <<now, opened, due, live, lastReal, sent, keyframe, ref, pli, failed>>
    BY <1>2 DEF StunRequest, Film, Lose, vars, clock, gate, stream
  <2> QED
    BY <2>1 DEF Inv, FeedInv, DecodeInv, LoopInv
<1>3. CASE DatagramReceived
  BY <1>3, PacketKeeps
<1>4. CASE Close
  <2>1. opened = "open" /\ opened' = "closed" /\ UNCHANGED <<live, keyframe, ref>> /\ pli'.pc = "done"
    BY <1>4 DEF Close, gate, stream, Inv, TypeOK
  <2> QED
    BY <2>1 DEF Inv, FeedInv, DecodeInv, LoopInv
<1>5. CASE PliBurst \/ PliFound \/ PliGivesUp \/ PliPeriodic \/ PliGate
  BY <1>5, LoopKeeps
<1>6. CASE Tick
  <2>1. /\ opened = "open" /\ due # now /\ now' = now + 1 /\ now \in Int
        /\ UNCHANGED <<opened, due, live, lastReal, sent, keyframe, ref, pli, failed>>
    BY <1>6 DEF Tick, clock, gate, stream, Inv, TypeOK, Time
  <2>2. FeedInv'
    BY <2>1 DEF Inv, FeedInv
  <2>3. pli.pc = "gate" => now' \in pli.wake - PliWait .. pli.wake
    <3>1. pli.pc = "gate" => pli.wake # now
      BY <1>6, <2>1 DEF Tick, PliReady, Woken
    <3>2. pli.wake \in Int /\ PliWait \in Int
      BY TimerAssumption DEF Inv, TypeOK
    <3> QED
      BY <2>1, <3>1, <3>2 DEF Inv, LoopInv
  <2> QED
    BY <2>1, <2>2, <2>3 DEF Inv, DecodeInv, LoopInv
<1> QED
  BY <1>1, <1>2, <1>3, <1>4, <1>5, <1>6 DEF Next
-----------------------------------------------------------------------------
(* The theorems.                                                           *)

LEMMA Invariant == Spec => []Inv
  BY InvInit, InvStep, PTL DEF Spec

\* Every variable stays in its type; every timestamp fits its field.
THEOREM TypeCorrect == Spec => []TypeOK
<1>1. Inv => TypeOK
  BY DEF Inv
<1> QED
  BY <1>1, Invariant, PTL

\* ffmpeg never waits longer than a stall that is tolerated.
THEOREM AlwaysFed == Spec => []FfmpegFed
<1>1. Inv => FfmpegFed
  <2> SUFFICES ASSUME Inv, opened = "open" PROVE now - sent.at <= Resume
    BY DEF FfmpegFed
  <2>1. now \in Int /\ due \in now .. now + 1 /\ sent.at \in Int /\ lastReal \in Int
    BY DEF Inv, FeedInv, TypeOK, Time
  <2>2. live => sent.at = lastReal /\ due <= lastReal + Resume
    BY DEF Inv, FeedInv
  <2>3. ~live => due <= sent.at + 1
    BY DEF Inv, FeedInv
  <2> QED
    BY <2>1, <2>2, <2>3, TimerAssumption
<1> QED
  BY <1>1, Invariant, PTL

\* The gate is closed only while the loop waits for a keyframe.
THEOREM GateAlwaysReopens == Spec => []GateReopens
<1>1. Inv => GateReopens
  BY DEF Inv, LoopInv, GateReopens, TypeOK
<1> QED
  BY <1>1, Invariant, PTL

\* No P-frame reaches ffmpeg without its reference.
THEOREM FramesAlwaysDecodable == Spec => DecodableFrames
<1>1. Inv /\ [Next]_vars => [sent' # sent /\ sent'.kind = "delta" => ref \in {"key", "excused"}]_vars
  <2> SUFFICES ASSUME Inv, Next, sent' # sent, sent'.kind = "delta"
               PROVE  ref \in {"key", "excused"}
    BY DEF vars
  <2>1. DatagramReceived
    <3>1. CASE PlaceholderTick
      BY <3>1 DEF PlaceholderTick, SendToFfmpeg
    <3>2. CASE UNCHANGED sent
      BY <3>2
    <3> QED
      BY <3>1, <3>2 DEF Next, Start, PlaceholderDue, StunRequest, Film, Lose, Close, PliBurst,
         PliFound, PliGivesUp, PliPeriodic, PliGate, Tick
  <2>2. PICK i \in DOMAIN net : Heard(net[i]) /\ (Drop(net[i]) \/ Forward(net[i]))
    BY <2>1 DEF DatagramReceived, Arriving
  <2>3. Forward(net[i]) /\ net[i].kind = "delta"
    BY <2>2 DEF Drop, Forward, SendToFfmpeg
  <2>4. live /\ keyframe
    BY <2>2, <2>3 DEF Heard, Forward, Dropped, TakesOver
  <2> QED
    BY <2>4 DEF Inv, DecodeInv
<1> QED
  BY <1>1, Invariant, PTL DEF Spec, DecodableFrames

\* A call is degraded to audio only when no frame of the door was ever shown,
\* or none since the placeholder came back.
THEOREM DowngradeAlwaysJustified == Spec => DowngradeJustified
<1>1. Inv /\ [Next]_vars => [failed' # failed => ref = "placeholder" /\ ~live]_vars
  <2> SUFFICES ASSUME Inv, Next, failed' # failed PROVE ref = "placeholder" /\ ~live
    BY DEF vars
  <2>1. PliGivesUp
    BY DEF Next, Start, PlaceholderDue, PlaceholderTick, StunRequest, Film, Lose, DatagramReceived,
       Heard, Close, PliBurst, PliFound, PliPeriodic, PliGate, Tick
  <2>2. opened = "open" /\ pli.pc \in {"first", "burst"} /\ ~keyframe
    BY <2>1 DEF PliGivesUp, InBurst, PliReady, FoundKeyframe
  <2> QED
    BY <2>2 DEF Inv, DecodeInv, LoopInv
<1> QED
  BY <1>1, Invariant, PTL DEF Spec, DowngradeJustified
-----------------------------------------------------------------------------
(* Clocks that wrap.                                                       *)

LEMMA RateTimes ==
    \A x, y \in Int : /\ Rate * x \in Int
                      /\ x * Rate = Rate * x
                      /\ Rate * (x + y) = Rate * x + Rate * y
                      /\ Rate * (x - y) = Rate * x - Rate * y
                      /\ x <= y => Rate * x <= Rate * y
                      /\ x < y => Rate * x + Rate <= Rate * y
<1>1. \A x, y \in Int : /\ Rate * x \in Int
                        /\ x * Rate = Rate * x
                        /\ Rate * (x + y) = Rate * x + Rate * y
                        /\ Rate * (x - y) = Rate * x - Rate * y
  BY ClockAssumption
<1>2. \A x, y \in Int : x <= y => Rate * x <= Rate * y
  BY ClockAssumption
<1>3. \A x, y \in Int : x < y => Rate * x + Rate <= Rate * y
  <2> SUFFICES ASSUME NEW x \in Int, NEW y \in Int, x < y PROVE Rate * x + Rate <= Rate * y
    OBVIOUS
  <2>1. Rate * (x + 1) <= Rate * y
    BY <1>2
  <2>2. Rate * (x + 1) = Rate * x + Rate
    BY ClockAssumption
  <2> QED
    BY <2>1, <2>2
<1> QED
  BY <1>1, <1>2, <1>3

LEMMA Turns ==
    \A x \in Int : x \div Width \in Int /\ x = Width * (x \div Width) + (x % Width)
  BY ClockAssumption

LEMMA WidthTimes ==
    \A p, q \in Int : /\ Width * p \in Int
                      /\ Width * (p + q) = Width * p + Width * q
                      /\ Width * (p - q) = Width * p - Width * q
                      /\ p >= 1 => Width * p >= Width
<1>1. \A p, q \in Int : /\ Width * p \in Int
                        /\ Width * (p + q) = Width * p + Width * q
                        /\ Width * (p - q) = Width * p - Width * q
  BY ClockAssumption
<1>2. \A p \in Int : p >= 1 => Width * p >= Width
  BY ClockAssumption
<1> QED
  BY <1>1, <1>2

\* A number is so many turns of the clock and a timestamp in one way only.
LEMMA OneReading ==
    ASSUME NEW p \in Int, NEW q \in Int, NEW r \in 0 .. Width - 1, NEW s \in 0 .. Width - 1,
           Width * p + r = Width * q + s
    PROVE  r = s
<1>1. Width * p \in Int /\ Width * q \in Int /\ Width \in Int /\ r \in Int /\ s \in Int
  BY ClockAssumption, WidthTimes
<1>2. Width * (p - q) = s - r /\ Width * (q - p) = r - s
  BY <1>1, WidthTimes
<1>3. ~(p - q >= 1)
  BY <1>1, <1>2, WidthTimes
<1>4. ~(q - p >= 1)
  BY <1>1, <1>2, WidthTimes
<1>5. p = q
  BY <1>3, <1>4
<1> QED
  BY <1>1, <1>5

\* Whole turns do not show.
LEMMA WholeTurns == ASSUME NEW x \in Int, NEW k \in Int PROVE (x + Width * k) % Width = x % Width
<1>1. Width * k \in Int /\ x + Width * k \in Int
  BY ClockAssumption
<1>2. Width * ((x + Width * k) \div Width) + ((x + Width * k) % Width)
        = Width * (x \div Width) + (x % Width) + Width * k
  BY <1>1, Turns
<1>3. Width * (x \div Width) + Width * k = Width * (x \div Width + k)
  BY Turns, WidthTimes
<1>4. Width * ((x + Width * k) \div Width) + ((x + Width * k) % Width)
        = Width * (x \div Width + k) + (x % Width)
  <2>1. Width * (x \div Width) \in Int /\ x % Width \in Int
    BY Turns, Clocks, WidthTimes, ClockAssumption
  <2> QED
    BY <1>1, <1>2, <1>3, <2>1
<1>5. /\ (x + Width * k) \div Width \in Int /\ x \div Width + k \in Int
      /\ (x + Width * k) % Width \in 0 .. Width - 1 /\ x % Width \in 0 .. Width - 1
  BY <1>1, Turns, Clocks
<1> QED
  BY <1>4, <1>5, OneReading

\* Half a turn at most is a step ahead.
LEMMA AheadBy ==
    ASSUME NEW x \in Int, NEW y \in Int, y - x \in 1 .. Width \div 2 PROVE Ahead(x % Width, y % Width)
<1> DEFINE d == y - x
<1>1. d \in 0 .. Width - 1
  BY ClockAssumption
<1>2. PICK k \in Int : (y % Width) - (x % Width) = d + Width * k
  <2>1. PICK p \in Int : y = Width * p + (y % Width)
    BY Turns
  <2>2. PICK q \in Int : x = Width * q + (x % Width)
    BY Turns
  <2>3. Width * (q - p) = Width * q - Width * p /\ Width * p \in Int /\ Width * q \in Int
    BY WidthTimes, ClockAssumption
  <2>4. x % Width \in Int /\ y % Width \in Int
    BY Clocks, ClockAssumption
  <2>5. (y % Width) - (x % Width) = d + Width * (q - p)
    BY <2>1, <2>2, <2>3, <2>4
  <2> QED
    BY <2>5
<1>3. d % Width = d
  BY <1>1, ClockAssumption
<1>4. ((y % Width) - (x % Width)) % Width = d
  BY <1>1, <1>2, <1>3, WholeTurns
<1> QED
  BY <1>4 DEF Ahead

\* The door's clock between two frames: it wraps or it does not.
LEMMA DoorClock ==
    ASSUME base \in Int, NEW a \in Int, NEW b \in Int, a <= b
    PROVE  \E k \in Nat : Clocked(b) = Clocked(a) + Rate * (b - a) - Width * k
<1> DEFINE x == base + Rate * a
           y == base + Rate * b
<1>1. x \in Int /\ y \in Int /\ x <= y /\ y - x = Rate * (b - a)
  <2>1. Rate * a \in Int /\ Rate * b \in Int /\ Rate * a <= Rate * b
    BY RateTimes
  <2>2. Rate * (b - a) = Rate * b - Rate * a
    BY RateTimes
  <2> QED
    BY <2>1, <2>2
<1> HIDE DEF x, y
<1>2. PICK p \in Int : x = Width * p + (x % Width)
  BY <1>1, Turns
<1>3. PICK q \in Int : y = Width * q + (y % Width)
  BY <1>1, Turns
<1>4. Width * (q - p) = Width * q - Width * p /\ Width * p \in Int /\ Width * q \in Int
      /\ Width * (p - q) = Width * p - Width * q
  BY WidthTimes, ClockAssumption
<1>5. x % Width \in 0 .. Width - 1 /\ y % Width \in 0 .. Width - 1
  BY <1>1, Clocks
<1>6. ~(p - q >= 1)
  BY <1>1, <1>2, <1>3, <1>4, <1>5, WidthTimes, ClockAssumption
<1>7. q - p \in Nat /\ (y % Width) = (x % Width) + (y - x) - Width * (q - p)
  BY <1>1, <1>2, <1>3, <1>4, <1>5, <1>6
<1> QED
  BY <1>1, <1>7 DEF Clocked, x, y
-----------------------------------------------------------------------------
(* The timestamps advance.                                                 *)

\* The network keeps the order and the door its clock; the placeholder that
\* follows a stall is stamped behind the latest frame, and the longest stretch
\* between two frames is less than half a turn of the timestamp.
Timely ==
    /\ Network = {}
    /\ Rate * (Resume - MaxDelay) > 2
    /\ Rate * (Resume + MaxDelay) < Width \div 2

\* What is in flight was filmed in this order, lately, by the door's clock.
FlightInv ==
    /\ filmed <= now
    /\ \A i \in DOMAIN net : /\ net[i].rtp = Clocked(net[i].at)
                             /\ net[i].at \in now - MaxDelay .. now
                             /\ net[i].at <= filmed
    /\ \A i, j \in DOMAIN net : i < j => net[i].at < net[j].at

UnsentInv == opened = "new" => now = 0 /\ lastOut = 0 /\ sent.ts = 0

\* The placeholder is stamped by this clock, one behind it at most.
PlaceholderInv ==
    opened = "open" /\ ~live =>
        /\ due = sent.at + 1
        /\ sent.ts = lastOut % Width
        /\ lastOut \in Rate * sent.at .. Rate * sent.at + 1

\* The last frame sent was filmed at "a", before all in flight; its stamp is the
\* film time by this clock plus the delay of the take-over, short of the turns
\* the door's clock has made since.
LiveStamp(a, k) ==
    LET u == offset + Clocked(a) + Width * k IN
    /\ a \in lastReal - MaxDelay .. lastReal /\ a <= filmed
    /\ u \in Rate * a .. Rate * (a + MaxDelay) + 2
    /\ sent.ts = u % Width
    /\ lastOut <= Rate * (lastReal + MaxDelay) + 2
    /\ \A i \in DOMAIN net : a < net[i].at

LiveInv ==
    opened = "open" /\ live => lastReal <= now /\ \E a \in Int, k \in Nat : LiveStamp(a, k)

StampInv == FlightInv /\ UnsentInv /\ PlaceholderInv /\ LiveInv

LEMMA StampInit == Init => StampInv
<1> SUFFICES ASSUME Init PROVE StampInv
  OBVIOUS
<1>1. now = 0 /\ filmed = -1 /\ net = << >> /\ opened = "new" /\ lastOut = 0 /\ sent.ts = 0
  BY DEF Init, Never
<1> QED
  BY <1>1 DEF StampInv, FlightInv, UnsentInv, PlaceholderInv, LiveInv

\* The numbers of a state.
LEMMA Numbers ==
    ASSUME Inv
    PROVE  /\ now \in Nat /\ base \in Int /\ lastReal \in Nat /\ lastOut \in Nat /\ offset \in Int
           /\ due \in Int /\ filmed \in Int /\ sent.at \in Nat /\ MaxDelay \in Nat /\ Resume \in Nat
           /\ \A i \in DOMAIN net : net[i].at \in Nat /\ net[i].rtp \in Int
<1>1. \A i \in DOMAIN net : net[i] \in Frames
  BY WithoutType DEF Inv, TypeOK, Frames
<1>2. base \in Int
  <2>1. Bases \subseteq Int
    BY NetworkAssumption
  <2> QED
    BY <2>1 DEF Inv, TypeOK
<1>3. now \in Nat /\ lastReal \in Nat /\ filmed \in Int /\ sent.at \in Nat
  BY DEF Inv, TypeOK, Time, Never
<1>4. \A i \in DOMAIN net : net[i].at \in Nat /\ net[i].rtp \in Int
  BY <1>1, ClockAssumption DEF Frames, Time
<1> QED
  BY <1>2, <1>3, <1>4, NetworkAssumption, TimerAssumption DEF Inv, TypeOK

\* The head of the queue leaves.
LEMMA HeadLeaves ==
    ASSUME Inv, FlightInv, Timely, NEW i \in Arriving, net' = Without(i), UNCHANGED <<now, base, filmed>>
    PROVE  /\ FlightInv'
           /\ i \in DOMAIN net
           /\ \A j \in DOMAIN net' : net[i].at < net'[j].at
           /\ \A a \in Int : (\A j \in DOMAIN net : a < net[j].at) => \A j \in DOMAIN net' : a < net'[j].at
<1>1. i = 1 /\ 1 \in DOMAIN net
  BY DEF Arriving, Timely
<1>2. net \in Seq(Frames)
  BY DEF Inv, TypeOK, Frames
<1>3. \A j \in DOMAIN net' : j \in Nat /\ j + 1 \in DOMAIN net /\ j >= 1 /\ net'[j] = net[j + 1]
  <2>1. Len(net) \in Nat /\ Len(net) >= 1 /\ DOMAIN net = 1 .. Len(net)
    BY <1>1, <1>2
  <2>2. net' = SubSeq(net, 1, 0) \o SubSeq(net, 2, Len(net))
    BY <1>1 DEF Without
  <2>3. SubSeq(net, 1, 0) = << >>
    BY <1>2, SubSeqProperties, EmptySeq
  <2>4. /\ SubSeq(net, 2, Len(net)) \in Seq(Frames)
        /\ Len(SubSeq(net, 2, Len(net))) = Len(net) - 1
        /\ \A j \in 1 .. Len(net) - 1 : SubSeq(net, 2, Len(net))[j] = net[j + 1]
    BY <1>2, <2>1, SubSeqProperties
  <2>5. net' = SubSeq(net, 2, Len(net))
    BY <2>2, <2>3, <2>4
  <2> QED
    BY <2>1, <2>4, <2>5
<1>4. FlightInv'
  BY <1>3 DEF FlightInv, Clocked
<1>5. \A j \in DOMAIN net' : net[1].at < net'[j].at
  BY <1>1, <1>3 DEF FlightInv
<1> QED
  BY <1>1, <1>3, <1>4, <1>5

LEMMA ClockedType == ASSUME Inv, NEW a \in Int PROVE Clocked(a) \in Int
<1>1. base \in Int /\ Rate * a \in Int
  BY Numbers, RateTimes
<1>2. base + Rate * a \in Int
  BY <1>1
<1> QED
  BY <1>2, Clocks, ClockAssumption DEF Clocked

LEMMA NextClock ==
    ASSUME Inv
    PROVE  /\ NextClockTs \in Int /\ Rate * now \in Int
           /\ NextClockTs > lastOut
           /\ \/ NextClockTs = Rate * now
              \/ NextClockTs = lastOut + 1 /\ lastOut >= Rate * now
<1>1. now \in Int /\ lastOut \in Int
  BY Numbers
<1>2. now * Rate = Rate * now /\ Rate * now \in Int
  BY <1>1, RateTimes
<1> QED
  BY <1>1, <1>2 DEF NextClockTs

\* The placeholder, or the stream that takes over from it, goes on from the
\* last placeholder.
LEMMA FromPlaceholder ==
    ASSUME Inv, StampInv, Timely, opened = "open", ~live
    PROVE  /\ Ahead(sent.ts, NextClockTs % Width)
           /\ NextClockTs \in Rate * now .. Rate * now + 2
           /\ due = now => NextClockTs <= Rate * now + 1
<1>1. /\ now \in Int /\ due \in Int /\ lastOut \in Int /\ sent.at \in Int
      /\ Resume \in Nat /\ MaxDelay \in Nat
  BY Numbers
<1>2. now <= due /\ due = sent.at + 1 /\ due <= now + 1
  <2>1. due \in now .. now + 1
    BY DEF Inv, FeedInv
  <2> QED
    BY <1>1, <2>1 DEF StampInv, PlaceholderInv
<1>3. /\ sent.ts = lastOut % Width
      /\ lastOut >= Rate * sent.at /\ lastOut <= Rate * sent.at + 1
  BY RateTimes, <1>1 DEF StampInv, PlaceholderInv
<1>4. /\ Rate * now \in Int /\ Rate * sent.at \in Int
      /\ now = sent.at \/ (now = sent.at + 1 /\ Rate * now = Rate * sent.at + Rate)
  <2>1. now = sent.at \/ now = sent.at + 1
    BY <1>1, <1>2
  <2>2. Rate * (sent.at + 1) = Rate * sent.at + Rate * 1 /\ Rate * 1 = Rate
    BY <1>1, RateTimes, ClockAssumption
  <2> QED
    BY <1>1, <2>1, <2>2, RateTimes
<1>5. Rate \in Nat \ {0} /\ Rate + 1 <= Width \div 2
  <2>1. Resume - MaxDelay \in Int /\ Resume + MaxDelay \in Int /\ 1 <= Resume + MaxDelay
    BY <1>1, TimerAssumption
  <2>2. Rate * 1 <= Rate * (Resume + MaxDelay) /\ Rate * (Resume + MaxDelay) \in Int
    BY <2>1, RateTimes
  <2> QED
    BY <2>1, <2>2, ClockAssumption DEF Timely
<1>6. NextClockTs - lastOut \in 1 .. Width \div 2
  <2>1. Width \div 2 \in Int
    BY ClockAssumption
  <2>2. NextClockTs - lastOut <= Rate + 1
    BY <1>1, <1>3, <1>4, <1>5, NextClock
  <2> QED
    BY <1>1, <1>5, <2>1, <2>2, NextClock
<1>7. Ahead(sent.ts, NextClockTs % Width)
  BY <1>1, <1>3, <1>6, NextClock, AheadBy
<1>8. NextClockTs \in Rate * now .. Rate * now + 2
  BY <1>1, <1>3, <1>4, <1>5, NextClock
<1>9. due = now => NextClockTs <= Rate * now + 1
  BY <1>1, <1>2, <1>3, <1>4, <1>5, NextClock
<1> QED
  BY <1>7, <1>8, <1>9

\* After a stall the placeholder is ahead of all that was sent of the stream.
LEMMA FromStall ==
    ASSUME Inv, StampInv, Timely, opened = "open", live, Stalled
    PROVE  Ahead(sent.ts, NextClockTs % Width) /\ NextClockTs = Rate * now
<1>1. PICK a \in Int, k \in Nat : LiveStamp(a, k)
  BY DEF StampInv, LiveInv
<1> DEFINE u == offset + Clocked(a) + Width * k
<1>2. u \in Int
  <2>1. Clocked(a) \in Int
    BY ClockedType
  <2>2. Width * k \in Int /\ offset \in Int
    BY Numbers, WidthTimes
  <2> QED
    BY <2>1, <2>2
<1>3. /\ a >= lastReal - MaxDelay /\ a <= lastReal
      /\ u >= Rate * a /\ u <= Rate * (a + MaxDelay) + 2
      /\ sent.ts = u % Width
      /\ lastOut <= Rate * (lastReal + MaxDelay) + 2
  BY <1>1, <1>2, Numbers, RateTimes DEF LiveStamp
<1> HIDE DEF u
<1>4. now \in Int /\ lastReal \in Int /\ MaxDelay \in Int /\ Resume \in Int /\ lastOut \in Int
  BY Numbers
<1>5. now = lastReal + Resume
  <2>1. due \in now .. now + 1 /\ due <= lastReal + Resume
    BY DEF Inv, FeedInv
  <2> QED
    BY <1>4, <2>1 DEF Stalled
<1>6. /\ Rate * now \in Int /\ Rate * a \in Int /\ Rate * (a + MaxDelay) \in Int
      /\ Rate * (lastReal + MaxDelay) \in Int
      /\ Rate * (a + MaxDelay) <= Rate * (lastReal + MaxDelay)
      /\ Rate * (lastReal + MaxDelay) + Rate * (Resume - MaxDelay) = Rate * now
      /\ Rate * (now - a) <= Rate * (Resume + MaxDelay)
      /\ Rate * (now - a) = Rate * now - Rate * a
  <2>1. /\ a + MaxDelay <= lastReal + MaxDelay
        /\ (lastReal + MaxDelay) + (Resume - MaxDelay) = now
        /\ now - a <= Resume + MaxDelay
    BY <1>3, <1>4, <1>5
  <2>2. Rate * (lastReal + MaxDelay) + Rate * (Resume - MaxDelay)
          = Rate * ((lastReal + MaxDelay) + (Resume - MaxDelay))
    BY <1>4, RateTimes
  <2>3. /\ a + MaxDelay \in Int /\ lastReal + MaxDelay \in Int
        /\ now - a \in Int /\ Resume + MaxDelay \in Int
    BY <1>4
  <2> QED
    BY <1>4, <2>1, <2>2, <2>3, RateTimes
<1>7. Rate * (Resume - MaxDelay) > 2 /\ Rate * (Resume - MaxDelay) \in Int
      /\ Rate * (Resume + MaxDelay) < Width \div 2 /\ Rate * (Resume + MaxDelay) \in Int
  BY <1>4, RateTimes DEF Timely
<1>8. lastOut < Rate * now
  BY <1>3, <1>4, <1>6, <1>7
<1>9. NextClockTs = Rate * now
  BY <1>4, <1>6, <1>8, NextClock
<1>10. Rate * now - u \in 1 .. Width \div 2
  <2>1. Width \div 2 \in Int
    BY ClockAssumption
  <2> QED
    BY <1>2, <1>3, <1>6, <1>7, <2>1
<1> QED
  BY <1>2, <1>3, <1>6, <1>9, <1>10, AheadBy

\* A keyframe takes over from the placeholder.
LEMMA TakesOverAhead ==
    ASSUME Inv, StampInv, Timely, opened = "open", ~live,
           NEW i \in Arriving, net' = Without(i), Heard(net[i]), Forward(net[i])
    PROVE  Ahead(sent.ts, sent'.ts) /\ \E a \in Int, k \in Nat : LiveStamp(a, k)'
<1>0. PICK f : f = net[i]
  OBVIOUS
<1>1. UNCHANGED <<now, base, filmed>>
  BY DEF Heard
<1>2. i \in DOMAIN net /\ \A j \in DOMAIN net' : f.at < net'[j].at
  BY <1>0, <1>1, HeadLeaves DEF StampInv
<1>3. /\ f.at \in Int /\ f.rtp \in Int /\ f.rtp = Clocked(f.at) /\ now \in Int /\ lastOut \in Int
      /\ MaxDelay \in Nat /\ f.at >= now - MaxDelay /\ f.at <= now /\ f.at <= filmed
  BY <1>0, <1>2, Numbers DEF StampInv, FlightInv
<1>4. /\ offset' = NextClockTs - f.rtp /\ lastReal' = now
      /\ SendToFfmpeg(f.kind, f.rtp + offset')
  BY <1>0 DEF Forward
<1>5. /\ NextClockTs \in Int /\ NextClockTs > lastOut
      /\ Rate * now \in Int /\ NextClockTs >= Rate * now /\ NextClockTs <= Rate * now + 2
  BY NextClock, FromPlaceholder
<1>6. f.rtp + offset' = NextClockTs
  BY <1>3, <1>4, <1>5
<1>7. sent'.ts = NextClockTs % Width /\ lastOut' = NextClockTs
  BY <1>3, <1>4, <1>5, <1>6 DEF SendToFfmpeg
<1>8. Clocked(f.at)' = f.rtp
  BY <1>1, <1>3 DEF Clocked
<1>9. /\ Rate * f.at <= Rate * now /\ Rate * now <= Rate * (f.at + MaxDelay)
      /\ Rate * now <= Rate * (now + MaxDelay)
      /\ Rate * f.at \in Int /\ Rate * (f.at + MaxDelay) \in Int /\ Rate * (now + MaxDelay) \in Int
  <2>1. f.at + MaxDelay \in Int /\ now + MaxDelay \in Int /\ now <= f.at + MaxDelay /\ now <= now + MaxDelay
    BY <1>3
  <2> QED
    BY <1>3, <2>1, RateTimes
<1>10. LiveStamp(f.at, 0)'
  <2>1. Width * 0 = 0
    BY ClockAssumption
  <2>2. offset' + f.rtp + 0 = NextClockTs
    BY <1>3, <1>4, <1>5
  <2>3. NextClockTs \in Rate * f.at .. Rate * (f.at + MaxDelay) + 2
    BY <1>5, <1>9
  <2>4. f.at \in now - MaxDelay .. now
    BY <1>3
  <2>5. lastOut' <= Rate * (now + MaxDelay) + 2
    BY <1>5, <1>7, <1>9
  <2>6. \A j \in DOMAIN net' : f.at < net'[j].at
    BY <1>2
  <2>7. (offset + Clocked(f.at) + Width * 0)' = NextClockTs
    BY <1>3, <1>8, <2>1, <2>2
  <2> QED
    BY <1>1, <1>3, <1>4, <1>7, <2>3, <2>4, <2>5, <2>6, <2>7 DEF LiveStamp
<1>11. Ahead(sent.ts, sent'.ts)
  BY <1>7, FromPlaceholder
<1> QED
  BY <1>3, <1>10, <1>11

\* The stream goes on, though the door's clock wrap and frames be lost.
LEMMA FlowsAhead ==
    ASSUME Inv, StampInv, Timely, opened = "open", live,
           NEW i \in Arriving, net' = Without(i), Heard(net[i]), Forward(net[i])
    PROVE  Ahead(sent.ts, sent'.ts) /\ \E a \in Int, k \in Nat : LiveStamp(a, k)'
<1>0. PICK f : f = net[i]
  OBVIOUS
<1>1. UNCHANGED <<now, base, filmed>>
  BY DEF Heard
<1>2. i \in DOMAIN net /\ \A j \in DOMAIN net' : f.at < net'[j].at
  BY <1>0, <1>1, HeadLeaves DEF StampInv
<1>3. /\ f.at \in Int /\ f.rtp \in Int /\ f.rtp = Clocked(f.at) /\ now \in Int /\ lastOut \in Int
      /\ lastReal \in Int /\ Resume \in Nat /\ MaxDelay \in Nat /\ base \in Int /\ offset \in Int
      /\ f.at >= now - MaxDelay /\ f.at <= now /\ f.at <= filmed
  BY <1>0, <1>2, Numbers DEF StampInv, FlightInv
<1>4. offset' = offset /\ lastReal' = now /\ SendToFfmpeg(f.kind, f.rtp + offset)
  BY <1>0 DEF Forward
<1>5. PICK a \in Int, k \in Nat : LiveStamp(a, k)
  BY DEF StampInv, LiveInv
<1>6. a < f.at
  BY <1>0, <1>2, <1>5 DEF LiveStamp
<1>7. PICK u : u = offset + Clocked(a) + Width * k
  OBVIOUS
<1>8. PICK m \in Nat : Clocked(f.at) = Clocked(a) + Rate * (f.at - a) - Width * m
  <2>1. base \in Int /\ f.at \in Int /\ a <= f.at
    BY <1>3, <1>6
  <2> QED
    BY <2>1, DoorClock
<1>9. /\ Clocked(a) \in Int /\ Width * k \in Int /\ Width * m \in Int
      /\ Width * (k + m) = Width * k + Width * m /\ Width * (k + m) >= 0
  <2>1. Clocked(a) \in Int
    BY ClockedType
  <2>2. Width * k \in Int /\ Width * m \in Int /\ Width * (k + m) = Width * k + Width * m
    BY WidthTimes
  <2>3. k + m \in Nat /\ Width \in Nat
    BY ClockAssumption
  <2>4. Width * (k + m) >= 0
    BY <2>3
  <2> QED
    BY <2>1, <2>2, <2>4
<1>10. /\ u \in Int /\ u >= Rate * a /\ u <= Rate * (a + MaxDelay) + 2 /\ sent.ts = u % Width
       /\ a >= lastReal - MaxDelay /\ a <= lastReal
       /\ lastOut <= Rate * (lastReal + MaxDelay) + 2
  <2>1. u \in Int
    BY <1>3, <1>7, <1>9
  <2> QED
    BY <1>3, <1>5, <1>7, <2>1, RateTimes DEF LiveStamp
<1>11. now <= lastReal + Resume
  <2>1. due \in now .. now + 1 /\ due <= lastReal + Resume
    BY DEF Inv, FeedInv
  <2> QED
    BY <1>3, <2>1, Numbers
<1>12. PICK d : d = Rate * (f.at - a)
  OBVIOUS
<1>13. /\ d \in Int /\ d >= Rate /\ d <= Rate * (Resume + MaxDelay)
       /\ Rate * f.at = Rate * a + d /\ Rate * (f.at + MaxDelay) = Rate * (a + MaxDelay) + d
       /\ Rate * f.at \in Int /\ Rate * (f.at + MaxDelay) \in Int /\ Rate * (now + MaxDelay) \in Int
       /\ Rate * a \in Int /\ Rate * (a + MaxDelay) \in Int /\ Rate * (lastReal + MaxDelay) \in Int
       /\ Rate * (f.at + MaxDelay) <= Rate * (now + MaxDelay)
       /\ Rate * (lastReal + MaxDelay) <= Rate * (now + MaxDelay)
       /\ Rate * (Resume + MaxDelay) \in Int
  <2>1. /\ f.at - a \in Int /\ f.at - a <= Resume + MaxDelay /\ 1 <= f.at - a
        /\ f.at = a + (f.at - a) /\ f.at + MaxDelay = (a + MaxDelay) + (f.at - a)
        /\ f.at + MaxDelay <= now + MaxDelay
        /\ a + MaxDelay \in Int /\ f.at + MaxDelay \in Int /\ now + MaxDelay \in Int
        /\ lastReal + MaxDelay \in Int /\ Resume + MaxDelay \in Int
    BY <1>3, <1>6, <1>10, <1>11
  <2>2. lastReal + MaxDelay <= now + MaxDelay
    BY <1>3 DEF StampInv, LiveInv
  <2>3. Rate * 1 = Rate /\ Rate * 1 <= Rate * (f.at - a)
    BY <2>1, RateTimes, ClockAssumption
  <2>4. /\ Rate * (a + (f.at - a)) = Rate * a + d
        /\ Rate * ((a + MaxDelay) + (f.at - a)) = Rate * (a + MaxDelay) + d
    BY <1>12, <2>1, RateTimes
  <2>5. d \in Int /\ d >= Rate /\ d <= Rate * (Resume + MaxDelay) /\ Rate * (Resume + MaxDelay) \in Int
    BY <1>12, <2>1, <2>3, RateTimes
  <2>6. /\ Rate * f.at \in Int /\ Rate * (f.at + MaxDelay) \in Int /\ Rate * (now + MaxDelay) \in Int
        /\ Rate * a \in Int /\ Rate * (a + MaxDelay) \in Int /\ Rate * (lastReal + MaxDelay) \in Int
        /\ Rate * (f.at + MaxDelay) <= Rate * (now + MaxDelay)
        /\ Rate * (lastReal + MaxDelay) <= Rate * (now + MaxDelay)
    BY <1>3, <2>1, <2>2, RateTimes
  <2> QED
    BY <2>1, <2>4, <2>5, <2>6
<1>14. f.rtp + offset = (u + d) - Width * (k + m)
  BY <1>3, <1>7, <1>8, <1>9, <1>10, <1>12, <1>13
<1>15. f.rtp + offset \in Int /\ (f.rtp + offset) % Width = (u + d) % Width
  <2>1. u + d = (f.rtp + offset) + Width * (k + m)
    BY <1>3, <1>9, <1>10, <1>13, <1>14
  <2> QED
    BY <1>3, <2>1, WholeTurns
<1>16. sent'.ts = (u + d) % Width
  BY <1>4, <1>15 DEF SendToFfmpeg
<1>17. lastOut' <= Rate * (now + MaxDelay) + 2
  <2>1. f.rtp + offset <= u + d
    BY <1>9, <1>10, <1>13, <1>14
  <2>2. lastOut' = lastOut \/ lastOut' = f.rtp + offset
    BY <1>4 DEF SendToFfmpeg
  <2> QED
    BY <1>3, <1>10, <1>13, <1>15, <2>1, <2>2
<1>18. LiveStamp(f.at, k + m)'
  <2>1. Clocked(f.at)' = f.rtp
    BY <1>1, <1>3 DEF Clocked
  <2>2. offset + f.rtp + Width * (k + m) = u + d
    BY <1>3, <1>9, <1>10, <1>13, <1>14
  <2>3. (offset + Clocked(f.at) + Width * (k + m))' = u + d
    BY <1>4, <2>1, <2>2
  <2>4. u + d \in Rate * f.at .. Rate * (f.at + MaxDelay) + 2
    BY <1>10, <1>13
  <2>5. f.at \in now - MaxDelay .. now
    BY <1>3
  <2> QED
    BY <1>1, <1>2, <1>3, <1>4, <1>16, <1>17, <2>3, <2>4, <2>5 DEF LiveStamp
<1>19. Ahead(sent.ts, sent'.ts)
  <2>1. (u + d) - u \in 1 .. Width \div 2 /\ u + d \in Int
    BY <1>10, <1>13, ClockAssumption DEF Timely
  <2> QED
    BY <1>10, <1>16, <2>1, AheadBy
<1>20. k + m \in Nat
  OBVIOUS
<1> QED
  BY <1>3, <1>18, <1>19, <1>20

\* The stream's packets, forwarded or not.
LEMMA PacketStamps ==
    ASSUME Inv, StampInv, Timely, DatagramReceived
    PROVE  StampInv' /\ (sent' # sent => Ahead(sent.ts, sent'.ts))
<1>1. PICK i \in Arriving : net' = Without(i) /\ Heard(net[i]) /\ (Drop(net[i]) \/ Forward(net[i]))
  BY DEF DatagramReceived
<1>2. opened = "open" /\ UNCHANGED <<now, base, filmed, opened, due>>
  BY <1>1 DEF DatagramReceived, Heard, clock
<1>3. FlightInv' /\ \A a \in Int : (\A j \in DOMAIN net : a < net[j].at) => \A j \in DOMAIN net' : a < net'[j].at
  BY <1>1, <1>2, HeadLeaves DEF StampInv
<1>4. CASE Drop(net[i])
  <2>1. UNCHANGED <<live, offset, lastReal, lastOut, sent>>
    BY <1>4 DEF Drop, stream
  <2>2. LiveInv'
    BY <1>2, <1>3, <2>1 DEF StampInv, LiveInv, LiveStamp, Clocked
  <2> QED
    BY <1>2, <1>3, <2>1, <2>2 DEF StampInv, UnsentInv, PlaceholderInv
<1>5. CASE Forward(net[i])
  <2>1. Ahead(sent.ts, sent'.ts) /\ \E a \in Int, k \in Nat : LiveStamp(a, k)'
    BY <1>1, <1>2, <1>5, FlowsAhead, TakesOverAhead
  <2>2. live' /\ lastReal' = now /\ now \in Int
    BY <1>5, Numbers DEF Forward
  <2> QED
    BY <1>2, <1>3, <2>1, <2>2 DEF StampInv, UnsentInv, PlaceholderInv, LiveInv
<1> QED
  BY <1>1, <1>4, <1>5

\* The placeholder's ticks, the first one too.
LEMMA PlaceholderStamps ==
    ASSUME Inv, StampInv, Timely, Start \/ PlaceholderDue
    PROVE  StampInv' /\ (sent' # sent => Ahead(sent.ts, sent'.ts))
<1>1. /\ UNCHANGED <<now, base, filmed, net, offset, lastReal>> /\ opened' = "open" /\ due' = now + 1
      /\ PlaceholderTick
  BY DEF Start, PlaceholderDue, PlaceholderTick, door
<1>2. FlightInv' /\ UnsentInv'
  BY <1>1 DEF StampInv, FlightInv, UnsentInv, Clocked
<1>3. CASE live'
  <2>1. live /\ UNCHANGED <<live, sent, lastOut>>
    BY <1>1, <1>3 DEF PlaceholderTick, StaysLive
  <2>2. opened = "open"
    BY <2>1 DEF Start, PlaceholderDue, Inv, DecodeInv
  <2> QED
    BY <1>1, <1>2, <1>3, <2>1, <2>2 DEF StampInv, PlaceholderInv, LiveInv, LiveStamp, Clocked
<1>4. CASE ~live'
  <2>1. SendToFfmpeg("placeholder", NextClockTs)
    BY <1>1, <1>4 DEF PlaceholderTick
  <2>2. NextClockTs \in Int /\ NextClockTs > lastOut /\ now \in Int /\ lastOut \in Int /\ Rate * now \in Int
    BY Numbers, NextClock
  <2>3. sent'.ts = NextClockTs % Width /\ lastOut' = NextClockTs /\ sent'.at = now
    BY <2>1, <2>2 DEF SendToFfmpeg
  <2>4. Ahead(sent.ts, NextClockTs % Width) /\ NextClockTs \in Rate * now .. Rate * now + 1
    <3>1. CASE opened = "new"
      <4>1. now = 0 /\ lastOut = 0 /\ sent.ts = 0
        BY <3>1 DEF StampInv, UnsentInv
      <4>2. now * Rate = 0 /\ Rate * now = 0
        BY <4>1, ClockAssumption
      <4>3. NextClockTs = 1
        BY <4>1, <4>2 DEF NextClockTs
      <4>4. 1 <= Width \div 2
        <5>1. Rate * (Resume + MaxDelay) \in Nat
          BY Numbers, ClockAssumption
        <5> QED
          BY <5>1, ClockAssumption DEF Timely
      <4>5. Ahead(0 % Width, 1 % Width) /\ 0 % Width = 0
        <5>1. 1 - 0 \in 1 .. Width \div 2
          BY <4>4, ClockAssumption
        <5>2. 0 % Width = 0
          BY ClockAssumption
        <5> QED
          BY <5>1, <5>2, AheadBy
      <4> QED
        BY <4>1, <4>2, <4>3, <4>5
    <3>2. CASE PlaceholderDue /\ ~live
      <4>1. opened = "open" /\ due = now
        BY <3>2 DEF PlaceholderDue
      <4> QED
        BY <3>2, <4>1, <2>2, FromPlaceholder
    <3>3. CASE PlaceholderDue /\ live
      <4>1. opened = "open" /\ Stalled
        BY <1>1, <1>4, <3>3 DEF PlaceholderDue, PlaceholderTick, StaysLive
      <4> QED
        BY <3>3, <4>1, <2>2, FromStall
    <3> QED
      BY <3>1, <3>2, <3>3 DEF Start
  <2>5. PlaceholderInv'
    BY <1>1, <2>3, <2>4 DEF PlaceholderInv
  <2> QED
    BY <1>2, <1>4, <2>3, <2>4, <2>5 DEF StampInv, LiveInv
<1> QED
  BY <1>3, <1>4

LEMMA FilmStamps == ASSUME Inv, StampInv, Timely, Film PROVE StampInv'
<1>1. PICK kind \in Kinds :
        net' = Append(net, [kind |-> kind, rtp |-> (base' + Rate * now) % Width, at |-> now])
  BY DEF Film
<1>2. /\ base' = base /\ filmed' = now /\ filmed < now
      /\ UNCHANGED <<now, opened, due, live, offset, lastReal, lastOut, sent>>
  BY DEF Film, Timely, clock, stream
<1>3. net \in Seq(Frames) /\ Len(net) \in Nat /\ DOMAIN net = 1 .. Len(net)
  BY DEF Inv, TypeOK, Frames
<1>4. PICK f : f = [kind |-> kind, rtp |-> (base' + Rate * now) % Width, at |-> now]
  OBVIOUS
<1>5. f.at = now /\ f.rtp = Clocked(now) /\ now \in Int /\ MaxDelay \in Nat /\ filmed \in Int
  BY <1>2, <1>4, Numbers DEF Clocked
<1>6. /\ DOMAIN net' = 1 .. Len(net) + 1 /\ net'[Len(net) + 1] = f
      /\ \A j \in 1 .. Len(net) : net'[j] = net[j]
  BY <1>1, <1>3, <1>4
<1>7. \A j \in DOMAIN net' : j \in DOMAIN net \/ j = Len(net) + 1
  BY <1>3, <1>6
<1>8. \A j \in DOMAIN net : net[j].at \in Int /\ net[j].at < now
  BY <1>2, <1>5, Numbers DEF StampInv, FlightInv
<1>9. FlightInv'
  <2>1. \A j \in DOMAIN net' : /\ net'[j].rtp = Clocked(net'[j].at)
                               /\ net'[j].at \in now - MaxDelay .. now
                               /\ net'[j].at <= now
    <3> SUFFICES ASSUME NEW j \in DOMAIN net'
                 PROVE  /\ net'[j].rtp = Clocked(net'[j].at)
                        /\ net'[j].at \in now - MaxDelay .. now
                        /\ net'[j].at <= now
      OBVIOUS
    <3>1. CASE j \in DOMAIN net
      BY <1>3, <1>5, <1>6, <1>8, <3>1 DEF StampInv, FlightInv
    <3>2. CASE j = Len(net) + 1
      BY <1>5, <1>6, <3>2
    <3> QED
      BY <1>7, <3>1, <3>2
  <2>2. \A j, m \in DOMAIN net' : j < m => net'[j].at < net'[m].at
    <3> SUFFICES ASSUME NEW j \in DOMAIN net', NEW m \in DOMAIN net', j < m
                 PROVE  net'[j].at < net'[m].at
      OBVIOUS
    <3>1. j \in DOMAIN net
      BY <1>3, <1>6
    <3>2. CASE m \in DOMAIN net
      BY <1>3, <1>6, <3>1, <3>2 DEF StampInv, FlightInv
    <3>3. CASE m = Len(net) + 1
      BY <1>3, <1>5, <1>6, <1>8, <3>1, <3>3
    <3> QED
      BY <1>7, <3>2, <3>3
  <2>3. \A x : Clocked(x)' = Clocked(x)
    BY <1>2 DEF Clocked
  <2> QED
    BY <1>2, <1>5, <2>1, <2>2 DEF FlightInv, Clocked
<1>10. LiveInv'
  <2> SUFFICES ASSUME opened = "open", live PROVE lastReal <= now /\ \E a \in Int, k \in Nat : LiveStamp(a, k)'
    BY <1>2 DEF LiveInv
  <2>1. lastReal <= now
    BY DEF StampInv, LiveInv
  <2>2. PICK a \in Int, k \in Nat : LiveStamp(a, k)
    BY DEF StampInv, LiveInv
  <2>3. a < now
    BY <1>2, <1>5, <2>2 DEF LiveStamp
  <2>4. \A j \in DOMAIN net' : a < net'[j].at
    BY <1>3, <1>5, <1>6, <1>7, <2>2, <2>3 DEF LiveStamp
  <2>5. LiveStamp(a, k)'
    BY <1>2, <1>5, <2>2, <2>3, <2>4 DEF LiveStamp, Clocked
  <2> QED
    BY <2>1, <2>5
<1> QED
  BY <1>2, <1>9, <1>10 DEF StampInv, UnsentInv, PlaceholderInv

\* Every step keeps the invariant, and stamps a frame ahead of the last one.
LEMMA StampStep ==
    ASSUME Inv, StampInv, Timely, [Next]_vars
    PROVE  StampInv' /\ (sent' # sent => Ahead(sent.ts, sent'.ts))
<1>1. CASE Start \/ PlaceholderDue
  BY <1>1, PlaceholderStamps
<1>2. CASE DatagramReceived
  BY <1>2, PacketStamps
<1>3. CASE Film
  BY <1>3, FilmStamps DEF Film
<1>4. CASE Lose
  <2>1. PICK i \in Arriving : net' = Without(i)
    BY <1>4 DEF Lose
  <2>2. UNCHANGED <<now, base, filmed, opened, due, live, offset, lastReal, lastOut, sent>>
    BY <1>4 DEF Lose, clock, stream
  <2>3. /\ FlightInv'
        /\ \A a \in Int : (\A j \in DOMAIN net : a < net[j].at) => \A j \in DOMAIN net' : a < net'[j].at
    BY <2>1, <2>2, HeadLeaves DEF StampInv
  <2>4. LiveInv'
    BY <2>2, <2>3 DEF StampInv, LiveInv, LiveStamp, Clocked
  <2> QED
    BY <2>2, <2>3, <2>4 DEF StampInv, UnsentInv, PlaceholderInv
<1>5. CASE Close
  <2>1. opened' = "closed" /\ net' = << >> /\ UNCHANGED <<now, filmed, sent>>
    BY <1>5 DEF Close
  <2> QED
    BY <2>1 DEF StampInv, FlightInv, UnsentInv, PlaceholderInv, LiveInv
<1>6. CASE Tick
  <2>1. /\ opened = "open" /\ now' = now + 1
        /\ UNCHANGED <<base, filmed, net, opened, due, live, offset, lastReal, lastOut, sent>>
    BY <1>6 DEF Tick, door, clock, stream
  <2>2. \A j \in DOMAIN net : net[j].at \in now' - MaxDelay .. now'
    <3>1. \A j \in DOMAIN net : now - net[j].at < MaxDelay
      BY <1>6 DEF Tick
    <3> QED
      BY <2>1, <3>1, Numbers DEF StampInv, FlightInv
  <2>3. filmed <= now' /\ (lastReal <= now => lastReal <= now')
    BY <2>1, Numbers DEF StampInv, FlightInv
  <2>4. FlightInv'
    BY <2>1, <2>2, <2>3 DEF StampInv, FlightInv, Clocked
  <2>5. LiveInv'
    BY <2>1, <2>3 DEF StampInv, LiveInv, LiveStamp, Clocked
  <2> QED
    BY <2>1, <2>4, <2>5 DEF StampInv, UnsentInv, PlaceholderInv
<1>7. CASE StunRequest \/ PliBurst \/ PliFound \/ PliGivesUp \/ PliPeriodic \/ PliGate \/ UNCHANGED vars
  <2>1. UNCHANGED <<now, base, filmed, net, opened, due, live, offset, lastReal, lastOut, sent>>
    BY <1>7 DEF StunRequest, PliBurst, PliFound, PliGivesUp, PliPeriodic, PliGate, Reopened,
       vars, door, clock, stream
  <2>2. FlightInv' /\ LiveInv'
    BY <2>1 DEF StampInv, FlightInv, LiveInv, LiveStamp, Clocked
  <2> QED
    BY <2>1, <2>2 DEF StampInv, UnsentInv, PlaceholderInv
<1> QED
  BY <1>1, <1>2, <1>3, <1>4, <1>5, <1>6, <1>7 DEF Next

\* Across take-overs, stalls, losses and turns of either clock, no frame is
\* stamped behind the one before it.
THEOREM TimestampsAlwaysAdvance == ASSUME Timely PROVE Spec => TimestampsAdvance
<1>1. Inv /\ StampInv /\ [Next]_vars => StampInv' /\ [sent' # sent => Ahead(sent.ts, sent'.ts)]_vars
  BY StampStep
<1> QED
  BY <1>1, StampInit, Invariant, PTL DEF Spec, TimestampsAdvance
=============================================================================
