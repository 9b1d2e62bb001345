------------------------------- MODULE Bridge -------------------------------
(***************************************************************************)
(* What the audio bridge promises to the call manager, as long as a start  *)
(* begins when the bridge is empty: only a start takes an ffmpeg up; a     *)
(* start that returns its URL leaves one, which is kept for its call until *)
(* the bridge is stopped; a start that fails, is cancelled or is passed by *)
(* a stop leaves none.  AudioBridge implements it, and CallManager assumes *)
(* no more of its bridge, and starts no call before the bridge is empty.   *)
(***************************************************************************)
CONSTANT Calls

VARIABLES
    stage,  \* of the bridge: what is made of its start
    calls,  \* the call it starts for or serves
    ffmpeg  \* whether it refers to an ffmpeg

vars == <<stage, calls, ffmpeg>>

TypeOK ==
    /\ stage \in {"empty", "starting", "serving", "ending"}
    /\ calls \in SUBSET Calls
    /\ ffmpeg \in BOOLEAN

Init == stage = "empty" /\ calls = {} /\ ffmpeg = FALSE

\* start() is called; a prewarmed ffmpeg may be taken up at once.
Begin ==
    /\ stage = "empty"
    /\ stage' = "starting"
    /\ \E c \in Calls : calls' = {c}
    /\ ffmpeg' \in BOOLEAN

TakeUp ==
    /\ stage = "starting"
    /\ ~ffmpeg
    /\ ffmpeg' = TRUE
    /\ UNCHANGED <<stage, calls>>

\* start() returns its URL.
Serve ==
    /\ stage = "starting"
    /\ ffmpeg
    /\ stage' = "serving"
    /\ UNCHANGED <<calls, ffmpeg>>

\* The start fails or is cancelled, or a stop begins.
Abandon ==
    /\ stage # "ending"
    /\ stage' = "ending"
    /\ calls' = {}
    /\ ffmpeg' \in {FALSE, ffmpeg}

Release ==
    /\ stage = "ending"
    /\ ffmpeg' = FALSE
    /\ UNCHANGED <<stage, calls>>

\* No start is in flight, and every stop has swept.
End ==
    /\ stage # "empty"
    /\ stage' = "empty"
    /\ calls' = {}
    /\ ffmpeg' = FALSE

Next == Begin \/ TakeUp \/ Serve \/ Abandon \/ Release \/ End

Spec == Init /\ [][Next]_vars
=============================================================================
