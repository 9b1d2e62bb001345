------------------------------- MODULE Dialog -------------------------------
(***************************************************************************)
(* What the SIP client of a call promises to the call manager: a call is   *)
(* placed once, is answered at most once and only while it rings, and ends *)
(* once; a call whose transport was closed is never answered and can only  *)
(* end.  SipClient implements it, and CallManager assumes no more of each  *)
(* of its calls than this.                                                 *)
(***************************************************************************)
EXTENDS Naturals

VARIABLES
    stage,  \* of the call
    ended   \* number of on_call_terminated callbacks

vars == <<stage, ended>>

Open == {"inviting", "confirmed"}

TypeOK ==
    /\ stage \in {"idle", "closing", "over"} \union Open
    /\ ended = IF stage = "over" THEN 1 ELSE 0

Init == stage = "idle" /\ ended = 0

Place ==
    /\ stage = "idle"
    /\ stage' = "inviting"
    /\ UNCHANGED ended

\* on_call_established is called.
Establish ==
    /\ stage = "inviting"
    /\ stage' = "confirmed"
    /\ UNCHANGED ended

\* The manager closes the transport under the call.
Close ==
    /\ stage \in Open
    /\ stage' = "closing"
    /\ UNCHANGED ended

\* on_call_terminated is called: BYE, CANCEL, a refusal, a lost connection.
End ==
    /\ stage \in Open \union {"closing"}
    /\ stage' = "over"
    /\ ended' = ended + 1

Next == Place \/ Establish \/ Close \/ End

Spec == Init /\ [][Next]_vars
=============================================================================
