----------------------------- MODULE SipClient -----------------------------
(***************************************************************************)
(* IntratoneSipClient (sip_client.py): the SIP user agent of one doorbell  *)
(* call, over one TCP connection, against a SIP server (the SrvXxx actions,*)
(* external to the repository).  The protocol object is driven by          *)
(* callbacks of one event loop, so every handler is one atomic step; what  *)
(* interleaves is the handlers, the server and the two directions of the   *)
(* connection.                                                             *)
(*                                                                         *)
(* A message keeps what the dialog depends on: its method or response      *)
(* class, its CSeq number, and the media its SDP offers.  A Via       *)
(* branch is a random token drawn when an INVITE is built; it is           *)
(* represented by the CSeq number of that INVITE.                          *)
(***************************************************************************)
EXTENDS Naturals, Sequences

CONSTANTS
    InitialCSeq,  \* _INITIAL_CSEQ
    Media,        \* media of the first offer: "video" when a video socket was bound
    MaxRequests,  \* bound: requests sent beyond the first INVITE
    MaxInFlight   \* bound: messages in flight when the server writes one

ASSUME SipAssumption ==
    /\ InitialCSeq \in Nat \ {0}
    /\ Media \in {"audio", "video"}
    /\ MaxRequests \in Nat
    /\ MaxInFlight \in Nat

VARIABLES
    state,       \* _PendingCall.state; "IDLE" before call(), "TERMINATED" when _call is dropped
    cseq,        \* _PendingCall.cseq
    branch,      \* _PendingCall.via_branch, named by the INVITE it was drawn for
    media,       \* "video" while _PendingCall.local_video_rtp_port is not None
    reinvite,    \* _PendingCall.reinvite_in_progress: "idle" or "pending"
    established, \* number of on_call_established callbacks
    ended,       \* number of on_call_terminated callbacks
    transport,   \* "open", "closing" (close() called), "lost" (connection_lost)
    toServer,    \* bytes written and not yet read by the server
    toClient,    \* bytes written by the server and not yet dispatched
    srvLast,     \* highest CSeq among the requests the server has read
    srvInvite,   \* CSeq of the INVITE the server has yet to answer, 0 if none
    srvUnacked,  \* CSeqs of the INVITEs it accepted whose ACK has not arrived
    srvDialog    \* the server's dialog for this call: "none", "up", "over"

call == <<state, cseq, branch, media, reinvite>>
callbacks == <<established, ended>>
srv == <<srvLast, srvInvite, srvUnacked, srvDialog>>
vars == <<call, callbacks, transport, toServer, toClient, srv>>

States == {"IDLE", "INVITING", "AUTHENTICATING", "CONFIRMED", "TERMINATED"}
Early == {"INVITING", "AUTHENTICATING"}
Live == Early \union {"CONFIRMED"}

\* Requests that take a fresh CSeq number; ACK and CANCEL reuse the INVITE's.
Numbered == {"INVITE", "MESSAGE", "BYE"}
ClientMsg == [m : Numbered \union {"ACK", "CANCEL", "200"},
              cseq : Nat, branch : Nat, sdp : {"none", "audio", "video"}]

\* "auth" is 401/407, "fail" any other final response above 299.
Codes == {"1xx", "2xx", "auth", "fail"}
Response == [kind : {"response"}, code : Codes, m : {"INVITE", "MESSAGE"},
             cseq : Nat, body : {"good", "bad"}]
Request == [kind : {"request"}, m : {"BYE", "INVITE", "MESSAGE", "ACK", "OTHER"}]
ServerMsg == Response \union Request

TypeOK ==
    /\ state \in States
    /\ cseq \in Nat
    /\ branch \in Nat
    /\ media \in {"audio", "video"}
    /\ reinvite \in {"idle", "pending"}
    /\ established \in Nat
    /\ ended \in Nat
    /\ transport \in {"open", "closing", "lost"}
    /\ toServer \in Seq(ClientMsg)
    /\ toClient \in Seq(ServerMsg)
    /\ srvLast \in Nat
    /\ srvInvite \in Nat
    /\ srvUnacked \in SUBSET Nat
    /\ srvDialog \in {"none", "up", "over"}

Init ==
    /\ state = "IDLE"
    /\ cseq = InitialCSeq
    /\ branch = InitialCSeq
    /\ media = Media
    /\ reinvite = "idle"
    /\ established = 0
    /\ ended = 0
    /\ transport = "open"
    /\ toServer = << >>
    /\ toClient = << >>
    /\ srvLast = 0
    /\ srvInvite = 0
    /\ srvUnacked = {}
    /\ srvDialog = "none"
-----------------------------------------------------------------------------
(* Messages the client builds.                                             *)

Msg(m, c, b, sdp) == [m |-> m, cseq |-> c, branch |-> b, sdp |-> sdp]

\* The number of the next INVITE, MESSAGE or BYE.  Mutant: a number is reused.
ReusedCSeq == cseq
NextCSeq == cseq + 1

\* _build_ack numbers the ACK with the call's current CSeq, whatever request
\* last took a number.  Mutant: the ACK always has the first INVITE's number.
AckOfFirstInvite == Msg("ACK", InitialCSeq, branch, "none")
Ack == Msg("ACK", cseq, branch, "none")

\* _build_cancel.  Mutant: the CANCEL takes a number of its own.
CancelRenumbered == Msg("CANCEL", NextCSeq, branch, "none")
Cancel == Msg("CANCEL", cseq, branch, "none")

\* The SDP that answers a session refresh.
RefreshSdp == media

\* What is left of local_video_rtp_port and of reinvite_in_progress.
\* Mutant: the answer leaves the flag alone.
DropVideo == "audio"
StillPending == reinvite
AfterAnswer == "idle"

\* _send: a write on a closing transport is discarded.
Send(q, msg) == IF transport = "open" THEN Append(q, msg) ELSE q

\* A call that is not over: _call is None otherwise.  Mutant: the call is kept.
CallEverPlaced == state # "IDLE"
HasCall == state \in Live

\* _terminate: drop the call, tell the manager, close the connection.
Terminate ==
    /\ state' = "TERMINATED"
    /\ ended' = ended + 1
    /\ transport' = IF transport = "open" THEN "closing" ELSE transport
-----------------------------------------------------------------------------
(* The operations CallManager calls.                                       *)

Call ==
    /\ state = "IDLE"
    /\ transport = "open"
    /\ state' = "INVITING"
    /\ toServer' = Send(toServer, Msg("INVITE", cseq, branch, media))
    /\ UNCHANGED <<cseq, branch, media, reinvite, callbacks, transport, toClient, srv>>

\* opendoor:<code>, MUTE_OFF and contrast: all ride _send_in_dialog_message.
SendInDialogMessage ==
    /\ state = "CONFIRMED"
    /\ cseq < InitialCSeq + MaxRequests
    /\ cseq' = NextCSeq
    /\ toServer' = Send(toServer, Msg("MESSAGE", cseq', branch, "none"))
    /\ UNCHANGED <<state, branch, media, reinvite, callbacks, transport, toClient, srv>>

SendReinviteAudioOnly ==
    /\ state = "CONFIRMED"
    /\ media = "video"
    /\ reinvite = "idle"
    /\ cseq < InitialCSeq + MaxRequests
    /\ media' = DropVideo
    /\ reinvite' = "pending"
    /\ cseq' = NextCSeq
    /\ branch' = cseq'
    /\ toServer' = Send(toServer, Msg("INVITE", cseq', branch', media'))
    /\ UNCHANGED <<state, callbacks, transport, toClient, srv>>

HangUpConfirmed ==
    /\ state = "CONFIRMED"
    /\ cseq' = NextCSeq
    /\ toServer' = Send(toServer, Msg("BYE", cseq', cseq', "none"))
    /\ Terminate
    /\ UNCHANGED <<branch, media, reinvite, established, toClient, srv>>

HangUpEarly ==
    /\ state \in Early
    /\ toServer' = Send(toServer, Cancel)
    /\ Terminate
    /\ UNCHANGED <<cseq, branch, media, reinvite, established, toClient, srv>>

\* CallManager.async_stop closes the transport under a live call, without BYE.
CloseTransport ==
    /\ transport = "open"
    /\ transport' = "closing"
    /\ UNCHANGED <<call, callbacks, toServer, toClient, srv>>

\* connection_lost: after our own close() once the write buffer is flushed, or
\* because the peer or the network dropped the connection.
ConnectionLost ==
    /\ transport # "lost"
    /\ transport' = "lost"
    /\ toClient' = << >>
    /\ toServer' = IF transport = "closing" THEN toServer ELSE << >>
    /\ IF HasCall
         THEN state' = "TERMINATED" /\ ended' = ended + 1
         ELSE UNCHANGED <<state, ended>>
    /\ UNCHANGED <<cseq, branch, media, reinvite, established, srv>>
-----------------------------------------------------------------------------
(* data_received and _dispatch: one buffered message at a time.  A closing *)
(* transport delivers no more data, and a terminated call ignores it.      *)

Incoming == Head(toClient)

Receive ==
    /\ HasCall
    /\ transport = "open"
    /\ toClient # << >>
    /\ toClient' = Tail(toClient)
    /\ UNCHANGED srv

IsResponse(codes) == Incoming.kind = "response" /\ Incoming.code \in codes
IsRequest(methods) == Incoming.kind = "request" /\ Incoming.m \in methods
IsChallenge == IsResponse({"auth"}) /\ state = "INVITING"

\* A provisional response, the answer to a MESSAGE, an in-dialog ACK or an
\* unknown request: nothing but a log line.
RecvIgnored ==
    /\ Receive
    /\ \/ IsResponse({"1xx"})
       \/ IsResponse({"2xx"}) /\ state = "CONFIRMED" /\ Incoming.m # "INVITE"
       \/ IsResponse({"auth", "fail"}) /\ ~IsChallenge /\ Incoming.m # "INVITE"
       \/ IsRequest({"ACK", "OTHER"})
    /\ UNCHANGED <<call, callbacks, transport, toServer>>

\* 401/407 to the first INVITE: ACK it, then INVITE again with credentials,
\* unless the challenge is missing or unusable.
RecvChallenge ==
    /\ Receive
    /\ IsChallenge
    /\ Incoming.body = "good"
    /\ state' = "AUTHENTICATING"
    /\ cseq' = NextCSeq
    /\ branch' = cseq'
    /\ toServer' = Send(Send(toServer, Ack), Msg("INVITE", cseq', branch', media))
    /\ UNCHANGED <<media, reinvite, callbacks, transport>>

RecvBadChallenge ==
    /\ Receive
    /\ IsChallenge
    /\ Incoming.body = "bad"
    /\ toServer' = Send(toServer, Ack)
    /\ Terminate
    /\ UNCHANGED <<cseq, branch, media, reinvite, established>>

\* _handle_ok: the answer is acknowledged before its SDP is parsed; a bad SDP
\* ends the call without a BYE.
RecvOk ==
    /\ Receive
    /\ IsResponse({"2xx"})
    /\ state \in Early
    /\ Incoming.body = "good"
    /\ toServer' = Send(toServer, Ack)
    /\ state' = "CONFIRMED"
    /\ established' = established + 1
    /\ UNCHANGED <<cseq, branch, media, reinvite, ended, transport>>

RecvOkBadSdp ==
    /\ Receive
    /\ IsResponse({"2xx"})
    /\ state \in Early
    /\ Incoming.body = "bad"
    /\ toServer' = Send(toServer, Ack)
    /\ Terminate
    /\ UNCHANGED <<cseq, branch, media, reinvite, established>>

\* A 2xx to an INVITE in an established dialog: a retransmission, or the
\* answer to our re-INVITE.  The code cannot tell them apart.
RecvOkAgain ==
    /\ Receive
    /\ IsResponse({"2xx"})
    /\ state = "CONFIRMED"
    /\ Incoming.m = "INVITE"
    /\ reinvite' = AfterAnswer
    /\ toServer' = Send(toServer, Ack)
    /\ UNCHANGED <<state, cseq, branch, media, callbacks, transport>>

IsRefusal == IsResponse({"auth", "fail"}) /\ ~IsChallenge /\ Incoming.m = "INVITE"

\* The server refused our re-INVITE: ACK it and keep the call.
RecvReinviteRefused ==
    /\ Receive
    /\ IsRefusal
    /\ state = "CONFIRMED"
    /\ reinvite = "pending"
    /\ reinvite' = AfterAnswer
    /\ toServer' = Send(toServer, Ack)
    /\ UNCHANGED <<state, cseq, branch, media, callbacks, transport>>

RecvFinalFailure ==
    /\ Receive
    /\ IsRefusal
    /\ ~(state = "CONFIRMED" /\ reinvite = "pending")
    /\ toServer' = Send(toServer, Ack)
    /\ Terminate
    /\ UNCHANGED <<cseq, branch, media, reinvite, established>>

RecvBye ==
    /\ Receive
    /\ IsRequest({"BYE"})
    /\ toServer' = Send(toServer, Msg("200", 0, 0, "none"))
    /\ Terminate
    /\ UNCHANGED <<cseq, branch, media, reinvite, established>>

\* A session-timer re-INVITE is answered with the call's current SDP, a server
\* MESSAGE with a bare 200.
RecvRefreshOrMessage ==
    /\ Receive
    /\ IsRequest({"INVITE", "MESSAGE"})
    /\ toServer' = Send(toServer, Msg("200", 0, 0, IF Incoming.m = "INVITE" THEN RefreshSdp ELSE "none"))
    /\ UNCHANGED <<call, callbacks, transport>>
-----------------------------------------------------------------------------
(* The server: external, as the client's handlers expect it.  It reads in  *)
(* order, may answer late, repeats a 2xx until its ACK arrives, refreshes  *)
(* the session, and ends the dialog when it likes.                         *)

Answer(code, m, c, body) ==
    [kind |-> "response", code |-> code, m |-> m, cseq |-> c, body |-> body]

SrvSend(msg) ==
    /\ transport # "lost"
    /\ Len(toServer) + Len(toClient) < MaxInFlight
    /\ toClient' = Append(toClient, msg)
    /\ UNCHANGED <<call, callbacks, transport, toServer>>

Outgoing == Head(toServer)

SrvRead(methods) ==
    /\ toServer # << >>
    /\ Outgoing.m \in methods
    /\ toServer' = Tail(toServer)
    /\ srvLast' = IF Outgoing.m \in Numbered THEN Outgoing.cseq ELSE srvLast
    /\ UNCHANGED <<call, callbacks, transport>>

SrvReadInvite ==
    /\ SrvRead({"INVITE"})
    /\ srvInvite' = Outgoing.cseq
    /\ UNCHANGED <<toClient, srvUnacked, srvDialog>>

SrvReadAck ==
    /\ SrvRead({"ACK"})
    /\ srvUnacked' = srvUnacked \ {Outgoing.cseq}
    /\ UNCHANGED <<toClient, srvInvite, srvDialog>>

SrvReadMessage ==
    /\ SrvRead({"MESSAGE"})
    /\ \E code \in {"2xx", "fail"} :
        toClient' = IF transport = "lost" THEN toClient
                    ELSE Append(toClient, Answer(code, "MESSAGE", Outgoing.cseq, "good"))
    /\ UNCHANGED <<srvInvite, srvUnacked, srvDialog>>

\* A CANCEL has no effect once the INVITE is answered.
SrvReadCancel ==
    /\ SrvRead({"CANCEL"})
    /\ srvInvite' = 0
    /\ UNCHANGED <<toClient, srvUnacked, srvDialog>>

SrvReadBye ==
    /\ SrvRead({"BYE"})
    /\ srvInvite' = 0
    /\ srvUnacked' = {}
    /\ srvDialog' = "over"
    /\ UNCHANGED toClient

SrvReadReply ==
    /\ SrvRead({"200"})
    /\ UNCHANGED <<toClient, srvInvite, srvUnacked, srvDialog>>

SrvProvisional ==
    /\ srvInvite # 0
    /\ SrvSend(Answer("1xx", "INVITE", srvInvite, "good"))
    /\ UNCHANGED srv

SrvAccept ==
    /\ srvInvite # 0
    /\ \E body \in {"good", "bad"} : SrvSend(Answer("2xx", "INVITE", srvInvite, body))
    /\ srvUnacked' = srvUnacked \union {srvInvite}
    /\ srvInvite' = 0
    /\ srvDialog' = "up"
    /\ UNCHANGED srvLast

SrvRefuse ==
    /\ srvInvite # 0
    /\ \/ SrvSend(Answer("fail", "INVITE", srvInvite, "good"))
       \/ \E body \in {"good", "bad"} : SrvSend(Answer("auth", "INVITE", srvInvite, body))
    /\ srvInvite' = 0
    /\ UNCHANGED <<srvLast, srvUnacked, srvDialog>>

SrvRetransmit ==
    /\ \E c \in srvUnacked : SrvSend(Answer("2xx", "INVITE", c, "good"))
    /\ UNCHANGED srv

SrvRequest ==
    /\ srvDialog = "up"
    /\ \E m \in {"BYE", "INVITE", "MESSAGE", "ACK", "OTHER"} :
        /\ SrvSend([kind |-> "request", m |-> m])
        /\ srvDialog' = IF m = "BYE" THEN "over" ELSE "up"
    /\ UNCHANGED <<srvLast, srvInvite, srvUnacked>>
-----------------------------------------------------------------------------
Manager ==
    Call \/ SendInDialogMessage \/ SendReinviteAudioOnly
      \/ HangUpConfirmed \/ HangUpEarly \/ CloseTransport

Dispatch ==
    RecvIgnored \/ RecvChallenge \/ RecvBadChallenge \/ RecvOk \/ RecvOkBadSdp
      \/ RecvOkAgain \/ RecvReinviteRefused \/ RecvFinalFailure \/ RecvBye \/ RecvRefreshOrMessage

SrvReads ==
    SrvReadInvite \/ SrvReadAck \/ SrvReadMessage
      \/ SrvReadCancel \/ SrvReadBye \/ SrvReadReply

SrvWrites ==
    SrvProvisional \/ SrvAccept \/ SrvRefuse \/ SrvRetransmit \/ SrvRequest

Next == Manager \/ ConnectionLost \/ Dispatch \/ SrvReads \/ SrvWrites

Spec == Init /\ [][Next]_vars

\* The event loop keeps dispatching buffered data and completes a close() it
\* was asked for; a TCP peer that is still there keeps reading.
Fairness ==
    /\ WF_vars(Dispatch)
    /\ WF_vars(SrvReads)
    /\ WF_vars(transport = "closing" /\ ConnectionLost)

FairSpec == Spec /\ Fairness
-----------------------------------------------------------------------------
(* Properties.                                                             *)

\* Positions of the messages of a kind on the wire to the server.
Wire(methods) == {i \in DOMAIN toServer : toServer[i].m \in methods}

\* The server sees strictly increasing CSeq numbers on the INVITE, MESSAGE and
\* BYE requests of the call, whatever handlers interleave: an out-of-order
\* number would make it drop the door command (RFC 3261 12.2.2).
CSeqIncreasing ==
    /\ \A i, j \in Wire(Numbered) : i < j => toServer[i].cseq < toServer[j].cseq
    /\ \A i \in Wire(Numbered) : srvLast < toServer[i].cseq /\ toServer[i].cseq <= cseq

\* hang_up of a ringing call cancels exactly the INVITE that is outstanding:
\* the CANCEL carries the CSeq and the branch of the last INVITE, also when a
\* challenge replaced the first one.
CancelNamesInvite ==
    \A i \in Wire({"CANCEL"}) :
        /\ toServer[i].cseq = toServer[i].branch
        /\ toServer[i].branch = branch
        /\ \A j \in Wire({"INVITE"}) : j < i /\ toServer[j].cseq <= toServer[i].cseq

\* Nothing follows the BYE or the CANCEL of the client: no door command, ACK
\* or re-INVITE is written after the call is given up.
GoodbyeIsLast ==
    \A i \in Wire({"BYE", "CANCEL"}) : i = Len(toServer) /\ state = "TERMINATED"

\* The manager hears on_call_established at most once and only from a live
\* call, and on_call_terminated exactly once, although BYE, refusals, hang_up
\* and connection_lost all end the call.
CallbacksPaired ==
    /\ established <= 1
    /\ state \in Early \union {"IDLE"} => established = 0
    /\ state = "CONFIRMED" => established = 1
    /\ ended = IF state = "TERMINATED" THEN 1 ELSE 0

\* The call as the manager knows it, by the callbacks it has heard.
Stage ==
    IF state \in {"IDLE", "TERMINATED"} THEN IF state = "IDLE" THEN "idle" ELSE "over"
    ELSE IF transport # "open" THEN "closing"
    ELSE IF established > 0 THEN "confirmed" ELSE "inviting"

Promise == INSTANCE Dialog WITH stage <- Stage

\* The user agent implements the dialog that CallManager relies on: BYE,
\* CANCEL, refusals, bad answers and lost connections, in any order with its
\* own requests, end a call once, and no answer reaches one that was closed.
ImplementsDialog == Promise!Spec

\* reinvite_in_progress never sticks: while it is set, our re-INVITE is still
\* on its way, unanswered, or its answer is on its way back.
ReinviteAnswered ==
    reinvite = "pending" /\ state = "CONFIRMED" /\ transport = "open" =>
        \/ \E i \in Wire({"INVITE"}) : toServer[i].cseq = branch
        \/ srvInvite = branch
        \/ \E i \in DOMAIN toClient :
            /\ toClient[i].kind = "response"
            /\ toClient[i].code # "1xx"
            /\ toClient[i].m = "INVITE"
            /\ toClient[i].cseq = branch

\* The INVITE that places the call, the first one or the one that answers a
\* challenge, is acknowledged once accepted, as long as the connection lasts.
AnswerAcked ==
    \A c \in InitialCSeq .. InitialCSeq + 1 + MaxRequests :
        (c \in srvUnacked /\ established = 0) ~> (c \notin srvUnacked \/ transport # "open")

\* A challenge or a refusal is taken in: the first it writes is the ACK.
Refused == RecvChallenge \/ RecvBadChallenge \/ RecvReinviteRefused \/ RecvFinalFailure
AckOfRefusal == toServer'[Len(toServer) + 1]

\* The ACK of a refused INVITE belongs to the transaction of that INVITE
\* (_build_ack, for a response that is not 2xx): it has its number and branch.
RefusalAckNamesInvite ==
    [][Refused => AckOfRefusal.cseq = Incoming.cseq /\ AckOfRefusal.branch = Incoming.cseq]_vars

\* A refused re-INVITE leaves the established call as it was
\* (send_reinvite_audio_only, _handle_response).
RefusalKeepsCall ==
    [][Refused /\ state = "CONFIRMED" => state' = "CONFIRMED"]_vars
=============================================================================
