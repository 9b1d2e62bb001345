-------------------------- MODULE SipClient_proofs --------------------------
(***************************************************************************)
(* Theorems about one SIP call for every InitialCSeq and every bound: the  *)
(* CSeq numbers the server reads, the messages that end a call, the        *)
(* answers to its INVITEs, and the callbacks the manager gets.             *)
(***************************************************************************)
EXTENDS SipClient, TLAPS

USE DEF NextCSeq, Cancel, RefreshSdp, DropVideo, AfterAnswer, HasCall

(***************************************************************************)
(* Sequences of client messages whose Numbered requests have increasing    *)
(* CSeq numbers in the interval (lo, hi].                                  *)
(***************************************************************************)
Ordered(q, lo, hi) ==
    /\ \A i, j \in 1..Len(q) :
        i < j /\ q[i].m \in Numbered /\ q[j].m \in Numbered => q[i].cseq < q[j].cseq
    /\ \A i \in 1..Len(q) : q[i].m \in Numbered => lo < q[i].cseq /\ q[i].cseq <= hi

\* CSeqIncreasing says exactly that the wire to the server is Ordered.
LEMMA CSeqIncreasingIsOrdered ==
    TypeOK => (CSeqIncreasing <=> Ordered(toServer, srvLast, cseq))
<1> SUFFICES ASSUME TypeOK PROVE CSeqIncreasing <=> Ordered(toServer, srvLast, cseq)
  OBVIOUS
<1>1. \A i : i \in Wire(Numbered) <=> i \in 1..Len(toServer) /\ toServer[i].m \in Numbered
  BY DEF Wire, TypeOK
<1>2. (\A i, j \in Wire(Numbered) : i < j => toServer[i].cseq < toServer[j].cseq)
      <=> \A i, j \in 1..Len(toServer) :
            i < j /\ toServer[i].m \in Numbered /\ toServer[j].m \in Numbered
              => toServer[i].cseq < toServer[j].cseq
  BY <1>1
<1>3. (\A i \in Wire(Numbered) : srvLast < toServer[i].cseq /\ toServer[i].cseq <= cseq)
      <=> \A i \in 1..Len(toServer) :
            toServer[i].m \in Numbered => srvLast < toServer[i].cseq /\ toServer[i].cseq <= cseq
  BY <1>1
<1> QED
  BY <1>2, <1>3 DEF CSeqIncreasing, Ordered

\* The messages of a typed sequence have natural CSeq numbers.
LEMMA CSeqType ==
    ASSUME NEW q \in Seq(ClientMsg)
    PROVE  \A i \in 1..Len(q) : q[i] \in ClientMsg /\ q[i].cseq \in Nat
<1>1. \A i \in 1..Len(q) : q[i] \in ClientMsg
  OBVIOUS
<1>2. \A msg \in ClientMsg : msg.cseq \in Nat
  BY DEF ClientMsg
<1> QED
  BY <1>1, <1>2

\* Raising the upper bound keeps a sequence Ordered.
LEMMA OrderedWiden ==
    ASSUME NEW q \in Seq(ClientMsg), NEW lo \in Nat, NEW hi \in Nat, Ordered(q, lo, hi)
    PROVE  Ordered(q, lo, hi + 1)
  BY CSeqType DEF Ordered

\* A request that takes the next number keeps the wire Ordered.
LEMMA OrderedAppendNumbered ==
    ASSUME NEW q \in Seq(ClientMsg), NEW lo \in Nat, NEW hi \in Nat, NEW msg \in ClientMsg,
           Ordered(q, lo, hi), lo <= hi, msg.cseq = hi + 1
    PROVE  Ordered(Append(q, msg), lo, hi + 1)
<1> DEFINE r == Append(q, msg)
<1>1. /\ Len(r) = Len(q) + 1
      /\ r[Len(q) + 1] = msg
      /\ \A i \in 1..Len(q) : r[i] = q[i] /\ q[i].cseq \in Nat
      /\ Len(q) \in Nat
  BY CSeqType
<1> QED
  BY <1>1 DEF Ordered

\* So does a message that is not numbered: ACK, CANCEL, 200.
LEMMA OrderedAppendOther ==
    ASSUME NEW q \in Seq(ClientMsg), NEW lo \in Nat, NEW hi \in Nat, NEW msg \in ClientMsg,
           Ordered(q, lo, hi), msg.m \notin Numbered
    PROVE  Ordered(Append(q, msg), lo, hi)
<1> DEFINE r == Append(q, msg)
<1>1. /\ Len(r) = Len(q) + 1
      /\ r[Len(q) + 1] = msg
      /\ \A i \in 1..Len(q) : r[i] = q[i] /\ q[i].cseq \in Nat
      /\ Len(q) \in Nat
  BY CSeqType
<1> QED
  BY <1>1 DEF Ordered

\* The server reads the head; what is left is above the number it has read.
LEMMA OrderedTail ==
    ASSUME NEW q \in Seq(ClientMsg), NEW lo \in Nat, NEW hi \in Nat,
           q # << >>, Ordered(q, lo, hi),
           NEW last, last = IF Head(q).m \in Numbered THEN Head(q).cseq ELSE lo
    PROVE  Ordered(Tail(q), last, hi)
<1>1. /\ Len(q) \in Nat \ {0}
      /\ Len(Tail(q)) = Len(q) - 1
      /\ \A i \in 1..Len(Tail(q)) : Tail(q)[i] = q[i + 1] /\ i + 1 \in 1..Len(q)
      /\ Head(q) = q[1] /\ 1 \in 1..Len(q)
      /\ \A i \in 1..Len(q) : q[i].cseq \in Nat
  BY CSeqType
<1> QED
  BY <1>1 DEF Ordered
-----------------------------------------------------------------------------
\* Init establishes the type invariant.
LEMMA InitTypeOK == Init => TypeOK
  BY SipAssumption DEF Init, TypeOK, States

\* A message of the client keeps the wire well typed.
LEMMA SendType ==
    ASSUME NEW q \in Seq(ClientMsg), NEW msg \in ClientMsg
    PROVE  Send(q, msg) \in Seq(ClientMsg)
  BY DEF Send

\* Every message the client builds is a ClientMsg.
LEMMA MsgType ==
    ASSUME NEW m \in Numbered \union {"ACK", "CANCEL", "200"},
           NEW c \in Nat, NEW b \in Nat, NEW sdp \in {"none", "audio", "video"}
    PROVE  Msg(m, c, b, sdp) \in ClientMsg
  BY DEF Msg, ClientMsg

\* TypeOK is inductive.
LEMMA NextTypeOK == TypeOK /\ [Next]_vars => TypeOK'
<1> SUFFICES ASSUME TypeOK, [Next]_vars PROVE TypeOK'
  OBVIOUS
<1> USE DEF States, Early, Live
<1>ack. Ack \in ClientMsg /\ Send(toServer, Ack) \in Seq(ClientMsg)
  BY MsgType, SendType DEF Ack, TypeOK, Numbered
<1>1. CASE Call
  BY <1>1, MsgType, SendType DEF Call, TypeOK, callbacks, srv, Numbered
<1>2. CASE SendInDialogMessage
  BY <1>2, MsgType, SendType DEF SendInDialogMessage, TypeOK, callbacks, srv, Numbered
<1>3. CASE SendReinviteAudioOnly
  BY <1>3, MsgType, SendType DEF SendReinviteAudioOnly, TypeOK, callbacks, srv, Numbered
<1>4. CASE HangUpConfirmed
  BY <1>4, MsgType, SendType DEF HangUpConfirmed, Terminate, TypeOK, srv, Numbered
<1>5. CASE HangUpEarly
  BY <1>5, MsgType, SendType DEF HangUpEarly, Terminate, TypeOK, srv, Numbered
<1>6. CASE CloseTransport
  BY <1>6 DEF CloseTransport, TypeOK, call, callbacks, srv
<1>7. CASE ConnectionLost
  BY <1>7 DEF ConnectionLost, TypeOK, srv
<1>8. CASE Dispatch
  <2>1. ASSUME Receive
        PROVE  /\ toClient' \in Seq(ServerMsg)
               /\ srvLast' \in Nat
               /\ srvInvite' \in Nat
               /\ srvUnacked' \in SUBSET Nat
               /\ srvDialog' \in {"none", "up", "over"}
    BY <2>1 DEF Receive, TypeOK, srv
  <2>2. CASE RecvIgnored
    BY <2>1, <2>2 DEF RecvIgnored, TypeOK, call, callbacks
  <2>3. CASE RecvChallenge
    <3>1. Msg("INVITE", cseq', branch', media) \in ClientMsg /\ cseq' \in Nat /\ branch' \in Nat
      BY <2>3, MsgType DEF RecvChallenge, TypeOK, Numbered
    <3>2. toServer' \in Seq(ClientMsg)
      BY <2>3, <3>1, <1>ack, SendType DEF RecvChallenge
    <3> QED
      BY <2>1, <2>3, <3>1, <3>2 DEF RecvChallenge, TypeOK, callbacks
  <2>4. CASE RecvBadChallenge
    BY <2>1, <2>4, <1>ack DEF RecvBadChallenge, Terminate, TypeOK
  <2>5. CASE RecvOk
    BY <2>1, <2>5, <1>ack DEF RecvOk, TypeOK
  <2>6. CASE RecvOkBadSdp
    BY <2>1, <2>6, <1>ack DEF RecvOkBadSdp, Terminate, TypeOK
  <2>7. CASE RecvOkAgain
    BY <2>1, <2>7, <1>ack DEF RecvOkAgain, TypeOK, callbacks
  <2>8. CASE RecvReinviteRefused
    BY <2>1, <2>8, <1>ack DEF RecvReinviteRefused, TypeOK, callbacks
  <2>9. CASE RecvFinalFailure
    BY <2>1, <2>9, <1>ack DEF RecvFinalFailure, Terminate, TypeOK
  <2>10. CASE RecvBye
    <3>1. toServer' \in Seq(ClientMsg)
      BY <2>10, MsgType, SendType DEF RecvBye, TypeOK
    <3> QED
      BY <2>1, <2>10, <3>1 DEF RecvBye, Terminate, TypeOK
  <2>11. CASE RecvRefreshOrMessage
    <3>1. (IF Incoming.m = "INVITE" THEN media ELSE "none") \in {"none", "audio", "video"}
      BY DEF TypeOK
    <3>2. toServer' \in Seq(ClientMsg)
      BY <2>11, <3>1, MsgType, SendType DEF RecvRefreshOrMessage, TypeOK
    <3> QED
      BY <2>1, <2>11, <3>2 DEF RecvRefreshOrMessage, TypeOK, call, callbacks
  <2> QED
    BY <1>8, <2>2, <2>3, <2>4, <2>5, <2>6, <2>7, <2>8, <2>9, <2>10, <2>11 DEF Dispatch
<1>9. CASE SrvReads
  <2>0. ASSUME NEW S, SrvRead(S)
        PROVE  /\ toServer' \in Seq(ClientMsg)
               /\ srvLast' \in Nat
               /\ Outgoing \in ClientMsg
               /\ Outgoing.m \in S
               /\ UNCHANGED <<call, callbacks, transport>>
    <3>1. toServer # << >> /\ Outgoing.m \in S /\ toServer' = Tail(toServer)
      BY <2>0 DEF SrvRead
    <3>2. Outgoing \in ClientMsg /\ toServer' \in Seq(ClientMsg)
      BY <3>1 DEF Outgoing, TypeOK
    <3>3. Outgoing.cseq \in Nat
      BY <3>2 DEF ClientMsg
    <3>4. srvLast' \in Nat
      BY <2>0, <3>3 DEF SrvRead, TypeOK
    <3> QED
      BY <2>0, <3>1, <3>2, <3>4 DEF SrvRead
  <2>1. CASE SrvReadInvite
    BY <2>0, <2>1 DEF SrvReadInvite, TypeOK, ClientMsg, call, callbacks
  <2>2. CASE SrvReadAck
    BY <2>0, <2>2 DEF SrvReadAck, TypeOK, call, callbacks
  <2>3. CASE SrvReadMessage
    <3>1. PICK code \in {"2xx", "fail"} :
            toClient' = IF transport = "lost" THEN toClient
                        ELSE Append(toClient, Answer(code, "MESSAGE", Outgoing.cseq, "good"))
      BY <2>3 DEF SrvReadMessage
    <3>2. Answer(code, "MESSAGE", Outgoing.cseq, "good") \in ServerMsg
      BY <2>0, <2>3 DEF SrvReadMessage, Answer, ServerMsg, Response, Codes, ClientMsg
    <3>3. toClient' \in Seq(ServerMsg)
      BY <3>1, <3>2 DEF TypeOK
    <3> QED
      BY <2>0, <2>3, <3>3 DEF SrvReadMessage, TypeOK, call, callbacks
  <2>4. CASE SrvReadCancel
    BY <2>0, <2>4 DEF SrvReadCancel, TypeOK, call, callbacks
  <2>5. CASE SrvReadBye
    BY <2>0, <2>5 DEF SrvReadBye, TypeOK, call, callbacks
  <2>6. CASE SrvReadReply
    BY <2>0, <2>6 DEF SrvReadReply, TypeOK, call, callbacks
  <2> QED
    BY <1>9, <2>1, <2>2, <2>3, <2>4, <2>5, <2>6 DEF SrvReads
<1>10. CASE SrvWrites
  <2>0. ASSUME NEW msg \in ServerMsg, SrvSend(msg)
        PROVE  /\ toClient' \in Seq(ServerMsg)
               /\ UNCHANGED <<call, callbacks, transport, toServer>>
    BY <2>0 DEF SrvSend, TypeOK
  <2>a. ASSUME NEW code \in Codes, NEW c \in Nat, NEW body \in {"good", "bad"}
        PROVE  Answer(code, "INVITE", c, body) \in ServerMsg
    BY <2>a DEF Answer, ServerMsg, Response
  <2>1. CASE SrvProvisional
    BY <2>0, <2>a, <2>1 DEF SrvProvisional, TypeOK, Codes, call, callbacks, srv
  <2>2. CASE SrvAccept
    BY <2>0, <2>a, <2>2 DEF SrvAccept, TypeOK, Codes, call, callbacks
  <2>3. CASE SrvRefuse
    BY <2>0, <2>a, <2>3 DEF SrvRefuse, TypeOK, Codes, call, callbacks
  <2>4. CASE SrvRetransmit
    BY <2>0, <2>a, <2>4 DEF SrvRetransmit, TypeOK, Codes, call, callbacks, srv
  <2>5. CASE SrvRequest
    <3>1. PICK m \in {"BYE", "INVITE", "MESSAGE", "ACK", "OTHER"} :
            SrvSend([kind |-> "request", m |-> m]) /\ srvDialog' = IF m = "BYE" THEN "over" ELSE "up"
      BY <2>5 DEF SrvRequest
    <3>2. [kind |-> "request", m |-> m] \in ServerMsg
      BY DEF ServerMsg, Request
    <3> QED
      BY <2>0, <2>5, <3>1, <3>2 DEF SrvRequest, TypeOK, call, callbacks
  <2> QED
    BY <1>10, <2>1, <2>2, <2>3, <2>4, <2>5 DEF SrvWrites
<1>11. CASE UNCHANGED vars
  BY <1>11 DEF vars, call, callbacks, srv, TypeOK
<1> QED
  BY <1>1, <1>2, <1>3, <1>4, <1>5, <1>6, <1>7, <1>8, <1>9, <1>10, <1>11 DEF Next, Manager

\* The variables of a call keep their types in every reachable state.
THEOREM TypeCorrect == Spec => []TypeOK
  BY InitTypeOK, NextTypeOK, PTL DEF Spec
-----------------------------------------------------------------------------
(***************************************************************************)
(* CSeq numbers.  Inductive: nothing is on the wire before call(), which   *)
(* sends its INVITE with the initial number without raising it.            *)
(***************************************************************************)
CSeqInv ==
    /\ TypeOK
    /\ Ordered(toServer, srvLast, cseq)
    /\ srvLast <= cseq
    /\ state = "IDLE" => toServer = << >> /\ srvLast < cseq

\* A new call has an empty wire, hence an Ordered one.
LEMMA InitCSeqInv == Init => CSeqInv
<1> SUFFICES ASSUME Init PROVE CSeqInv
  OBVIOUS
<1>1. TypeOK
  BY InitTypeOK
<1>2. Ordered(toServer, srvLast, cseq)
  BY DEF Init, Ordered
<1> QED
  BY <1>1, <1>2, SipAssumption DEF Init, CSeqInv

\* Sending under the current bound: by _send, or dropped on a closing transport.
LEMMA SendOther ==
    ASSUME NEW q \in Seq(ClientMsg), NEW lo \in Nat, NEW hi \in Nat, NEW msg \in ClientMsg,
           Ordered(q, lo, hi), msg.m \notin Numbered
    PROVE  Ordered(Send(q, msg), lo, hi)
  BY OrderedAppendOther DEF Send

\* Sending a request with the next number keeps the wire Ordered, on an
\* open transport or a closed one.
LEMMA SendNumbered ==
    ASSUME NEW q \in Seq(ClientMsg), NEW lo \in Nat, NEW hi \in Nat, NEW msg \in ClientMsg,
           Ordered(q, lo, hi), lo <= hi, msg.cseq = hi + 1
    PROVE  Ordered(Send(q, msg), lo, hi + 1)
  BY OrderedAppendNumbered, OrderedWiden DEF Send

\* CSeqInv is inductive.
LEMMA NextCSeqInv == CSeqInv /\ [Next]_vars => CSeqInv'
<1> SUFFICES ASSUME CSeqInv, [Next]_vars PROVE CSeqInv'
  OBVIOUS
<1>t. TypeOK /\ TypeOK'
  BY NextTypeOK DEF CSeqInv
<1>n. /\ toServer \in Seq(ClientMsg) /\ srvLast \in Nat /\ cseq \in Nat
      /\ Ordered(toServer, srvLast, cseq) /\ srvLast <= cseq
      /\ cseq' \in Nat /\ branch \in Nat /\ branch' \in Nat
      /\ media \in {"none", "audio", "video"}
  BY <1>t DEF CSeqInv, TypeOK
<1> DEFINE Kept == cseq' = cseq /\ srvLast' = srvLast
           Raised == cseq' = cseq + 1 /\ srvLast' = srvLast
\* A step that writes no numbered request, or one that takes the next number.
<1>a. ASSUME NEW msg \in ClientMsg, msg.m \notin Numbered, Kept, state' # "IDLE",
             toServer' = Send(toServer, msg)
      PROVE  CSeqInv'
  BY <1>a, <1>t, <1>n, SendOther DEF CSeqInv
<1>b. ASSUME NEW msg \in ClientMsg, msg.cseq = cseq + 1, Raised, state' # "IDLE",
             toServer' = Send(toServer, msg)
      PROVE  CSeqInv'
  BY <1>b, <1>t, <1>n, SendNumbered DEF CSeqInv
<1>c. ASSUME Kept, toServer' = toServer, state' # "IDLE" \/ state' = state
      PROVE  CSeqInv'
  BY <1>c, <1>t, <1>n DEF CSeqInv
<1>ack. Ack \in ClientMsg /\ Ack.m = "ACK" /\ Ack.m \notin Numbered
  BY <1>n, MsgType DEF Ack, Msg, Numbered
<1> USE DEF Early, Live
<1>1. CASE Call
  <2> DEFINE msg == Msg("INVITE", cseq, branch, media)
  <2>1. msg \in ClientMsg /\ msg.cseq = cseq
    BY <1>n, MsgType DEF Msg, Numbered
  <2>2. toServer' = Append(<< >>, msg) /\ srvLast < cseq /\ Kept
    BY <1>1 DEF Call, Send, CSeqInv, srv
  <2>3. Ordered(toServer', srvLast', cseq')
    BY <2>1, <2>2, <1>n DEF Ordered
  <2> QED
    BY <1>1, <2>2, <2>3, <1>t, <1>n DEF Call, CSeqInv
<1>2. CASE SendInDialogMessage
  <2> DEFINE msg == Msg("MESSAGE", cseq', branch, "none")
  <2>1. msg \in ClientMsg /\ msg.cseq = cseq'
    BY <1>n, MsgType DEF Msg, Numbered
  <2> QED
    BY <1>2, <2>1, <1>b DEF SendInDialogMessage, srv
<1>3. CASE SendReinviteAudioOnly
  <2> DEFINE msg == Msg("INVITE", cseq', branch', "audio")
  <2>1. msg \in ClientMsg /\ msg.cseq = cseq'
    BY <1>n, MsgType DEF Msg, Numbered
  <2> QED
    BY <1>3, <2>1, <1>b DEF SendReinviteAudioOnly, srv
<1>4. CASE HangUpConfirmed
  <2> DEFINE msg == Msg("BYE", cseq', cseq', "none")
  <2>1. msg \in ClientMsg /\ msg.cseq = cseq'
    BY <1>n, MsgType DEF Msg, Numbered
  <2> QED
    BY <1>4, <2>1, <1>b DEF HangUpConfirmed, Terminate, srv
<1>5. CASE HangUpEarly
  <2> DEFINE msg == Msg("CANCEL", cseq, branch, "none")
  <2>1. msg \in ClientMsg /\ msg.m \notin Numbered
    BY <1>n, MsgType DEF Msg, Numbered
  <2> QED
    BY <1>5, <2>1, <1>a DEF HangUpEarly, Terminate, srv
<1>6. CASE CloseTransport
  BY <1>6, <1>c DEF CloseTransport, call, srv
<1>7. CASE ConnectionLost
  <2>1. Kept /\ (toServer' = toServer \/ toServer' = << >>)
    BY <1>7 DEF ConnectionLost, srv
  <2>2. Ordered(toServer', srvLast', cseq')
    BY <2>1, <1>n DEF Ordered
  <2>3. state' # "IDLE" \/ state' = state
    BY <1>7 DEF ConnectionLost
  <2> QED
    BY <2>1, <2>2, <2>3, <1>t, <1>n DEF CSeqInv
<1>8. CASE Dispatch
  <2>0. Receive => state \in Live /\ srvLast' = srvLast
    BY DEF Receive, srv
  <2>1. CASE RecvIgnored
    BY <2>0, <2>1, <1>c DEF RecvIgnored, call
  <2>2. CASE RecvChallenge
    <3> DEFINE msg == Msg("INVITE", cseq', branch', media)
               q == Send(toServer, Ack)
    <3>1. msg \in ClientMsg /\ msg.cseq = cseq'
      BY <1>n, MsgType DEF Msg, Numbered
    <3>2. q \in Seq(ClientMsg) /\ Ordered(q, srvLast, cseq)
      BY <1>n, <1>ack, SendType, SendOther
    <3>3. toServer' = Send(q, msg) /\ cseq' = cseq + 1 /\ srvLast' = srvLast /\ state' # "IDLE"
      BY <2>0, <2>2 DEF RecvChallenge
    <3>4. Ordered(toServer', srvLast', cseq')
      BY <3>1, <3>2, <3>3, <1>n, SendNumbered
    <3> QED
      BY <3>3, <3>4, <1>t, <1>n DEF CSeqInv
  <2>3. CASE RecvBadChallenge
    BY <2>0, <2>3, <1>a, <1>ack DEF RecvBadChallenge, Terminate
  <2>4. CASE RecvOk
    BY <2>0, <2>4, <1>a, <1>ack DEF RecvOk
  <2>5. CASE RecvOkBadSdp
    BY <2>0, <2>5, <1>a, <1>ack DEF RecvOkBadSdp, Terminate
  <2>6. CASE RecvOkAgain
    BY <2>0, <2>6, <1>a, <1>ack DEF RecvOkAgain
  <2>7. CASE RecvReinviteRefused
    BY <2>0, <2>7, <1>a, <1>ack DEF RecvReinviteRefused
  <2>8. CASE RecvFinalFailure
    BY <2>0, <2>8, <1>a, <1>ack DEF RecvFinalFailure, Terminate
  <2>9. CASE RecvBye
    <3>1. Msg("200", 0, 0, "none") \in ClientMsg /\ Msg("200", 0, 0, "none").m \notin Numbered
      BY MsgType DEF Msg, Numbered
    <3> QED
      BY <2>0, <2>9, <3>1, <1>a DEF RecvBye, Terminate
  <2>10. CASE RecvRefreshOrMessage
    <3> DEFINE sdp == IF Incoming.m = "INVITE" THEN media ELSE "none"
    <3>0. sdp \in {"none", "audio", "video"}
      BY <1>n
    <3> HIDE DEF sdp
    <3>1. Msg("200", 0, 0, sdp) \in ClientMsg /\ Msg("200", 0, 0, sdp).m \notin Numbered
      BY <3>0, MsgType DEF Msg, Numbered
    <3>2. toServer' = Send(toServer, Msg("200", 0, 0, sdp))
      BY <2>10 DEF RecvRefreshOrMessage, sdp
    <3> QED
      BY <2>0, <2>10, <3>1, <3>2, <1>a DEF RecvRefreshOrMessage, call
  <2> QED
    BY <1>8, <2>1, <2>2, <2>3, <2>4, <2>5, <2>6, <2>7, <2>8, <2>9, <2>10 DEF Dispatch
<1>9. CASE SrvReads
  <2>1. /\ toServer # << >>
        /\ toServer' = Tail(toServer)
        /\ srvLast' = IF Outgoing.m \in Numbered THEN Outgoing.cseq ELSE srvLast
        /\ UNCHANGED call
    BY <1>9 DEF SrvReads, SrvRead, SrvReadInvite, SrvReadAck, SrvReadMessage,
                SrvReadCancel, SrvReadBye, SrvReadReply
  <2>2. cseq' = cseq /\ state' = state /\ state # "IDLE"
    BY <2>1 DEF call, CSeqInv
  <2>3. Ordered(toServer', srvLast', cseq')
    BY <2>1, <2>2, <1>n, OrderedTail DEF Outgoing
  <2>4. srvLast' <= cseq
    BY <2>1, <1>n DEF Ordered, Outgoing
  <2> QED
    BY <2>2, <2>3, <2>4, <1>t DEF CSeqInv
<1>10. CASE SrvWrites
  <2>1. Kept /\ toServer' = toServer /\ state' = state
    BY <1>10 DEF SrvWrites, SrvSend, SrvProvisional, SrvAccept, SrvRefuse,
                 SrvRetransmit, SrvRequest, call, srv
  <2> QED
    BY <2>1, <1>c
<1>11. CASE UNCHANGED vars
  BY <1>11, <1>c DEF vars, call, srv
<1> QED
  BY <1>1, <1>2, <1>3, <1>4, <1>5, <1>6, <1>7, <1>8, <1>9, <1>10, <1>11 DEF Next, Manager

\* The server reads strictly increasing CSeq numbers on the requests of a call.
THEOREM CSeqAlwaysIncreasing == Spec => []CSeqIncreasing
<1>1. CSeqInv => CSeqIncreasing
  BY CSeqIncreasingIsOrdered DEF CSeqInv
<1> QED
  BY <1>1, InitCSeqInv, NextCSeqInv, PTL DEF Spec
-----------------------------------------------------------------------------
(***************************************************************************)
(* Callbacks.  CallbacksPaired is inductive on its own: every step that    *)
(* ends the call starts from a live one.                                   *)
(***************************************************************************)
LEMMA NextCallbacks == TypeOK /\ CallbacksPaired /\ [Next]_vars => CallbacksPaired'
<1> SUFFICES ASSUME TypeOK, CallbacksPaired, [Next]_vars PROVE CallbacksPaired'
  OBVIOUS
<1> USE DEF Early, Live
\* A step that ends the call, one that establishes it, and one that does neither.
<1>a. ASSUME state \in Live, Terminate, established' = established PROVE CallbacksPaired'
  BY <1>a DEF Terminate, CallbacksPaired, TypeOK
<1>b. ASSUME state \in Early, state' = "CONFIRMED", established' = established + 1,
             ended' = ended
      PROVE  CallbacksPaired'
  BY <1>b DEF CallbacksPaired, TypeOK
<1>c. ASSUME UNCHANGED <<established, ended>>,
             state' = state \/ (state \in Early \union {"IDLE"} /\ state' \in Early)
      PROVE  CallbacksPaired'
  BY <1>c DEF CallbacksPaired, TypeOK
<1>1. CASE Manager
  <2>1. CASE Call
    BY <2>1, <1>c DEF Call, callbacks
  <2>2. CASE SendInDialogMessage
    BY <2>2, <1>c DEF SendInDialogMessage, callbacks
  <2>3. CASE SendReinviteAudioOnly
    BY <2>3, <1>c DEF SendReinviteAudioOnly, callbacks
  <2>4. CASE HangUpConfirmed
    BY <2>4, <1>a DEF HangUpConfirmed
  <2>5. CASE HangUpEarly
    BY <2>5, <1>a DEF HangUpEarly
  <2>6. CASE CloseTransport
    BY <2>6, <1>c DEF CloseTransport, call, callbacks
  <2> QED
    BY <1>1, <2>1, <2>2, <2>3, <2>4, <2>5, <2>6 DEF Manager
<1>2. CASE ConnectionLost
  BY <1>2 DEF ConnectionLost, CallbacksPaired, TypeOK
<1>3. CASE Dispatch
  <2>0. Receive => state \in Live
    BY DEF Receive
  <2>1. CASE RecvIgnored
    BY <2>1, <1>c DEF RecvIgnored, call, callbacks
  <2>2. CASE RecvChallenge
    BY <2>2, <1>c DEF RecvChallenge, IsChallenge, callbacks
  <2>3. CASE RecvBadChallenge
    BY <2>0, <2>3, <1>a DEF RecvBadChallenge
  <2>4. CASE RecvOk
    BY <2>4, <1>b DEF RecvOk
  <2>5. CASE RecvOkBadSdp
    BY <2>0, <2>5, <1>a DEF RecvOkBadSdp
  <2>6. CASE RecvOkAgain
    BY <2>6, <1>c DEF RecvOkAgain, callbacks
  <2>7. CASE RecvReinviteRefused
    BY <2>7, <1>c DEF RecvReinviteRefused, callbacks
  <2>8. CASE RecvFinalFailure
    BY <2>0, <2>8, <1>a DEF RecvFinalFailure
  <2>9. CASE RecvBye
    BY <2>0, <2>9, <1>a DEF RecvBye
  <2>10. CASE RecvRefreshOrMessage
    BY <2>10, <1>c DEF RecvRefreshOrMessage, call, callbacks
  <2> QED
    BY <1>3, <2>1, <2>2, <2>3, <2>4, <2>5, <2>6, <2>7, <2>8, <2>9, <2>10 DEF Dispatch
<1>4. CASE SrvReads
  <2>1. UNCHANGED <<established, ended>> /\ state' = state
    BY <1>4 DEF SrvReads, SrvRead, SrvReadInvite, SrvReadAck, SrvReadMessage,
                SrvReadCancel, SrvReadBye, SrvReadReply, call, callbacks
  <2> QED
    BY <2>1, <1>c
<1>5. CASE SrvWrites
  <2>1. UNCHANGED <<established, ended>> /\ state' = state
    BY <1>5 DEF SrvWrites, SrvSend, SrvProvisional, SrvAccept, SrvRefuse,
                SrvRetransmit, SrvRequest, call, callbacks
  <2> QED
    BY <2>1, <1>c
<1>6. CASE UNCHANGED vars
  BY <1>6, <1>c DEF vars, call, callbacks
<1> QED
  BY <1>1, <1>2, <1>3, <1>4, <1>5, <1>6 DEF Next

\* on_call_established and on_call_terminated are paired in every execution.
THEOREM CallbacksAlwaysPaired == Spec => []CallbacksPaired
<1>1. Init => CallbacksPaired
  BY DEF Init, CallbacksPaired, Early
<1> QED
  BY <1>1, InitTypeOK, NextTypeOK, NextCallbacks, PTL DEF Spec
-----------------------------------------------------------------------------
(***************************************************************************)
(* The end of a call.  A BYE or CANCEL ends the wire, a CANCEL carries the *)
(* CSeq and branch of the last INVITE.  GoodbyeIsLast and CancelNamesInvite*)
(* are not inductive: they need that nothing but the handshake has taken a *)
(* number while the call is early (cseq = branch), that a live call has no *)
(* goodbye on the wire, and that the numbers on the wire are bounded by    *)
(* cseq (CSeqInv).                                                         *)
(***************************************************************************)
Goodbye == {"BYE", "CANCEL"}

NoGoodbye(q) == \A i \in 1..Len(q) : q[i].m \notin Goodbye

CancelOf(q, c, b) ==
    \A i \in 1..Len(q) : q[i].m = "CANCEL" => q[i].cseq = b /\ q[i].branch = b /\ c = b

GoodbyeInv ==
    /\ CSeqInv
    /\ state # "TERMINATED" => NoGoodbye(toServer)
    /\ state \in Early \union {"IDLE"} => cseq = branch
    /\ \A i \in 1..Len(toServer) : toServer[i].m \in Goodbye => i = Len(toServer)
    /\ CancelOf(toServer, cseq, branch)

\* A message that says no goodbye leaves a wire without one.
LEMMA SendNoGoodbye ==
    ASSUME NEW q \in Seq(ClientMsg), NEW msg \in ClientMsg, NoGoodbye(q), msg.m \notin Goodbye
    PROVE  NoGoodbye(Send(q, msg))
<1>1. CASE transport = "open"
  <2>1. /\ Len(Append(q, msg)) = Len(q) + 1
        /\ Append(q, msg)[Len(q) + 1] = msg
        /\ \A i \in 1..Len(q) : Append(q, msg)[i] = q[i]
    OBVIOUS
  <2> QED
    BY <1>1, <2>1 DEF Send, NoGoodbye
<1>2. CASE transport # "open"
  BY <1>2 DEF Send
<1> QED
  BY <1>1, <1>2

\* A goodbye sent on a wire without one is the last message, and a CANCEL
\* among them carries the numbers of the INVITE it names.
LEMMA SendGoodbye ==
    ASSUME NEW q \in Seq(ClientMsg), NEW msg \in ClientMsg, NoGoodbye(q),
           NEW c, NEW b, msg.m = "CANCEL" => msg.cseq = b /\ msg.branch = b /\ c = b
    PROVE  /\ CancelOf(Send(q, msg), c, b)
           /\ \A i \in 1..Len(Send(q, msg)) :
                Send(q, msg)[i].m \in Goodbye => i = Len(Send(q, msg))
<1>1. CASE transport = "open"
  <2>1. /\ Len(Append(q, msg)) = Len(q) + 1
        /\ Append(q, msg)[Len(q) + 1] = msg
        /\ \A i \in 1..Len(q) : Append(q, msg)[i] = q[i]
    OBVIOUS
  <2> QED
    BY <1>1, <2>1 DEF Send, NoGoodbye, CancelOf, Goodbye
<1>2. CASE transport # "open"
  BY <1>2 DEF Send, NoGoodbye, CancelOf, Goodbye
<1> QED
  BY <1>1, <1>2

\* GoodbyeInv is inductive.
LEMMA NextGoodbyeInv == GoodbyeInv /\ [Next]_vars => GoodbyeInv'
<1> SUFFICES ASSUME GoodbyeInv, [Next]_vars PROVE GoodbyeInv'
  OBVIOUS
<1>i. CSeqInv /\ CSeqInv'
  BY NextCSeqInv DEF GoodbyeInv
<1>n. /\ toServer \in Seq(ClientMsg) /\ cseq \in Nat /\ branch \in Nat
      /\ cseq' \in Nat /\ branch' \in Nat
      /\ media \in {"none", "audio", "video"} /\ state' \in States
  BY <1>i DEF CSeqInv, TypeOK
<1> USE DEF Early, Live
\* A live call writes something that is not a goodbye and may end afterwards.
<1>a. ASSUME NEW msg \in ClientMsg, msg.m \notin Goodbye, state # "TERMINATED",
             toServer' = Send(toServer, msg),
             state' \in Early => cseq' = branch', state' # "IDLE"
      PROVE  GoodbyeInv'
  <2>1. NoGoodbye(toServer')
    BY <1>a, <1>n, SendNoGoodbye DEF GoodbyeInv
  <2> QED
    BY <1>a, <1>i, <2>1 DEF GoodbyeInv, NoGoodbye, CancelOf, Goodbye
\* A live call says goodbye and ends.
<1>b. ASSUME NEW msg \in ClientMsg, state # "TERMINATED", state' = "TERMINATED",
             toServer' = Send(toServer, msg),
             msg.m = "CANCEL" => msg.cseq = branch' /\ msg.branch = branch' /\ cseq' = branch'
      PROVE  GoodbyeInv'
  <2>1. /\ CancelOf(toServer', cseq', branch')
        /\ \A i \in 1..Len(toServer') : toServer'[i].m \in Goodbye => i = Len(toServer')
    BY <1>b, <1>n, SendGoodbye DEF GoodbyeInv
  <2> QED
    BY <1>b, <1>i, <2>1 DEF GoodbyeInv
\* The wire is read or lost, or nothing of the invariant changes.
<1>c. ASSUME cseq' = cseq, branch' = branch, state' = state \/ state' = "TERMINATED",
             \/ toServer' = toServer
             \/ toServer' = << >>
             \/ toServer # << >> /\ toServer' = Tail(toServer)
      PROVE  GoodbyeInv'
  <2>1. CASE toServer' = toServer
    BY <1>c, <1>i, <2>1 DEF GoodbyeInv, NoGoodbye, CancelOf
  <2>2. CASE toServer' = << >>
    BY <1>c, <1>i, <2>2 DEF GoodbyeInv, NoGoodbye, CancelOf
  <2>3. CASE toServer # << >> /\ toServer' = Tail(toServer)
    <3>1. /\ Len(toServer) \in Nat \ {0}
          /\ Len(toServer') = Len(toServer) - 1
          /\ \A i \in 1..Len(toServer') :
                toServer'[i] = toServer[i + 1] /\ i + 1 \in 1..Len(toServer)
      BY <2>3, <1>n
    <3>2. state' # "TERMINATED" => NoGoodbye(toServer')
      BY <1>c, <3>1 DEF GoodbyeInv, NoGoodbye
    <3>3. ASSUME NEW i \in 1..Len(toServer'), toServer'[i].m \in Goodbye
          PROVE  i = Len(toServer')
      <4>1. toServer[i + 1].m \in Goodbye /\ i + 1 \in 1..Len(toServer)
        BY <3>1, <3>3
      <4>2. i + 1 = Len(toServer)
        BY <4>1 DEF GoodbyeInv
      <4> QED
        BY <3>1, <4>2
    <3>4. CancelOf(toServer', cseq', branch')
      BY <1>c, <3>1 DEF GoodbyeInv, CancelOf
    <3> QED
      BY <1>c, <1>i, <3>2, <3>3, <3>4 DEF GoodbyeInv
  <2> QED
    BY <1>c, <2>1, <2>2, <2>3
<1>ack. Ack \in ClientMsg /\ Ack.m = "ACK"
  BY <1>n, MsgType DEF Ack, Msg, Numbered
<1>m. ASSUME NEW m \in Numbered \union {"CANCEL", "200"}, NEW c \in Nat, NEW b \in Nat,
             NEW sdp \in {"none", "audio", "video"}
      PROVE  /\ Msg(m, c, b, sdp) \in ClientMsg
             /\ Msg(m, c, b, sdp).m = m
             /\ Msg(m, c, b, sdp).cseq = c
             /\ Msg(m, c, b, sdp).branch = b
  BY <1>m, MsgType DEF Msg
<1>1. CASE Call
  <2> DEFINE msg == Msg("INVITE", cseq, branch, media)
  <2>1. msg \in ClientMsg /\ msg.m \notin Goodbye
    BY <1>n, MsgType DEF Msg, Numbered, Goodbye
  <2> HIDE DEF msg
  <2>2. toServer' = Send(toServer, msg)
    BY <1>1 DEF Call, msg
  <2> QED
    BY <1>1, <1>a, <2>1, <2>2 DEF Call, GoodbyeInv
<1>2. CASE SendInDialogMessage
  <2> DEFINE msg == Msg("MESSAGE", cseq', branch, "none")
  <2>1. msg \in ClientMsg /\ msg.m \notin Goodbye
    BY <1>m, <1>n DEF Numbered, Goodbye
  <2> QED
    BY <1>2, <1>a, <2>1 DEF SendInDialogMessage
<1>3. CASE SendReinviteAudioOnly
  <2> DEFINE msg == Msg("INVITE", cseq', branch', "audio")
  <2>1. msg \in ClientMsg /\ msg.m \notin Goodbye
    BY <1>m, <1>n DEF Numbered, Goodbye
  <2> QED
    BY <1>3, <1>a, <2>1 DEF SendReinviteAudioOnly
<1>4. CASE HangUpConfirmed
  <2> DEFINE msg == Msg("BYE", cseq', cseq', "none")
  <2>1. msg \in ClientMsg /\ msg.m = "BYE"
    BY <1>m, <1>n DEF Numbered
  <2> QED
    BY <1>4, <1>b, <2>1 DEF HangUpConfirmed, Terminate
<1>5. CASE HangUpEarly
  <2> DEFINE msg == Msg("CANCEL", cseq, branch, "none")
  <2>1. msg \in ClientMsg /\ msg.cseq = cseq /\ msg.branch = branch
    BY <1>n, MsgType DEF Msg
  <2>2. cseq = branch /\ cseq' = cseq /\ branch' = branch
    BY <1>5 DEF HangUpEarly, GoodbyeInv
  <2> QED
    BY <1>5, <1>b, <2>1, <2>2 DEF HangUpEarly, Terminate
<1>6. CASE CloseTransport
  BY <1>6, <1>c DEF CloseTransport, call
<1>7. CASE ConnectionLost
  BY <1>7, <1>c DEF ConnectionLost
<1>8. CASE Dispatch
  <2>0. Receive => state \in Live
    BY DEF Receive
  <2>a. ASSUME state \in Live, toServer' = Send(toServer, Ack),
               state' \in Early => cseq' = branch', state' # "IDLE"
        PROVE  GoodbyeInv'
    BY <2>a, <1>a, <1>ack DEF Goodbye
  <2>1. CASE RecvIgnored
    BY <2>1, <1>c DEF RecvIgnored, call
  <2>2. CASE RecvChallenge
    <3> DEFINE msg == Msg("INVITE", cseq', branch', media)
               q == Send(toServer, Ack)
    <3>1. msg \in ClientMsg /\ msg.m = "INVITE"
      BY <1>m, <1>n DEF Numbered
    <3>2. q \in Seq(ClientMsg) /\ NoGoodbye(q)
      BY <2>0, <2>2, <1>n, <1>ack, SendType, SendNoGoodbye DEF RecvChallenge, GoodbyeInv, Goodbye
    <3>3. toServer' = Send(q, msg) /\ cseq' = branch' /\ state' = "AUTHENTICATING"
      BY <2>2 DEF RecvChallenge
    <3>4. NoGoodbye(toServer')
      BY <3>1, <3>2, <3>3, SendNoGoodbye DEF Goodbye
    <3> QED
      BY <3>3, <3>4, <1>i DEF GoodbyeInv, NoGoodbye, CancelOf, Goodbye
  <2>3. CASE RecvBadChallenge
    BY <2>0, <2>3, <2>a DEF RecvBadChallenge, Terminate
  <2>4. CASE RecvOk
    BY <2>0, <2>4, <2>a DEF RecvOk
  <2>5. CASE RecvOkBadSdp
    BY <2>0, <2>5, <2>a DEF RecvOkBadSdp, Terminate
  <2>6. CASE RecvOkAgain
    BY <2>0, <2>6, <2>a DEF RecvOkAgain
  <2>7. CASE RecvReinviteRefused
    BY <2>0, <2>7, <2>a DEF RecvReinviteRefused
  <2>8. CASE RecvFinalFailure
    BY <2>0, <2>8, <2>a DEF RecvFinalFailure, Terminate
  <2>9. CASE RecvBye
    BY <2>0, <2>9, <1>a, <1>m DEF RecvBye, Terminate, Goodbye
  <2>10. CASE RecvRefreshOrMessage
    <3> DEFINE sdp == IF Incoming.m = "INVITE" THEN media ELSE "none"
    <3>0. sdp \in {"none", "audio", "video"}
      BY <1>n
    <3> HIDE DEF sdp
    <3>1. toServer' = Send(toServer, Msg("200", 0, 0, sdp))
      BY <2>10 DEF RecvRefreshOrMessage, sdp
    <3>2. UNCHANGED <<state, cseq, branch>> /\ state \in Live
      BY <2>0, <2>10 DEF RecvRefreshOrMessage, call
    <3> QED
      BY <3>0, <3>1, <3>2, <1>a, <1>m DEF GoodbyeInv, Goodbye
  <2> QED
    BY <1>8, <2>1, <2>2, <2>3, <2>4, <2>5, <2>6, <2>7, <2>8, <2>9, <2>10 DEF Dispatch
<1>9. CASE SrvReads
  <2>1. toServer # << >> /\ toServer' = Tail(toServer) /\ UNCHANGED call
    BY <1>9 DEF SrvReads, SrvRead, SrvReadInvite, SrvReadAck, SrvReadMessage,
                SrvReadCancel, SrvReadBye, SrvReadReply
  <2> QED
    BY <2>1, <1>c DEF call
<1>10. CASE SrvWrites
  <2>1. UNCHANGED <<state, cseq, branch, toServer>>
    BY <1>10 DEF SrvWrites, SrvSend, SrvProvisional, SrvAccept, SrvRefuse,
                 SrvRetransmit, SrvRequest, call
  <2> QED
    BY <2>1, <1>c
<1>11. CASE UNCHANGED vars
  BY <1>11, <1>c DEF vars, call
<1> QED
  BY <1>1, <1>2, <1>3, <1>4, <1>5, <1>6, <1>7, <1>8, <1>9, <1>10, <1>11 DEF Next, Manager

\* Nothing has been said when a call begins.
LEMMA InitGoodbyeInv == Init => GoodbyeInv
  BY InitCSeqInv DEF Init, GoodbyeInv, NoGoodbye, CancelOf

\* The client writes nothing after its BYE or CANCEL.
THEOREM GoodbyeAlwaysLast == Spec => []GoodbyeIsLast
<1>1. GoodbyeInv => GoodbyeIsLast
  <2> SUFFICES ASSUME GoodbyeInv, NEW i \in Wire({"BYE", "CANCEL"})
               PROVE  i = Len(toServer) /\ state = "TERMINATED"
    BY DEF GoodbyeIsLast
  <2>1. i \in 1..Len(toServer) /\ toServer[i].m \in Goodbye
    BY DEF Wire, Goodbye, GoodbyeInv, CSeqInv, TypeOK
  <2> QED
    BY <2>1 DEF GoodbyeInv, NoGoodbye
<1> QED
  BY <1>1, InitGoodbyeInv, NextGoodbyeInv, PTL DEF Spec

\* A CANCEL names the INVITE that is outstanding.
THEOREM CancelAlwaysNamesInvite == Spec => []CancelNamesInvite
<1>1. GoodbyeInv => CancelNamesInvite
  <2> SUFFICES ASSUME GoodbyeInv, NEW i \in Wire({"CANCEL"})
               PROVE  /\ toServer[i].cseq = toServer[i].branch
                      /\ toServer[i].branch = branch
                      /\ \A j \in Wire({"INVITE"}) : j < i /\ toServer[j].cseq <= toServer[i].cseq
    BY DEF CancelNamesInvite
  <2>0. toServer \in Seq(ClientMsg) /\ cseq \in Nat
    BY DEF GoodbyeInv, CSeqInv, TypeOK
  <2>1. i \in 1..Len(toServer) /\ toServer[i].m = "CANCEL"
    BY <2>0 DEF Wire
  <2>2. toServer[i].cseq = branch /\ toServer[i].branch = branch /\ cseq = branch /\ i = Len(toServer)
    BY <2>1 DEF GoodbyeInv, CancelOf, Goodbye
  <2>3. ASSUME NEW j \in Wire({"INVITE"})
        PROVE  j < i /\ toServer[j].cseq <= toServer[i].cseq
    <3>1. j \in 1..Len(toServer) /\ toServer[j].m = "INVITE"
      BY <2>0, <2>3 DEF Wire
    <3>2. j # i
      BY <2>1, <3>1
    <3>3. j < i
      BY <2>0, <2>2, <3>1, <3>2
    <3>4. toServer[j].cseq <= cseq
      BY <3>1 DEF GoodbyeInv, CSeqInv, Ordered, Numbered
    <3> QED
      BY <2>2, <3>3, <3>4
  <2> QED
    BY <2>2, <2>3
<1> QED
  BY <1>1, InitGoodbyeInv, NextGoodbyeInv, PTL DEF Spec
-----------------------------------------------------------------------------
(***************************************************************************)
(* The re-INVITE.  While reinvite_in_progress is set, the INVITE that      *)
(* branch names is on the wire, with the server, or answered.  The server  *)
(* keeps one INVITE to answer: another one could make it forget ours, but  *)
(* no INVITE on the wire is newer than branch (InvitesUpTo) and none is    *)
(* older than what the server has read (Ordered).                          *)
(***************************************************************************)
InvitesUpTo(q, b) == \A i \in 1..Len(q) : q[i].m = "INVITE" => q[i].cseq <= b

Carries(q, b) == \E i \in 1..Len(q) : q[i].m = "INVITE" /\ q[i].cseq = b

Settles(msg, b) ==
    msg.kind = "response" /\ msg.code # "1xx" /\ msg.m = "INVITE" /\ msg.cseq = b

Brings(q, b) == \E i \in 1..Len(q) : Settles(q[i], b)

Awaited == reinvite = "pending" /\ state = "CONFIRMED" /\ transport = "open"

OnItsWay == Carries(toServer, branch) \/ srvInvite = branch \/ Brings(toClient, branch)

ReinviteInv ==
    /\ GoodbyeInv
    /\ state \in Early \union {"IDLE"} => reinvite = "idle"
    /\ srvInvite <= srvLast
    /\ InvitesUpTo(toServer, branch)
    /\ Awaited => OnItsWay

\* What a message written to the server does to the INVITEs on the wire.
LEMMA SendInvites ==
    ASSUME NEW q \in Seq(ClientMsg), NEW msg \in ClientMsg, NEW b \in Nat,
           InvitesUpTo(q, b), msg.m = "INVITE" => msg.cseq <= b
    PROVE  /\ InvitesUpTo(Send(q, msg), b)
           /\ Carries(q, b) => Carries(Send(q, msg), b)
           /\ transport = "open" /\ msg.m = "INVITE" /\ msg.cseq = b => Carries(Send(q, msg), b)
<1>1. CASE transport = "open"
  <2>1. /\ Len(Append(q, msg)) = Len(q) + 1
        /\ Append(q, msg)[Len(q) + 1] = msg
        /\ \A i \in 1..Len(q) : Append(q, msg)[i] = q[i]
        /\ Len(q) \in Nat
    OBVIOUS
  <2> QED
    BY <1>1, <2>1 DEF Send, InvitesUpTo, Carries
<1>2. CASE transport # "open"
  BY <1>2 DEF Send
<1> QED
  BY <1>1, <1>2

\* The server reads the head: the other INVITEs stay.
LEMMA TailInvites ==
    ASSUME NEW q \in Seq(ClientMsg), NEW b \in Nat, q # << >>
    PROVE  /\ InvitesUpTo(q, b) => InvitesUpTo(Tail(q), b)
           /\ Carries(q, b) => \/ Carries(Tail(q), b)
                               \/ Head(q).m = "INVITE" /\ Head(q).cseq = b
<1>1. /\ Len(q) \in Nat \ {0}
      /\ Len(Tail(q)) = Len(q) - 1
      /\ \A i \in 1..Len(Tail(q)) : Tail(q)[i] = q[i + 1] /\ i + 1 \in 1..Len(q)
      /\ Head(q) = q[1]
  OBVIOUS
<1>2. \A i \in 1..Len(q) : i # 1 => i - 1 \in 1..Len(Tail(q)) /\ Tail(q)[i - 1] = q[i]
  BY <1>1
<1> QED
  BY <1>1, <1>2 DEF InvitesUpTo, Carries

\* The client dispatches the head: an answer that is not the head stays.
LEMMA TailBrings ==
    ASSUME NEW q \in Seq(ServerMsg), NEW b, q # << >>, Brings(q, b)
    PROVE  Brings(Tail(q), b) \/ Settles(Head(q), b)
<1>1. /\ Len(q) \in Nat \ {0}
      /\ Len(Tail(q)) = Len(q) - 1
      /\ Head(q) = q[1]
  OBVIOUS
<1>2. \A i \in 1..Len(q) : i # 1 => i - 1 \in 1..Len(Tail(q)) /\ Tail(q)[i - 1] = q[i]
  BY <1>1
<1> QED
  BY <1>1, <1>2 DEF Brings

\* The server writes: what is on its way to the client stays.
LEMMA AppendBrings ==
    ASSUME NEW q \in Seq(ServerMsg), NEW msg, NEW b
    PROVE  /\ Brings(q, b) => Brings(Append(q, msg), b)
           /\ Settles(msg, b) => Brings(Append(q, msg), b)
<1>1. /\ Len(Append(q, msg)) = Len(q) + 1
      /\ Append(q, msg)[Len(q) + 1] = msg
      /\ \A i \in 1..Len(q) : Append(q, msg)[i] = q[i]
      /\ Len(q) \in Nat
  OBVIOUS
<1> QED
  BY <1>1 DEF Brings

\* The server reads a message: our re-INVITE is not lost.
LEMMA ReadKeepsReinvite ==
    ASSUME ReinviteInv, GoodbyeInv', SrvReads
    PROVE  ReinviteInv'
<1>n. /\ toServer \in Seq(ClientMsg) /\ toClient \in Seq(ServerMsg)
      /\ cseq \in Nat /\ branch \in Nat /\ srvLast \in Nat /\ srvInvite \in Nat
      /\ Ordered(toServer, srvLast, cseq)
  BY DEF ReinviteInv, GoodbyeInv, CSeqInv, TypeOK
<1>1. /\ toServer # << >> /\ toServer' = Tail(toServer)
      /\ srvLast' = IF Outgoing.m \in Numbered THEN Outgoing.cseq ELSE srvLast
      /\ UNCHANGED <<call, transport>>
  BY DEF SrvReads, SrvRead, SrvReadInvite, SrvReadAck, SrvReadMessage, SrvReadCancel,
         SrvReadBye, SrvReadReply
<1>2. /\ Outgoing = toServer[1] /\ 1 \in 1..Len(toServer) /\ Outgoing.cseq \in Nat
      /\ Len(toServer) \in Nat
  BY <1>1, <1>n, CSeqType DEF Outgoing
<1>3. Outgoing.m \in Numbered => srvLast < Outgoing.cseq
  BY <1>2 DEF ReinviteInv, GoodbyeInv, CSeqInv, Ordered
<1>4. \/ Outgoing.m = "INVITE" /\ srvInvite' = Outgoing.cseq
      \/ Outgoing.m # "INVITE" /\ srvInvite' = srvInvite
      \/ Outgoing.m \in Goodbye /\ srvInvite' = 0
  BY DEF SrvReads, SrvRead, SrvReadInvite, SrvReadAck, SrvReadMessage, SrvReadCancel,
         SrvReadBye, SrvReadReply, Goodbye
<1>5. srvInvite' <= srvLast'
  BY <1>1, <1>2, <1>3, <1>4, <1>n DEF ReinviteInv, Numbered, Goodbye
<1>6. InvitesUpTo(toServer', branch')
  BY <1>1, <1>n, TailInvites DEF ReinviteInv, call
<1>7. \/ toClient' = toClient
      \/ \E msg : toClient' = Append(toClient, msg)
  BY DEF SrvReads, SrvReadInvite, SrvReadAck, SrvReadMessage, SrvReadCancel,
         SrvReadBye, SrvReadReply
<1>8. ASSUME Awaited' PROVE OnItsWay'
  <2>1. Awaited /\ OnItsWay /\ branch' = branch
    BY <1>1, <1>8 DEF Awaited, call, ReinviteInv
  <2>2. Outgoing.m \notin Goodbye
    BY <1>2, <2>1 DEF Awaited, ReinviteInv, GoodbyeInv, NoGoodbye
  <2>3. CASE Carries(toServer, branch)
    BY <1>1, <1>4, <1>n, <2>1, <2>3, TailInvites DEF OnItsWay, Outgoing, Goodbye
  <2>4. CASE srvInvite = branch
    <3>1. Outgoing.m = "INVITE" => Outgoing.cseq <= branch
      BY <1>2 DEF ReinviteInv, InvitesUpTo
    <3>2. Outgoing.m # "INVITE"
      BY <1>2, <1>3, <1>n, <2>4, <3>1 DEF ReinviteInv, Numbered
    <3> QED
      BY <1>4, <2>1, <2>2, <2>4, <3>2 DEF OnItsWay
  <2>5. CASE Brings(toClient, branch)
    BY <1>7, <1>n, <2>1, <2>5, AppendBrings DEF OnItsWay
  <2> QED
    BY <2>1, <2>3, <2>4, <2>5 DEF OnItsWay
<1>9. state' \in Early \union {"IDLE"} => reinvite' = "idle"
  BY <1>1 DEF call, ReinviteInv
<1> QED
  BY <1>5, <1>6, <1>8, <1>9 DEF ReinviteInv

\* The server writes a message: it answers the INVITE it has, or adds another.
LEMMA WriteKeepsReinvite ==
    ASSUME ReinviteInv, GoodbyeInv', SrvWrites
    PROVE  ReinviteInv'
<1>n. toClient \in Seq(ServerMsg)
  BY DEF ReinviteInv, GoodbyeInv, CSeqInv, TypeOK
<1>1. UNCHANGED <<call, transport, toServer, srvLast>>
  BY DEF SrvWrites, SrvProvisional, SrvAccept, SrvRefuse, SrvRetransmit, SrvRequest, SrvSend, srv
<1>2. PICK msg : toClient' = Append(toClient, msg) /\ \/ srvInvite' = srvInvite
                                                      \/ srvInvite' = 0 /\ Settles(msg, srvInvite)
  <2>1. CASE SrvAccept
    <3>1. PICK body \in {"good", "bad"} :
            toClient' = Append(toClient, Answer("2xx", "INVITE", srvInvite, body))
      BY <2>1 DEF SrvAccept, SrvSend
    <3>2. Settles(Answer("2xx", "INVITE", srvInvite, body), srvInvite)
      BY DEF Settles, Answer
    <3> QED
      BY <2>1, <3>1, <3>2 DEF SrvAccept
  <2>2. CASE SrvRefuse
    <3>1. PICK code \in {"fail", "auth"}, body \in {"good", "bad"} :
            toClient' = Append(toClient, Answer(code, "INVITE", srvInvite, body))
      BY <2>2 DEF SrvRefuse, SrvSend
    <3>2. Settles(Answer(code, "INVITE", srvInvite, body), srvInvite)
      BY DEF Settles, Answer
    <3> QED
      BY <2>2, <3>1, <3>2 DEF SrvRefuse
  <2>3. CASE SrvProvisional \/ SrvRetransmit \/ SrvRequest
    BY <2>3 DEF SrvProvisional, SrvRetransmit, SrvRequest, SrvSend, srv
  <2> QED
    BY <2>1, <2>2, <2>3 DEF SrvWrites
<1>3. srvInvite' <= srvLast'
  BY <1>1, <1>2 DEF ReinviteInv, GoodbyeInv, CSeqInv, TypeOK
<1>4. ASSUME Awaited' PROVE OnItsWay'
  <2>1. Awaited /\ OnItsWay /\ branch' = branch
    BY <1>1, <1>4 DEF Awaited, call, ReinviteInv
  <2> QED
    BY <1>1, <1>2, <1>n, <2>1, AppendBrings DEF OnItsWay
<1> QED
  BY <1>1, <1>3, <1>4 DEF ReinviteInv, call

\* ReinviteInv is inductive.
LEMMA NextReinviteInv == ReinviteInv /\ [Next]_vars => ReinviteInv'
<1> SUFFICES ASSUME ReinviteInv, [Next]_vars PROVE ReinviteInv'
  OBVIOUS
<1>i. GoodbyeInv /\ GoodbyeInv'
  BY NextGoodbyeInv DEF ReinviteInv
<1>n. /\ toServer \in Seq(ClientMsg) /\ toClient \in Seq(ServerMsg)
      /\ cseq \in Nat /\ branch \in Nat /\ cseq' \in Nat /\ branch' \in Nat
      /\ media \in {"none", "audio", "video"} /\ media' \in {"none", "audio", "video"}
      /\ Ordered(toServer, srvLast, cseq)
  BY <1>i DEF GoodbyeInv, CSeqInv, TypeOK
<1>m. ASSUME NEW m \in Numbered \union {"CANCEL", "200"}, NEW c \in Nat, NEW b \in Nat,
             NEW sdp \in {"none", "audio", "video"}
      PROVE  /\ Msg(m, c, b, sdp) \in ClientMsg
             /\ Msg(m, c, b, sdp).m = m
             /\ Msg(m, c, b, sdp).cseq = c
  BY <1>m, MsgType DEF Msg
<1>ack. Ack \in ClientMsg /\ Ack.m = "ACK"
  BY <1>n, MsgType DEF Ack, Msg, Numbered
<1> USE DEF Early, Live
\* A step writes something other than an INVITE, and reads nothing or a
\* message that does not settle the re-INVITE.
<1>a. ASSUME NEW msg \in ClientMsg, msg.m # "INVITE", toServer' = Send(toServer, msg),
             branch' = branch, reinvite' \in {reinvite, "idle"},
             state' = state \/ (state \in Early \union {"IDLE"} /\ reinvite' = "idle")
               \/ state' = "TERMINATED",
             transport' = transport \/ transport' # "open", UNCHANGED <<srvLast, srvInvite>>,
             \/ toClient' = toClient
             \/ toClient # << >> /\ toClient' = Tail(toClient)
                /\ (Awaited' => ~Settles(Head(toClient), branch))
      PROVE  ReinviteInv'
  <2>1. /\ InvitesUpTo(toServer', branch')
        /\ Carries(toServer, branch) => Carries(toServer', branch')
    BY <1>a, <1>n, SendInvites DEF ReinviteInv
  <2>2. ASSUME Awaited' PROVE OnItsWay'
    <3>1. Awaited /\ OnItsWay
      BY <1>a, <2>2 DEF Awaited, ReinviteInv
    <3> QED
      BY <1>a, <1>n, <2>1, <2>2, <3>1, TailBrings DEF OnItsWay
  <2>3. state' \in Early \union {"IDLE"} => reinvite' = "idle"
    BY <1>a DEF ReinviteInv
  <2> QED
    BY <1>a, <1>i, <2>1, <2>2, <2>3 DEF ReinviteInv
\* A step writes a newer INVITE, which it waits for or not.
<1>b. ASSUME NEW q \in Seq(ClientMsg), InvitesUpTo(q, branch'), NEW sdp \in {"none", "audio", "video"},
             toServer' = Send(q, Msg("INVITE", branch', branch', sdp)),
             state' \in Early \union {"IDLE"} => reinvite' = "idle",
             transport' = transport, UNCHANGED <<srvLast, srvInvite>>
      PROVE  ReinviteInv'
  <2> DEFINE msg == Msg("INVITE", branch', branch', sdp)
  <2>1. msg \in ClientMsg /\ msg.m = "INVITE" /\ msg.cseq = branch'
    BY <1>b, <1>n, MsgType DEF Msg, Numbered
  <2> HIDE DEF msg
  <2>2. toServer' = Send(q, msg)
    BY <1>b DEF msg
  <2>3. msg.cseq <= branch'
    BY <1>n, <2>1
  <2>4. /\ InvitesUpTo(toServer', branch')
        /\ transport = "open" => Carries(toServer', branch')
    BY <1>b, <1>n, <2>1, <2>2, <2>3, SendInvites
  <2> QED
    BY <1>b, <1>i, <2>4 DEF ReinviteInv, Awaited, OnItsWay
\* What is on the wire is not above cseq.
<1>c. InvitesUpTo(toServer, cseq) /\ InvitesUpTo(toServer, cseq + 1)
  <2>1. \A i \in 1..Len(toServer) : toServer[i].m = "INVITE" =>
            toServer[i].cseq <= cseq /\ toServer[i].cseq \in Nat
    BY <1>n, CSeqType DEF Ordered, Numbered
  <2> QED
    BY <1>n, <2>1 DEF InvitesUpTo
<1>1. CASE Call
  <2>1. cseq = branch /\ branch' = branch /\ reinvite' = "idle"
    BY <1>1, <1>i DEF Call, GoodbyeInv, ReinviteInv
  <2> QED
    BY <1>1, <1>b, <1>c, <1>n, <2>1 DEF Call, srv
<1>2. CASE SendInDialogMessage
  <2> DEFINE msg == Msg("MESSAGE", cseq', branch, "none")
  <2>1. msg \in ClientMsg /\ msg.m # "INVITE"
    BY <1>n, MsgType DEF Msg, Numbered
  <2> HIDE DEF msg
  <2>2. toServer' = Send(toServer, msg)
    BY <1>2 DEF SendInDialogMessage, msg
  <2> QED
    BY <1>2, <1>a, <2>1, <2>2 DEF SendInDialogMessage, srv
<1>3. CASE SendReinviteAudioOnly
  <2>1. toServer' = Send(toServer, Msg("INVITE", branch', branch', media')) /\ branch' = cseq + 1
    BY <1>3 DEF SendReinviteAudioOnly
  <2> QED
    BY <1>3, <1>b, <1>c, <1>n, <2>1 DEF SendReinviteAudioOnly, srv
<1>4. CASE HangUpConfirmed
  <2> DEFINE msg == Msg("BYE", cseq', cseq', "none")
  <2>1. msg \in ClientMsg /\ msg.m # "INVITE"
    BY <1>n, MsgType DEF Msg, Numbered
  <2> HIDE DEF msg
  <2>2. toServer' = Send(toServer, msg)
    BY <1>4 DEF HangUpConfirmed, msg
  <2> QED
    BY <1>4, <1>a, <2>1, <2>2 DEF HangUpConfirmed, Terminate, srv
<1>5. CASE HangUpEarly
  <2>1. Cancel \in ClientMsg /\ Cancel.m # "INVITE"
    BY <1>m, <1>n
  <2> QED
    BY <1>5, <1>a, <2>1 DEF HangUpEarly, Terminate, srv
<1>6. CASE CloseTransport
  BY <1>6, <1>i DEF CloseTransport, call, srv, ReinviteInv, Awaited
<1>7. CASE ConnectionLost
  <2>1. InvitesUpTo(toServer', branch')
    BY <1>7 DEF ConnectionLost, ReinviteInv, InvitesUpTo
  <2> QED
    BY <1>7, <1>i, <2>1 DEF ConnectionLost, srv, ReinviteInv, Awaited
<1>8. CASE Dispatch
  <2>0. Receive => /\ state \in Live /\ toClient # << >> /\ toClient' = Tail(toClient)
                   /\ UNCHANGED <<srvLast, srvInvite>>
    BY DEF Receive, srv
  <2>1. CASE RecvIgnored
    <3>1. Awaited' => ~Settles(Incoming, branch)
      BY <2>1 DEF RecvIgnored, IsResponse, IsRequest, Settles
    <3>2. ASSUME Awaited' PROVE OnItsWay'
      BY <2>0, <2>1, <1>n, <3>1, <3>2, TailBrings
         DEF RecvIgnored, call, Awaited, ReinviteInv, OnItsWay, Incoming
    <3> QED
      BY <2>0, <2>1, <1>i, <3>2 DEF RecvIgnored, call, ReinviteInv
  <2>2. CASE RecvChallenge
    <3>1. /\ Send(toServer, Ack) \in Seq(ClientMsg)
          /\ InvitesUpTo(Send(toServer, Ack), cseq + 1)
      BY <1>ack, <1>c, <1>n, SendType, SendInvites
    <3>2. /\ toServer' = Send(Send(toServer, Ack), Msg("INVITE", branch', branch', media))
          /\ branch' = cseq + 1
      BY <2>2 DEF RecvChallenge
    <3>3. reinvite' = "idle" /\ transport' = transport
      BY <2>2 DEF RecvChallenge, IsChallenge, ReinviteInv
    <3> QED
      BY <2>0, <2>2, <1>b, <1>n, <3>1, <3>2, <3>3 DEF RecvChallenge
  <2>a. ASSUME Receive, toServer' = Send(toServer, Ack), branch' = branch,
               transport' = transport \/ transport' # "open",
               reinvite' \in {reinvite, "idle"}, ~Awaited',
               state' = state \/ state' = "TERMINATED"
                 \/ (state \in Early \union {"IDLE"} /\ reinvite' = "idle")
        PROVE  ReinviteInv'
    BY <2>0, <2>a, <1>a, <1>ack
  <2>3. CASE RecvBadChallenge
    BY <2>3, <2>a DEF RecvBadChallenge, Terminate, Awaited
  <2>4. CASE RecvOk
    <3>1. reinvite' = "idle"
      BY <2>4 DEF RecvOk, ReinviteInv
    <3> QED
      BY <2>4, <2>a, <3>1 DEF RecvOk, Awaited
  <2>5. CASE RecvOkBadSdp
    BY <2>5, <2>a DEF RecvOkBadSdp, Terminate, Awaited
  <2>6. CASE RecvOkAgain
    BY <2>6, <2>a DEF RecvOkAgain, Awaited
  <2>7. CASE RecvReinviteRefused
    BY <2>7, <2>a DEF RecvReinviteRefused, Awaited
  <2>8. CASE RecvFinalFailure
    BY <2>8, <2>a DEF RecvFinalFailure, Terminate, Awaited
  <2>9. CASE RecvBye
    <3>1. Msg("200", 0, 0, "none") \in ClientMsg /\ Msg("200", 0, 0, "none").m # "INVITE"
      BY MsgType DEF Msg, Numbered
    <3> QED
      BY <2>0, <2>9, <1>a, <3>1 DEF RecvBye, Terminate, Awaited
  <2>10. CASE RecvRefreshOrMessage
    <3> DEFINE sdp == IF Incoming.m = "INVITE" THEN media ELSE "none"
    <3>0. sdp \in {"none", "audio", "video"}
      BY <1>n
    <3> HIDE DEF sdp
    <3>1. Msg("200", 0, 0, sdp) \in ClientMsg /\ Msg("200", 0, 0, sdp).m # "INVITE"
      BY <3>0, <1>m
    <3>2. toServer' = Send(toServer, Msg("200", 0, 0, sdp))
      BY <2>10 DEF RecvRefreshOrMessage, sdp
    <3>3. ~Settles(Head(toClient), branch)
      BY <2>10 DEF RecvRefreshOrMessage, IsRequest, Incoming, Settles
    <3> QED
      BY <2>0, <2>10, <1>a, <3>1, <3>2, <3>3 DEF RecvRefreshOrMessage, call
  <2> QED
    BY <1>8, <2>1, <2>2, <2>3, <2>4, <2>5, <2>6, <2>7, <2>8, <2>9, <2>10 DEF Dispatch
<1>9. CASE SrvReads
  BY <1>9, <1>i, ReadKeepsReinvite
<1>10. CASE SrvWrites
  BY <1>10, <1>i, WriteKeepsReinvite
<1>11. CASE UNCHANGED vars
  BY <1>11, <1>i DEF vars, call, srv, ReinviteInv, Awaited, OnItsWay
<1> QED
  BY <1>1, <1>2, <1>3, <1>4, <1>5, <1>6, <1>7, <1>8, <1>9, <1>10, <1>11 DEF Next, Manager

\* While the client waits for the answer to a re-INVITE, there is one to come.
THEOREM ReinviteAlwaysAnswered == Spec => []ReinviteAnswered
<1>1. Init => ReinviteInv
  BY InitGoodbyeInv DEF Init, ReinviteInv, InvitesUpTo, Awaited
<1>2. ReinviteInv => ReinviteAnswered
  <2> SUFFICES ASSUME ReinviteInv, Awaited PROVE ReinviteAnswered
    BY DEF ReinviteAnswered, Awaited
  <2>1. toServer \in Seq(ClientMsg) /\ toClient \in Seq(ServerMsg)
    BY DEF ReinviteInv, GoodbyeInv, CSeqInv, TypeOK
  <2>2. OnItsWay
    BY DEF ReinviteInv
  <2> QED
    BY <2>1, <2>2 DEF OnItsWay, Carries, Brings, Settles, Wire, ReinviteAnswered
<1> QED
  BY <1>1, <1>2, NextReinviteInv, PTL DEF Spec
-----------------------------------------------------------------------------
(***************************************************************************)
(* The answer to the INVITE that places the call.  Until the call is       *)
(* established, the server has at most the INVITE that branch names: the   *)
(* challenge of the first one leaves it none to answer, so what it has     *)
(* accepted is the last INVITE, whose 2xx is on its way.  The ACK takes    *)
(* the number of that INVITE, since no MESSAGE has taken another.          *)
(***************************************************************************)
Accepted(q, c) ==
    \E i \in 1..Len(q) :
        q[i].kind = "response" /\ q[i].code = "2xx" /\ q[i].m = "INVITE" /\ q[i].cseq = c

Challenged(q) == \E i \in 1..Len(q) : q[i].kind = "response" /\ q[i].code = "auth"

Acks(q, c) == \E i \in 1..Len(q) : q[i].m = "ACK" /\ q[i].cseq = c

\* The answer to an INVITE that the server has accepted is on its way.
AnswerTravels == state \in Early => \A c \in srvUnacked : Accepted(toClient, c)

\* Who establishes the call acknowledges what the server has accepted.
AckFollows == established' # established => \A c \in srvUnacked : Acks(toServer', c)

LastInviteOnly ==
    /\ srvInvite \in {0, branch}
    /\ \A i \in 1..Len(toServer) : toServer[i].m = "INVITE" => toServer[i].cseq = branch
    /\ \A c \in srvUnacked : c = branch /\ srvInvite = 0 /\ Accepted(toClient, c)

NothingLeft ==
    /\ srvInvite = 0 /\ srvUnacked = {}
    /\ \A i \in 1..Len(toServer) : toServer[i].m # "INVITE"

AnswerInv ==
    /\ ReinviteInv
    /\ \A c \in srvUnacked : c <= srvLast
    /\ state = "IDLE" => NothingLeft /\ ~Challenged(toClient)
    /\ state \in Early => LastInviteOnly
    /\ state = "INVITING" /\ Challenged(toClient) => NothingLeft

\* The client dispatches the head: what else is on its way stays.
LEMMA TailAccepted ==
    ASSUME NEW q \in Seq(ServerMsg), NEW c, q # << >>
    PROVE  /\ Accepted(q, c) => Accepted(Tail(q), c) \/ (Head(q).kind = "response" /\ Head(q).code = "2xx")
           /\ Challenged(Tail(q)) => Challenged(q)
           /\ Head(q).kind = "response" /\ Head(q).code = "auth" => Challenged(q)
<1>1. /\ Len(q) \in Nat \ {0}
      /\ Len(Tail(q)) = Len(q) - 1
      /\ \A i \in 1..Len(Tail(q)) : Tail(q)[i] = q[i + 1] /\ i + 1 \in 1..Len(q)
      /\ Head(q) = q[1]
  OBVIOUS
<1>2. \A i \in 1..Len(q) : i # 1 => i - 1 \in 1..Len(Tail(q)) /\ Tail(q)[i - 1] = q[i]
  BY <1>1
<1>3. Accepted(q, c) => Accepted(Tail(q), c) \/ (Head(q).kind = "response" /\ Head(q).code = "2xx")
  <2> SUFFICES ASSUME NEW i \in 1..Len(q), q[i].kind = "response", q[i].code = "2xx",
                      q[i].m = "INVITE", q[i].cseq = c, i # 1
               PROVE  Accepted(Tail(q), c)
    BY <1>1 DEF Accepted
  <2> QED
    BY <1>2 DEF Accepted
<1>4. Challenged(Tail(q)) => Challenged(q)
  BY <1>1 DEF Challenged
<1>5. Head(q).kind = "response" /\ Head(q).code = "auth" => Challenged(q)
  <2>1. 1 \in 1..Len(q)
    BY <1>1
  <2> QED
    BY <1>1, <2>1 DEF Challenged
<1> QED
  BY <1>3, <1>4, <1>5

\* The server writes: what is on its way stays, and only a challenge adds one.
LEMMA AppendAccepted ==
    ASSUME NEW q \in Seq(ServerMsg), NEW msg
    PROVE  /\ \A c : Accepted(q, c) => Accepted(Append(q, msg), c)
           /\ \A c : msg.kind = "response" /\ msg.code = "2xx" /\ msg.m = "INVITE" /\ msg.cseq = c
                => Accepted(Append(q, msg), c)
           /\ Challenged(Append(q, msg)) => Challenged(q) \/ (msg.kind = "response" /\ msg.code = "auth")
<1>1. /\ Len(Append(q, msg)) = Len(q) + 1
      /\ Append(q, msg)[Len(q) + 1] = msg
      /\ \A i \in 1..Len(q) : Append(q, msg)[i] = q[i]
      /\ Len(q) \in Nat
  OBVIOUS
<1> QED
  BY <1>1 DEF Accepted, Challenged

\* What _send adds to the wire.
LEMMA SendAdds ==
    ASSUME NEW q \in Seq(ClientMsg), NEW msg \in ClientMsg
    PROVE  /\ \A i \in 1..Len(Send(q, msg)) : Send(q, msg)[i] = msg \/ (i \in 1..Len(q) /\ Send(q, msg)[i] = q[i])
           /\ transport = "open" => \E i \in 1..Len(Send(q, msg)) : Send(q, msg)[i] = msg
<1>1. CASE transport = "open"
  <2>1. /\ Len(Append(q, msg)) = Len(q) + 1
        /\ Append(q, msg)[Len(q) + 1] = msg
        /\ \A i \in 1..Len(q) : Append(q, msg)[i] = q[i]
        /\ Len(q) \in Nat
    OBVIOUS
  <2> QED
    BY <1>1, <2>1 DEF Send
<1>2. CASE transport # "open"
  BY <1>2 DEF Send
<1> QED
  BY <1>1, <1>2

\* The server reads a message.
LEMMA ReadKeepsAnswer ==
    ASSUME AnswerInv, ReinviteInv', SrvReads
    PROVE  AnswerInv'
<1>n. /\ toServer \in Seq(ClientMsg) /\ toClient \in Seq(ServerMsg)
      /\ cseq \in Nat /\ branch \in Nat /\ srvLast \in Nat /\ srvInvite \in Nat /\ srvUnacked \in SUBSET Nat
      /\ Ordered(toServer, srvLast, cseq)
  BY DEF AnswerInv, ReinviteInv, GoodbyeInv, CSeqInv, TypeOK
<1>1. /\ toServer # << >> /\ toServer' = Tail(toServer)
      /\ srvLast' = IF Outgoing.m \in Numbered THEN Outgoing.cseq ELSE srvLast
      /\ UNCHANGED <<call, transport>>
  BY DEF SrvReads, SrvRead, SrvReadInvite, SrvReadAck, SrvReadMessage, SrvReadCancel,
         SrvReadBye, SrvReadReply
<1>2. /\ Len(toServer) \in Nat \ {0}
      /\ Len(toServer') = Len(toServer) - 1
      /\ Outgoing = toServer[1] /\ 1 \in 1..Len(toServer) /\ Outgoing.cseq \in Nat
      /\ \A i \in 1..Len(toServer') : toServer'[i] = toServer[i + 1] /\ i + 1 \in 1..Len(toServer)
  BY <1>1, <1>n, CSeqType DEF Outgoing
<1>3. Outgoing.m \in Numbered => srvLast < Outgoing.cseq
  BY <1>2, <1>n DEF Ordered
<1>4. /\ srvUnacked' \subseteq srvUnacked
      /\ \/ Outgoing.m = "INVITE" /\ srvInvite' = Outgoing.cseq
         \/ Outgoing.m # "INVITE" /\ srvInvite' \in {srvInvite, 0}
  BY DEF SrvReads, SrvRead, SrvReadInvite, SrvReadAck, SrvReadMessage, SrvReadCancel,
         SrvReadBye, SrvReadReply
<1>5. /\ \A c : Accepted(toClient, c) => Accepted(toClient', c)
      /\ Challenged(toClient') => Challenged(toClient)
  <2>1. CASE SrvReadMessage
    <3>1. PICK code \in {"2xx", "fail"} :
            toClient' = IF transport = "lost" THEN toClient
                        ELSE Append(toClient, Answer(code, "MESSAGE", Outgoing.cseq, "good"))
      BY <2>1 DEF SrvReadMessage
    <3>2. Answer(code, "MESSAGE", Outgoing.cseq, "good").code # "auth"
      BY DEF Answer
    <3> QED
      BY <1>n, <3>1, <3>2, AppendAccepted
  <2>2. CASE ~SrvReadMessage
    BY <2>2 DEF SrvReads, SrvReadInvite, SrvReadAck, SrvReadCancel, SrvReadBye, SrvReadReply
  <2> QED
    BY <2>1, <2>2
<1>6. \A c \in srvUnacked' : c <= srvLast'
  BY <1>1, <1>2, <1>3, <1>4, <1>n DEF AnswerInv
<1>7. NothingLeft => NothingLeft'
  BY <1>2, <1>4 DEF NothingLeft
<1>8. ASSUME state \in Early PROVE LastInviteOnly'
  <2>1. LastInviteOnly
    BY <1>8 DEF AnswerInv
  <2>2. \A i \in 1..Len(toServer') : toServer'[i].m = "INVITE" => toServer'[i].cseq = branch
    BY <1>2, <2>1 DEF LastInviteOnly
  <2>3. CASE Outgoing.m = "INVITE"
    <3>1. srvInvite' = branch /\ srvLast < branch
      BY <1>2, <1>3, <1>4, <2>1, <2>3 DEF LastInviteOnly, Numbered
    <3>2. srvUnacked = {}
      BY <1>n, <2>1, <3>1 DEF AnswerInv, LastInviteOnly
    <3> QED
      BY <1>1, <1>4, <2>2, <3>1, <3>2 DEF LastInviteOnly, call
  <2>4. CASE Outgoing.m # "INVITE"
    BY <1>1, <1>4, <1>5, <2>1, <2>2, <2>4 DEF LastInviteOnly, call
  <2> QED
    BY <2>3, <2>4
<1> QED
  BY <1>1, <1>5, <1>6, <1>7, <1>8 DEF AnswerInv, call

\* The server writes: it answers the INVITE it has once, and may say so again.
LEMMA WriteKeepsAnswer ==
    ASSUME AnswerInv, ReinviteInv', SrvWrites
    PROVE  AnswerInv'
<1>n. /\ toServer \in Seq(ClientMsg) /\ toClient \in Seq(ServerMsg)
      /\ cseq \in Nat /\ branch \in Nat /\ srvLast \in Nat /\ srvInvite \in Nat /\ srvUnacked \in SUBSET Nat
      /\ Ordered(toServer, srvLast, cseq) /\ srvInvite <= srvLast
  BY DEF AnswerInv, ReinviteInv, GoodbyeInv, CSeqInv, TypeOK
<1>1. UNCHANGED <<call, transport, toServer, srvLast>>
  BY DEF SrvWrites, SrvProvisional, SrvAccept, SrvRefuse, SrvRetransmit, SrvRequest, SrvSend, srv
<1>2. PICK msg : toClient' = Append(toClient, msg) /\
        \/ UNCHANGED <<srvInvite, srvUnacked>> /\ ~(msg.kind = "response" /\ msg.code = "auth")
        \/ /\ srvInvite # 0 /\ srvInvite' = 0 /\ srvUnacked' = srvUnacked \union {srvInvite}
           /\ msg = Answer("2xx", "INVITE", srvInvite, msg.body)
        \/ srvInvite # 0 /\ srvInvite' = 0 /\ srvUnacked' = srvUnacked
  <2>1. CASE SrvAccept
    <3>1. PICK body \in {"good", "bad"} :
            toClient' = Append(toClient, Answer("2xx", "INVITE", srvInvite, body))
      BY <2>1 DEF SrvAccept, SrvSend
    <3>2. Answer("2xx", "INVITE", srvInvite, body).body = body
      BY DEF Answer
    <3> QED
      BY <2>1, <3>1, <3>2 DEF SrvAccept
  <2>2. CASE SrvRefuse
    BY <2>2 DEF SrvRefuse, SrvSend
  <2>3. CASE SrvProvisional
    BY <2>3 DEF SrvProvisional, SrvSend, srv, Answer
  <2>4. CASE SrvRetransmit
    <3>1. PICK c \in srvUnacked : toClient' = Append(toClient, Answer("2xx", "INVITE", c, "good"))
      BY <2>4 DEF SrvRetransmit, SrvSend
    <3>2. Answer("2xx", "INVITE", c, "good").code = "2xx"
      BY DEF Answer
    <3> QED
      BY <2>4, <3>1, <3>2 DEF SrvRetransmit, srv
  <2>5. CASE SrvRequest
    <3>1. PICK m : toClient' = Append(toClient, [kind |-> "request", m |-> m])
      BY <2>5 DEF SrvRequest, SrvSend
    <3>2. [kind |-> "request", m |-> m].kind = "request"
      OBVIOUS
    <3> QED
      BY <2>5, <3>1, <3>2 DEF SrvRequest
  <2> QED
    BY <2>1, <2>2, <2>3, <2>4, <2>5 DEF SrvWrites
<1>3. /\ \A c : Accepted(toClient, c) => Accepted(toClient', c)
      /\ Challenged(toClient') => Challenged(toClient) \/ (msg.kind = "response" /\ msg.code = "auth")
  BY <1>2, <1>n, AppendAccepted
<1>4. \A c \in srvUnacked' : c <= srvLast'
  BY <1>1, <1>2, <1>n DEF AnswerInv
<1>5. ASSUME srvInvite # 0
      PROVE  /\ ~NothingLeft
             /\ state \in Early => srvUnacked = {} /\ \A i \in 1..Len(toServer) : toServer[i].m # "INVITE"
  <2>1. state \in Early => srvInvite = branch /\ srvUnacked = {}
    BY <1>5 DEF AnswerInv, LastInviteOnly
  <2>2. ASSUME state \in Early, NEW i \in 1..Len(toServer), toServer[i].m = "INVITE" PROVE FALSE
    <3>1. toServer[i].cseq = branch
      BY <2>2 DEF AnswerInv, LastInviteOnly
    <3>2. srvLast < toServer[i].cseq
      BY <1>n, <2>2 DEF Ordered, Numbered
    <3> QED
      BY <1>n, <2>1, <2>2, <3>1, <3>2
  <2> QED
    BY <1>5, <2>1, <2>2 DEF NothingLeft
<1>6. ASSUME state \in Early PROVE LastInviteOnly'
  <2>1. LastInviteOnly
    BY <1>6 DEF AnswerInv
  <2>2. CASE UNCHANGED <<srvInvite, srvUnacked>>
    BY <1>1, <1>3, <2>1, <2>2 DEF LastInviteOnly, call
  <2>3. CASE /\ srvInvite # 0 /\ srvInvite' = 0 /\ srvUnacked' = srvUnacked \union {srvInvite}
             /\ msg = Answer("2xx", "INVITE", srvInvite, msg.body)
    <3>1. srvInvite = branch /\ srvUnacked = {}
      BY <1>5, <1>6, <2>1, <2>3 DEF LastInviteOnly
    <3>2. Accepted(toClient', srvInvite)
      BY <1>2, <1>n, <2>3, AppendAccepted DEF Answer
    <3> QED
      BY <1>1, <2>1, <2>3, <3>1, <3>2 DEF LastInviteOnly, call
  <2>4. CASE srvInvite # 0 /\ srvInvite' = 0 /\ srvUnacked' = srvUnacked
    BY <1>1, <1>5, <1>6, <2>1, <2>4 DEF LastInviteOnly, call
  <2> QED
    BY <1>2, <2>2, <2>3, <2>4
<1>7. state = "IDLE" => NothingLeft' /\ ~Challenged(toClient')
  <2> SUFFICES ASSUME state = "IDLE" PROVE NothingLeft' /\ ~Challenged(toClient')
    OBVIOUS
  <2>1. NothingLeft /\ ~Challenged(toClient)
    BY DEF AnswerInv
  <2>2. srvInvite = 0
    BY <2>1 DEF NothingLeft
  <2> QED
    BY <1>1, <1>2, <1>3, <2>1, <2>2 DEF NothingLeft
<1>8. ASSUME state = "INVITING", Challenged(toClient') PROVE NothingLeft'
  <2>1. CASE UNCHANGED <<srvInvite, srvUnacked>> /\ ~(msg.kind = "response" /\ msg.code = "auth")
    BY <1>1, <1>3, <1>8, <2>1 DEF AnswerInv, NothingLeft
  <2>2. CASE srvInvite # 0 /\ srvInvite' = 0
    <3>1. srvUnacked = {} /\ \A i \in 1..Len(toServer) : toServer[i].m # "INVITE"
      BY <1>5, <1>8, <2>2 DEF Early
    <3>2. ~Challenged(toClient)
      BY <1>5, <1>8, <2>2 DEF AnswerInv
    <3>3. msg.kind = "response" /\ msg.code = "auth"
      BY <1>3, <1>8, <3>2
    <3>4. srvUnacked' = srvUnacked
      BY <1>2, <2>2, <3>3 DEF Answer
    <3> QED
      BY <1>1, <2>2, <3>1, <3>4 DEF NothingLeft
  <2> QED
    BY <1>2, <2>1, <2>2
<1> QED
  BY <1>1, <1>4, <1>6, <1>7, <1>8 DEF AnswerInv, call

\* AnswerInv is inductive.
LEMMA NextAnswerInv == AnswerInv /\ [Next]_vars => AnswerInv'
<1> SUFFICES ASSUME AnswerInv, [Next]_vars PROVE AnswerInv'
  OBVIOUS
<1>i. ReinviteInv /\ ReinviteInv'
  BY NextReinviteInv DEF AnswerInv
<1>n. /\ toServer \in Seq(ClientMsg) /\ toClient \in Seq(ServerMsg)
      /\ cseq \in Nat /\ branch \in Nat /\ cseq' \in Nat /\ branch' \in Nat
      /\ media \in {"none", "audio", "video"}
  BY <1>i DEF ReinviteInv, GoodbyeInv, CSeqInv, TypeOK
<1> USE DEF Early, Live
\* A step that ends the dialling, or comes after it.
<1>a. ASSUME UNCHANGED srv, state' \notin Early \union {"IDLE"} PROVE AnswerInv'
  BY <1>a, <1>i DEF AnswerInv, srv
\* A step that dials no further, and reads at most what is no answer.
<1>b. ASSUME UNCHANGED <<call, srv>>,
             \/ toServer' = toServer
             \/ \E msg \in ClientMsg : msg.m # "INVITE" /\ state # "IDLE" /\ toServer' = Send(toServer, msg),
             \/ toClient' = toClient
             \/ /\ toClient # << >> /\ toClient' = Tail(toClient)
                /\ state # "CONFIRMED" => ~(Head(toClient).kind = "response" /\ Head(toClient).code = "2xx")
      PROVE  AnswerInv'
  <2>1. \A i \in 1..Len(toServer') : toServer'[i].m = "INVITE" =>
            i \in 1..Len(toServer) /\ toServer'[i] = toServer[i]
    BY <1>b, <1>n, SendAdds
  <2>2. Challenged(toClient') => Challenged(toClient)
    BY <1>b, <1>n, TailAccepted
  <2>3. state # "CONFIRMED" => \A c : Accepted(toClient, c) => Accepted(toClient', c)
    BY <1>b, <1>n, TailAccepted
  <2>4. NothingLeft => NothingLeft'
    BY <1>b, <2>1 DEF NothingLeft, srv
  <2>5. state \in Early => LastInviteOnly'
    BY <1>b, <2>1, <2>3 DEF AnswerInv, LastInviteOnly, srv, call
  <2> QED
    BY <1>b, <1>i, <2>2, <2>4, <2>5 DEF AnswerInv, srv, call
<1>1. CASE Call
  <2> DEFINE msg == Msg("INVITE", cseq, branch, media)
  <2>1. msg \in ClientMsg /\ msg.cseq = cseq /\ cseq = branch
    BY <1>1, <1>i, <1>n, MsgType DEF Msg, Numbered, Call, ReinviteInv, GoodbyeInv
  <2> HIDE DEF msg
  <2>2. toServer' = Send(toServer, msg) /\ UNCHANGED <<cseq, branch, toClient, srv>> /\ state' = "INVITING"
    BY <1>1 DEF Call, msg
  <2>3. NothingLeft /\ ~Challenged(toClient)
    BY <1>1 DEF AnswerInv, Call
  <2>4. \A i \in 1..Len(toServer') : toServer'[i].m = "INVITE" => toServer'[i].cseq = branch
    BY <1>n, <2>1, <2>2, <2>3, SendAdds DEF NothingLeft
  <2> QED
    BY <1>i, <2>2, <2>3, <2>4 DEF AnswerInv, LastInviteOnly, NothingLeft, srv
<1>2. CASE SendInDialogMessage \/ SendReinviteAudioOnly
  BY <1>2, <1>a DEF SendInDialogMessage, SendReinviteAudioOnly
<1>3. CASE HangUpConfirmed \/ HangUpEarly
  BY <1>3, <1>a DEF HangUpConfirmed, HangUpEarly, Terminate
<1>4. CASE CloseTransport
  BY <1>4, <1>b DEF CloseTransport
<1>5. CASE ConnectionLost
  <2>1. CASE state \in Live
    BY <1>5, <1>a, <2>1 DEF ConnectionLost
  <2>2. CASE state = "IDLE"
    <3>1. NothingLeft /\ UNCHANGED <<srv, state, branch>> /\ toClient' = << >>
      BY <1>5, <2>2 DEF ConnectionLost, AnswerInv
    <3>2. NothingLeft'
      BY <1>5, <3>1 DEF ConnectionLost, NothingLeft, srv
    <3>3. ~Challenged(toClient')
      BY <3>1 DEF Challenged
    <3> QED
      BY <1>i, <2>2, <3>1, <3>2, <3>3 DEF AnswerInv, srv
  <2>3. CASE state \notin Live \union {"IDLE"}
    BY <1>5, <1>a, <2>3 DEF ConnectionLost
  <2> QED
    BY <2>1, <2>2, <2>3
<1>6. CASE Dispatch
  <2>0. Receive => state \in Live /\ toClient # << >> /\ toClient' = Tail(toClient) /\ UNCHANGED srv
    BY DEF Receive
  <2>1. CASE RecvIgnored
    BY <1>b, <2>0, <2>1 DEF RecvIgnored, IsResponse, IsRequest, Incoming
  <2>2. CASE RecvChallenge
    <3> DEFINE msg == Msg("INVITE", cseq', branch', media)
    <3>1. msg \in ClientMsg /\ msg.cseq = branch' /\ branch' = cseq'
      BY <1>n, <2>2, MsgType DEF Msg, Numbered, RecvChallenge
    <3> HIDE DEF msg
    <3>2. /\ toServer' = Send(Send(toServer, Ack), msg)
          /\ state = "INVITING" /\ state' = "AUTHENTICATING"
          /\ Head(toClient).kind = "response" /\ Head(toClient).code = "auth"
      BY <2>2 DEF RecvChallenge, IsChallenge, IsResponse, Incoming, msg
    <3>3. NothingLeft
      BY <1>n, <2>0, <2>2, <3>2, TailAccepted DEF AnswerInv, RecvChallenge
    <3>4. Ack \in ClientMsg /\ Ack.m = "ACK"
      BY <1>n, MsgType DEF Ack, Msg, Numbered
    <3>5. \A i \in 1..Len(Send(toServer, Ack)) : Send(toServer, Ack)[i].m # "INVITE"
      BY <1>n, <3>3, <3>4, SendAdds DEF NothingLeft
    <3>6. \A i \in 1..Len(toServer') : toServer'[i].m = "INVITE" => toServer'[i].cseq = branch'
      <4> DEFINE q == Send(toServer, Ack)
      <4>1. q \in Seq(ClientMsg)
        BY <1>n, <3>4, SendType
      <4>2. \A i \in 1..Len(Send(q, msg)) :
                Send(q, msg)[i] = msg \/ (i \in 1..Len(q) /\ Send(q, msg)[i] = q[i])
        BY <3>1, <4>1, SendAdds
      <4> HIDE DEF q
      <4>3. toServer' = Send(q, msg) /\ \A i \in 1..Len(q) : q[i].m # "INVITE"
        BY <3>2, <3>5 DEF q
      <4> QED
        BY <3>1, <4>2, <4>3
    <3> QED
      BY <1>i, <2>0, <2>2, <3>2, <3>3, <3>6 DEF AnswerInv, RecvChallenge, LastInviteOnly, NothingLeft, srv
  <2>3. CASE RecvBadChallenge \/ RecvOkBadSdp \/ RecvFinalFailure \/ RecvBye
    BY <1>a, <2>0, <2>3 DEF RecvBadChallenge, RecvOkBadSdp, RecvFinalFailure, RecvBye, Terminate
  <2>4. CASE RecvOk \/ RecvOkAgain \/ RecvReinviteRefused
    BY <1>a, <2>0, <2>4 DEF RecvOk, RecvOkAgain, RecvReinviteRefused
  <2>5. CASE RecvRefreshOrMessage
    <3> DEFINE msg == Msg("200", 0, 0, IF Incoming.m = "INVITE" THEN media ELSE "none")
    <3>1. msg \in ClientMsg /\ msg.m # "INVITE"
      BY <1>n, MsgType DEF Msg, Numbered
    <3> HIDE DEF msg
    <3>2. /\ Receive /\ toServer' = Send(toServer, msg) /\ UNCHANGED call
          /\ Head(toClient).kind # "response"
      BY <2>5 DEF RecvRefreshOrMessage, IsRequest, Incoming, msg
    <3> QED
      BY <1>b, <2>0, <3>1, <3>2
  <2> QED
    BY <1>6, <2>1, <2>2, <2>3, <2>4, <2>5 DEF Dispatch
<1>7. CASE SrvReads
  BY <1>7, <1>i, ReadKeepsAnswer
<1>8. CASE SrvWrites
  BY <1>8, <1>i, WriteKeepsAnswer
<1>9. CASE UNCHANGED vars
  BY <1>9, <1>b DEF vars
<1> QED
  BY <1>1, <1>2, <1>3, <1>4, <1>5, <1>6, <1>7, <1>8, <1>9 DEF Next, Manager

\* The step that establishes a call acknowledges the INVITE it was placed with.
LEMMA EstablishAcks == AnswerInv /\ [Next]_vars => AckFollows
<1> SUFFICES ASSUME AnswerInv, [Next]_vars, established' # established, NEW c \in srvUnacked
             PROVE  Acks(toServer', c)
  BY DEF AckFollows
<1>n. /\ toServer \in Seq(ClientMsg) /\ cseq \in Nat /\ branch \in Nat
  BY DEF AnswerInv, ReinviteInv, GoodbyeInv, CSeqInv, TypeOK
<1>1. RecvOk
  <2>1. CASE Manager \/ ConnectionLost
    BY <2>1 DEF Manager, Call, SendInDialogMessage, SendReinviteAudioOnly, HangUpConfirmed, HangUpEarly,
         CloseTransport, ConnectionLost, callbacks
  <2>2. CASE Dispatch
    BY <2>2 DEF Dispatch, RecvIgnored, RecvChallenge, RecvBadChallenge, RecvOkBadSdp, RecvOkAgain,
         RecvReinviteRefused, RecvFinalFailure, RecvBye, RecvRefreshOrMessage, callbacks
  <2>3. CASE SrvReads \/ SrvWrites
    BY <2>3 DEF SrvReads, SrvRead, SrvReadInvite, SrvReadAck, SrvReadMessage, SrvReadCancel,
         SrvReadBye, SrvReadReply, SrvWrites, SrvProvisional, SrvAccept, SrvRefuse, SrvRetransmit,
         SrvRequest, SrvSend, callbacks
  <2>4. CASE UNCHANGED vars
    BY <2>4 DEF vars, callbacks
  <2> QED
    BY <2>1, <2>2, <2>3, <2>4 DEF Next
<1>2. c = branch /\ cseq = branch /\ transport = "open" /\ toServer' = Send(toServer, Ack)
  BY <1>1 DEF RecvOk, Receive, AnswerInv, LastInviteOnly, ReinviteInv, GoodbyeInv
<1>3. Ack \in ClientMsg /\ Ack.m = "ACK" /\ Ack.cseq = cseq
  BY <1>n, MsgType DEF Ack, Msg, Numbered
<1> QED
  BY <1>2, <1>3, <1>n, SendAdds DEF Acks

\* The INVITE that places the call is not left waiting for its ACK: until the
\* client takes the answer in, it is on its way, and the step that takes it in
\* writes an ACK with the number of that INVITE, challenged or not.
THEOREM AnswerAlwaysAcked == Spec => []AnswerTravels /\ [][AckFollows]_vars
<1>1. Init => AnswerInv
  BY InitGoodbyeInv DEF Init, AnswerInv, ReinviteInv, InvitesUpTo, Awaited, NothingLeft, Challenged, Early
<1>2. AnswerInv => AnswerTravels
  BY DEF AnswerInv, LastInviteOnly, AnswerTravels
<1> QED
  BY <1>1, <1>2, NextAnswerInv, EstablishAcks, PTL DEF Spec
-----------------------------------------------------------------------------
(***************************************************************************)
(* The client implements Dialog.  Under Stage a step of the client places, *)
(* answers, closes or ends the call, or leaves it where it is; that an     *)
(* answer finds a call that was never answered, and an end one that never  *)
(* ended, is CallbacksPaired.                                              *)
(***************************************************************************)
LEMMA StepKeepsPromise ==
  TypeOK /\ CallbacksPaired /\ [Next]_vars => [Promise!Next]_(Promise!vars)
<1> SUFFICES ASSUME TypeOK, CallbacksPaired, [Next]_vars
             PROVE  Promise!Next \/ UNCHANGED <<Stage, ended>>
  BY DEF Promise!vars
<1> USE DEF Early, Live
\* A step that ends a live call, and one that leaves the call where it is.
<1>a. ASSUME state \in Live, state' = "TERMINATED", ended' = ended + 1 PROVE Promise!End
  <2>1. Stage \in {"inviting", "confirmed", "closing"}
    BY <1>a DEF Stage
  <2>2. Stage' = "over"
    BY <1>a DEF Stage
  <2> QED
    BY <1>a, <2>1, <2>2 DEF Promise!End, Promise!Open
<1>b. ASSUME UNCHANGED <<callbacks, transport>>,
             state' = state \/ (state \in Early /\ state' \in Early)
      PROVE  UNCHANGED <<Stage, ended>>
  BY <1>b DEF Stage, callbacks
<1>e. Terminate => state' = "TERMINATED" /\ ended' = ended + 1
  BY DEF Terminate
<1>1. CASE Manager
  <2>1. CASE Call
    <3>1. state = "IDLE" /\ transport = "open" /\ state' = "INVITING"
          /\ UNCHANGED <<established, ended, transport>>
      BY <2>1 DEF Call, callbacks
    <3>2. established = 0
      BY <3>1 DEF CallbacksPaired
    <3>3. Stage = "idle" /\ Stage' = "inviting"
      BY <3>1, <3>2 DEF Stage
    <3> QED
      BY <3>1, <3>3 DEF Promise!Next, Promise!Place
  <2>2. CASE SendInDialogMessage
    BY <2>2, <1>b DEF SendInDialogMessage
  <2>3. CASE SendReinviteAudioOnly
    BY <2>3, <1>b DEF SendReinviteAudioOnly
  <2>4. CASE HangUpConfirmed
    BY <2>4, <1>a, <1>e DEF HangUpConfirmed, Promise!Next
  <2>5. CASE HangUpEarly
    BY <2>5, <1>a, <1>e DEF HangUpEarly, Promise!Next
  <2>6. CASE CloseTransport
    <3>1. transport = "open" /\ transport' = "closing" /\ UNCHANGED <<state, established, ended>>
      BY <2>6 DEF CloseTransport, call, callbacks
    <3>2. CASE state \in {"IDLE", "TERMINATED"}
      BY <3>1, <3>2 DEF Stage
    <3>3. CASE state \in Live
      <4>1. Stage \in {"inviting", "confirmed"} /\ Stage' = "closing"
        BY <3>1, <3>3 DEF Stage
      <4> QED
        BY <3>1, <4>1 DEF Promise!Next, Promise!Close, Promise!Open
    <3> QED
      BY <3>2, <3>3 DEF TypeOK, States
  <2> QED
    BY <1>1, <2>1, <2>2, <2>3, <2>4, <2>5, <2>6 DEF Manager
<1>2. CASE ConnectionLost
  <2>1. CASE state \in Live
    BY <1>2, <2>1, <1>a DEF ConnectionLost, HasCall, Promise!Next
  <2>2. CASE state \notin Live
    <3>1. state \in {"IDLE", "TERMINATED"} /\ state' = state /\ ended' = ended
      BY <1>2, <2>2 DEF ConnectionLost, HasCall, TypeOK, States
    <3> QED
      BY <3>1 DEF Stage
  <2> QED
    BY <2>1, <2>2
<1>3. CASE Dispatch
  <2>0. Receive => state \in Live /\ transport = "open"
    BY DEF Receive, HasCall
  <2>1. CASE RecvIgnored
    BY <2>1, <1>b DEF RecvIgnored, call
  <2>2. CASE RecvChallenge
    BY <2>2, <1>b DEF RecvChallenge, IsChallenge
  <2>3. CASE RecvBadChallenge
    BY <2>0, <2>3, <1>a, <1>e DEF RecvBadChallenge, Promise!Next
  <2>4. CASE RecvOk
    <3>1. state \in Early /\ state' = "CONFIRMED" /\ transport = "open" /\ established' = established + 1
          /\ UNCHANGED <<ended, transport>>
      BY <2>0, <2>4 DEF RecvOk
    <3>2. established = 0
      BY <3>1 DEF CallbacksPaired
    <3>3. Stage = "inviting" /\ Stage' = "confirmed"
      BY <3>1, <3>2 DEF Stage
    <3> QED
      BY <3>1, <3>3 DEF Promise!Next, Promise!Establish
  <2>5. CASE RecvOkBadSdp
    BY <2>0, <2>5, <1>a, <1>e DEF RecvOkBadSdp, Promise!Next
  <2>6. CASE RecvOkAgain
    BY <2>6, <1>b DEF RecvOkAgain
  <2>7. CASE RecvReinviteRefused
    BY <2>7, <1>b DEF RecvReinviteRefused
  <2>8. CASE RecvFinalFailure
    BY <2>0, <2>8, <1>a, <1>e DEF RecvFinalFailure, Promise!Next
  <2>9. CASE RecvBye
    BY <2>0, <2>9, <1>a, <1>e DEF RecvBye, Promise!Next
  <2>10. CASE RecvRefreshOrMessage
    BY <2>10, <1>b DEF RecvRefreshOrMessage, call
  <2> QED
    BY <1>3, <2>1, <2>2, <2>3, <2>4, <2>5, <2>6, <2>7, <2>8, <2>9, <2>10 DEF Dispatch
<1>4. CASE SrvReads
  <2>1. UNCHANGED <<callbacks, transport>> /\ state' = state
    BY <1>4 DEF SrvReads, SrvRead, SrvReadInvite, SrvReadAck, SrvReadMessage,
                SrvReadCancel, SrvReadBye, SrvReadReply, call
  <2> QED
    BY <2>1, <1>b
<1>5. CASE SrvWrites
  <2>1. UNCHANGED <<callbacks, transport>> /\ state' = state
    BY <1>5 DEF SrvWrites, SrvSend, SrvProvisional, SrvAccept, SrvRefuse,
                SrvRetransmit, SrvRequest, call
  <2> QED
    BY <2>1, <1>b
<1>6. CASE UNCHANGED vars
  BY <1>6, <1>b DEF vars, call
<1> QED
  BY <1>1, <1>2, <1>3, <1>4, <1>5, <1>6 DEF Next

\* The client implements the dialog that the call manager relies on.
THEOREM KeepsThePromise == Spec => ImplementsDialog
<1>1. Init => Promise!Init
  BY DEF Init, Stage, Promise!Init
<1>2. TypeOK /\ CallbacksPaired /\ [Next]_vars => [Promise!Next]_(Promise!vars)
  BY StepKeepsPromise
<1> QED
  BY <1>1, <1>2, TypeCorrect, CallbacksAlwaysPaired, PTL DEF Spec, ImplementsDialog, Promise!Spec
=============================================================================
