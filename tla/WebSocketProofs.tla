--------------------------- MODULE WebSocketProofs ---------------------------
(***************************************************************************)
(* Proofs about WebSocket, for every set of peer frames, every bound, every *)
(* width of usize, with and without faults and dropped calls.               *)
(***************************************************************************)
EXTENDS WebSocket, FrameControllerProofs

-----------------------------------------------------------------------------
(* The inductive invariant. *)

\* What a suspended call holds, and the error close() keeps for its caller while
\* it aborts the socket.
Shape ==
  /\ FShape
  /\ pc = "inner_abort" /\ op = "close" => ret \in Results \ {"Ok"}

\* Where the evidence for WsClosed comes from: the flag of send_close, and the
\* Close header send_back is answering.
CloseEvidence ==
  /\ is_wait_for_close_response => CloseSent
  /\ pc \in {"echo_recv", "echo_send"} /\ fhdr.type = "Close" => CloseReceived
  /\ pc = "ret" /\ fret = "ClosedByPeer" => CloseSent /\ CloseReceived /\ inner = "open"
  /\ HandshakeBothWays

\* An unfinished frame has been reported, or its report is on the way and
\* nothing is written before it arrives.
CutReported ==
  /\ outstate # "clean" =>
       \/ errored
       \/ pc = "ret" /\ fret = "Socket"
       \/ pc = "inner_abort" /\ op = "close"
  /\ TornIsReported

ClosingOps == {"close", "close_handshake"}

\* Which method is suspended at which await, and in which state of the WebSocket.
CallShape ==
  /\ pc \in FPcs =>
       \/ fcall \in {"wait_data", "payload"} /\ op \in {"wait_message", "read"} /\ Ready
       \/ fcall \in {"send_close", "process"} /\ op \in ClosingOps
  /\ pc = "write" => op = "write" /\ Ready
  /\ pc = "flush" => op \in {"flush"} \cup ClosingOps
  /\ pc = "inner_close" => op = "close"
  /\ pc = "inner_abort" => op \in {"close", "abort"}
  /\ pc = "idle" => op = None
  /\ op \in ClosingOps => closing
  /\ ~is_wait_for_pong

\* Once a Close is out, and unless a call has failed, the WebSocket is not Ready,
\* or the call that sent the Close has not returned yet.
SilentInv ==
  /\ CloseSent /\ ~errored =>
       ~Ready \/ op \in ClosingOps \/ (pc = "ret" /\ fret = "ClosedByPeer")
  /\ SilentAfterClose

\* A failure is on its way to the application.
Reporting ==
  \/ pc = "ret" /\ fret \notin {"Ok", "ClosedByPeer"}
  \/ pc = "inner_abort" /\ op = "close"

\* The header send_back serves is the one read last, and every Ping before it has
\* its Pong.
EchoInv ==
  /\ pc \in {"echo_recv", "echo_send"} => rcvd # <<>> /\ rcvd[Len(rcvd)] = fhdr
  /\ pc = "echo_send" => fhdr.len <= MaxControlPayload
  /\ ~errored /\ ~Reporting => \E answer \in [Served -> Pongs] : Answers(answer)

\* Framing is kept until a call fails or the application begins to close.
FramingKeptInv == InboxWhole /\ (errored \/ closing \/ Failing \/ Aligned)

IInv ==
  /\ TypeOK /\ Shape /\ CloseEvidence /\ CutReported /\ ClosedIsShut
  /\ CallShape /\ SilentInv /\ EchoInv

-----------------------------------------------------------------------------
(* The steps of WebSocket, with a peer that sends any frame at all: what is *)
(* proved of them holds of every client that a specification composes it with. *)

AnyPeer == ((\E f \in Frame : Transmit(f)) \/ EndOfStream) /\ UNCHANGED <<fvars, wvars>>

OpenNext == ServerStep \/ AppCall \/ Cancel \/ AnyPeer

\* The arbitrary peer of WebSocket is one of them.
LEMMA NextIsOpen == [Next]_vars => [OpenNext]_vars
BY TransportAssumption DEF Next, OpenNext, PeerStep, PeerSends, PeerEnds, AnyPeer

-----------------------------------------------------------------------------
(* The methods of WebSocket keep the types. *)

\* The mapped error of a failed frame operation is a result.
LEMMA WsErrors == \A e : ToWsError(e) \in Results \ {"Ok"}
BY DEF ToWsError, Results

\* How a method ends keeps the types of what it assigns.
LEMMA FinishTypes ==
  ASSUME FTypeOK, NEW r \in Results \cup {None}, Finish(r), reader' \in Reader \cup {None},
         send_frame_type \in MessageTypes, closing \in BOOLEAN
  PROVE  /\ FTypeOK' /\ pc' \in WPcs
         /\ send_frame_type' \in MessageTypes
         /\ op' \in Ops \cup {None} /\ ret' \in Results \cup {None}
         /\ closing' \in BOOLEAN
<1>1. errored' \in BOOLEAN
  BY Zenon DEF Finish
<1> QED BY <1>1 DEF Finish, Forget, FTypeOK, WPcs

\* Every server step of web_socket/mod.rs keeps the types.
LEMMA WStepTypes ==
  ASSUME TypeOK, Shape, WStep
  PROVE  TypeOK'
<1> USE DEF TypeOK
<1>1. CASE WaitReturns
  <2>1. socket_state' \in SocketStates /\ TTypeOK' /\ UNCHANGED reader
    BY <1>1, TransportTypes DEF TransportStep, WaitReturns, StateAfterWait, SocketStates
  <2>2. PICK r \in Results : Finish(r)
    BY <1>1, WsErrors DEF WaitReturns, Results
  <2> QED BY <2>1, <2>2, FinishTypes DEF FTypeOK
<1>2. CASE ReadGoesOn
  BY <1>2, TransportTypes
  DEF TransportStep, ReadGoesOn, Enter, FTypeOK, WPcs, FPcs, FCalls, wvars
<1>3. CASE ReadReturns
  <2>1. UNCHANGED socket_state /\ TTypeOK' /\ reader' \in Reader \cup {None}
    BY <1>3, TransportTypes DEF TransportStep, ReadReturns, FTypeOK
  <2>2. PICK r \in Results : Finish(r)
    BY <1>3, WsErrors DEF ReadReturns, Results
  <2> QED BY <2>1, <2>2, FinishTypes DEF FTypeOK
<1>4. CASE WriteSends
  <2>1. [type |-> send_frame_type, len |-> buflen] \in OutFrame
    BY DEF FTypeOK, OutFrame, FrameTypes, MessageTypes
  <2>2. TTypeOK' /\ UNCHANGED <<reader, socket_state>> /\ Finish("Ok")
    BY <1>4, <2>1, TransportTypes DEF TransportStep, WriteSends
  <2> QED BY <2>2, FinishTypes DEF FTypeOK, Results
<1>5. CASE FlushDone
  <2>1. TTypeOK' /\ UNCHANGED <<reader, socket_state>> /\ Finish("Ok")
    BY <1>5, TransportTypes DEF TransportStep, FlushDone
  <2> QED BY <2>1, FinishTypes DEF FTypeOK, Results
<1>6. CASE HandshakeFlushes \/ HandshakeWaits
  BY <1>6, TransportTypes
  DEF TransportStep, HandshakeFlushes, HandshakeWaits, GoOn, Enter, FTypeOK, WPcs, FPcs, FCalls
<1>7. CASE HandshakeSucceeds
  <2>1. TTypeOK' /\ socket_state' \in SocketStates
    BY <1>7, TransportTypes DEF TransportStep, HandshakeSucceeds, SocketStates
  <2>2. CASE op = "close"
    BY <1>7, <2>1, <2>2 DEF HandshakeSucceeds, GoOn, Enter, FTypeOK, WPcs
  <2>3. CASE op # "close"
    <3>1. Finish("Ok") /\ UNCHANGED reader
      BY <1>7, <2>3 DEF HandshakeSucceeds
    <3> QED BY <2>1, <3>1, FinishTypes DEF FTypeOK, Results
  <2> QED BY <2>2, <2>3
<1>8. ASSUME NEW e \in Results, HandshakeFailure(e), UNCHANGED tvars
      PROVE  TypeOK'
  <2>1. TTypeOK' /\ UNCHANGED socket_state
    BY <1>8, TransportTypes DEF TransportStep, HandshakeFailure
  <2>2. CASE op = "close"
    BY <1>8, <2>1, <2>2 DEF HandshakeFailure, GoOn, Enter, FTypeOK, WPcs
  <2>3. CASE op # "close"
    <3>1. Finish(e) /\ UNCHANGED reader
      BY <1>8, <2>3 DEF HandshakeFailure
    <3> QED BY <2>1, <3>1, FinishTypes DEF FTypeOK
  <2> QED BY <2>2, <2>3
<1>9. CASE HandshakeFails
  BY <1>8, <1>9, WsErrors DEF HandshakeFails
<1>10. CASE InnerCloses
  <2>1. TTypeOK' /\ UNCHANGED reader /\ Finish("Ok") /\ socket_state' \in SocketStates
    BY <1>10, TransportTypes DEF TransportStep, InnerCloses, SocketStates
  <2> QED BY <2>1, FinishTypes DEF FTypeOK, Results
<1>11. CASE InnerAborts
  <2>1. TTypeOK' /\ UNCHANGED reader /\ socket_state' \in SocketStates
    BY <1>11, TransportTypes DEF TransportStep, InnerAborts, SocketStates
  <2>2. PICK r \in Results \cup {None} : Finish(r)
    BY <1>11 DEF InnerAborts, Results
  <2> QED BY <2>1, <2>2, FinishTypes DEF FTypeOK
<1>12. CASE WsSocketFails
  <2>1. TTypeOK'
    BY <1>12, TransportTypes DEF TransportStep, WsSocketFails, WsInterrupt
  <2>2. CASE pc = "flush" /\ op # "flush"
    BY <1>8, <1>12, <2>2 DEF WsSocketFails, WsInterrupt, Results
  <2>3. CASE ~(pc = "flush" /\ op # "flush")
    <3>1. Finish("Socket") /\ UNCHANGED <<reader, socket_state>>
      BY <1>12, <2>3 DEF WsSocketFails
    <3> QED BY <2>1, <3>1, FinishTypes DEF FTypeOK, Results
  <2> QED BY <2>2, <2>3
<1> QED
  BY <1>1, <1>2, <1>3, <1>4, <1>5, <1>6, <1>7, <1>9, <1>10, <1>11, <1>12 DEF WStep

\* A method that answers at once.
LEMMA ReplyTypes ==
  ASSUME TypeOK, NEW r \in Results, Reply(r)
  PROVE  TypeOK'
BY TransportTypes DEF TransportStep, Reply, TypeOK, FTypeOK, fvars

\* A method that enters its first await.
LEMMA BeginTypes ==
  ASSUME TypeOK, NEW o \in Ops, Begin(o), pc' \in WPcs, fcall' \in FCalls \cup {None},
         fret' \in {"Ok", None}, buflen' \in Nat, closing' \in BOOLEAN
  PROVE  TypeOK'
BY TransportTypes DEF TransportStep, Begin, TypeOK, FTypeOK

\* Every call of the application keeps the types.
LEMMA AppCallTypes ==
  ASSUME TypeOK, AppCall
  PROVE  TypeOK'
<1> USE DEF Enter, WPcs, FPcs, FCalls, Ops
<1>0. {"Ok", "ConnectionReset", "Socket"} \subseteq Results
  BY DEF Results
<1>1. CASE WaitMessageCall
  BY <1>0, <1>1, ReplyTypes, BeginTypes DEF WaitMessageCall, TypeOK, FTypeOK
<1>2. ASSUME NEW b \in BufSizes, ReadCall(b)
      PROVE  TypeOK'
  BY <1>0, <1>2, ReplyTypes, BeginTypes, CallerAssumption DEF ReadCall, TypeOK
<1>3. ASSUME NEW b \in BufSizes, WriteCall(b)
      PROVE  TypeOK'
  BY <1>0, <1>3, ReplyTypes, BeginTypes, CallerAssumption DEF WriteCall, TypeOK
<1>4. CASE FlushCall
  BY <1>0, <1>4, ReplyTypes, BeginTypes DEF FlushCall, TypeOK, FTypeOK
<1>5. CASE ReadyProbe
  BY <1>0, <1>5, ReplyTypes DEF ReadyProbe
<1>6. ASSUME NEW t \in MessageTypes, SetSendFrameType(t)
      PROVE  TypeOK'
  BY <1>6, TransportTypes DEF TransportStep, SetSendFrameType, TypeOK, FTypeOK, fvars
<1>7. ASSUME NEW o \in Ops, HandshakeCall(o)
      PROVE  TypeOK'
  <2>1. closing' \in BOOLEAN
    BY <1>7, Zenon DEF HandshakeCall
  <2>2. pc' \in WPcs /\ fcall' \in FCalls /\ fret' \in {"Ok", None} /\ UNCHANGED buflen
    BY <1>7 DEF HandshakeCall, EnterSend, SendCloseEntry
  <2> QED BY <1>7, <2>1, <2>2, BeginTypes DEF HandshakeCall, TypeOK, FTypeOK
<1>8. CASE CloseHandshakeCall
  BY <1>7, <1>8 DEF CloseHandshakeCall
<1>9. CASE CloseCall
  BY <1>0, <1>7, <1>9, ReplyTypes DEF CloseCall
<1>10. CASE AbortCall
  BY <1>0, <1>10, ReplyTypes, BeginTypes DEF AbortCall, TypeOK, FTypeOK
<1> QED BY <1>1, <1>2, <1>3, <1>4, <1>5, <1>6, <1>8, <1>9, <1>10 DEF AppCall

\* Every step keeps the types.
LEMMA StepTypes ==
  ASSUME TypeOK, Shape, [OpenNext]_vars
  PROVE  TypeOK'
<1>1. CASE WStep
  BY <1>1, WStepTypes
<1>2. CASE FStep /\ UNCHANGED wvars
  BY <1>2, FStepTypes DEF TypeOK, Shape, WPcs, wvars
<1>3. CASE AppCall
  BY <1>3, AppCallTypes
<1>4. CASE Cancel
  <2>1. TTypeOK'
    BY <1>4, TransportTypes DEF TransportStep, Cancel, Interrupt, WsInterrupt, TypeOK
  <2>2. errored' \in BOOLEAN
    BY <1>4, Zenon DEF Cancel
  <2> QED BY <1>4, <2>1, <2>2 DEF Cancel, TypeOK, FTypeOK, Forget, WPcs
<1>5. CASE AnyPeer
  <2>1. TTypeOK' /\ UNCHANGED <<fvars, wvars>>
    BY <1>5, TransportTypes, TransportAssumption DEF TransportStep, AnyPeer, TypeOK
  <2> QED BY <2>1 DEF TypeOK, FTypeOK, fvars, wvars
<1>6. CASE UNCHANGED vars
  BY <1>6 DEF vars, tvars, fvars, wvars, TypeOK, TTypeOK, FTypeOK
<1> QED BY <1>1, <1>2, <1>3, <1>4, <1>5, <1>6 DEF OpenNext, ServerStep

-----------------------------------------------------------------------------
(* A suspended call holds what its next step needs. *)

\* The calls and steps of web_socket/mod.rs prepare the next await.
LEMMA StepShape ==
  ASSUME TypeOK, Shape, [OpenNext]_vars
  PROVE  Shape'
<1>1. CASE FStep /\ UNCHANGED wvars
  BY <1>1, FStepShape, FStepTypes DEF TypeOK, Shape, FPcs, wvars
<1>2. ASSUME NEW r, Finish(r)
      PROVE  Shape'
  BY <1>2 DEF Finish, Shape, FShape
<1>3. ASSUME NEW r, Reply(r)
      PROVE  Shape'
  BY <1>3 DEF Reply, fvars, Shape, FShape
<1>4. ASSUME NEW e \in Results \ {"Ok"}, HandshakeFailure(e)
      PROVE  Shape'
  BY <1>2, <1>4 DEF HandshakeFailure, GoOn, Enter, Shape, FShape
<1>5. CASE WStep
  <2>1. CASE WaitReturns \/ ReadReturns \/ WriteSends \/ FlushDone
    BY <1>2, <2>1 DEF WaitReturns, ReadReturns, WriteSends, FlushDone
  <2>2. CASE ReadGoesOn
    <3>1. reader \in Reader
      BY <2>2 DEF ReadGoesOn, Shape, FShape
    <3> QED BY <2>2, <3>1 DEF ReadGoesOn, Enter, Shape, FShape
  <2>3. CASE HandshakeFlushes \/ HandshakeWaits
    BY <2>3 DEF HandshakeFlushes, HandshakeWaits, GoOn, Enter, Shape, FShape
  <2>4. CASE HandshakeSucceeds
    BY <1>2, <2>4 DEF HandshakeSucceeds, GoOn, Enter, Shape, FShape
  <2>5. CASE HandshakeFails
    BY <1>4, <2>5, WsErrors DEF HandshakeFails
  <2>6. CASE InnerCloses \/ InnerAborts
    BY <1>2, <2>6 DEF InnerCloses, InnerAborts
  <2>7. CASE WsSocketFails
    <3>1. "Socket" \in Results \ {"Ok"}
      BY DEF Results
    <3> QED BY <1>2, <1>4, <2>7, <3>1 DEF WsSocketFails
  <2> QED BY <1>5, <2>1, <2>2, <2>3, <2>4, <2>5, <2>6, <2>7 DEF WStep
<1>6. CASE AppCall
  <2>1. CASE WaitMessageCall \/ FlushCall \/ ReadyProbe
    BY <1>3, <2>1 DEF WaitMessageCall, FlushCall, ReadyProbe, Begin, Enter, Shape, FShape
  <2>2. ASSUME NEW b \in BufSizes, ReadCall(b)
        PROVE  Shape'
    <3>1. CASE Begin("read") /\ reader = None /\ Enter("wait_data", "hdr")
      BY <3>1 DEF Begin, Enter, Shape, FShape
    <3>2. CASE Begin("read") /\ reader # None /\ Enter("payload", "payload")
      BY <3>2 DEF Begin, Enter, Shape, FShape, TypeOK, FTypeOK
    <3> QED BY <1>3, <2>2, <3>1, <3>2 DEF ReadCall
  <2>3. ASSUME NEW b \in BufSizes, WriteCall(b)
        PROVE  Shape'
    BY <1>3, <2>3 DEF WriteCall, Begin, Enter, Shape, FShape
  <2>4. ASSUME NEW t \in MessageTypes, SetSendFrameType(t)
        PROVE  Shape'
    BY <2>4 DEF SetSendFrameType, fvars, Shape, FShape
  <2>5. ASSUME NEW o, HandshakeCall(o)
        PROVE  Shape'
    BY <2>5 DEF HandshakeCall, Begin, EnterSend, SendCloseEntry, Shape, FShape
  <2>6. CASE CloseHandshakeCall \/ CloseCall
    BY <1>3, <2>5, <2>6 DEF CloseHandshakeCall, CloseCall
  <2>7. CASE AbortCall
    BY <1>3, <2>7 DEF AbortCall, Begin, Enter, Shape, FShape
  <2> QED BY <1>6, <2>1, <2>2, <2>3, <2>4, <2>6, <2>7 DEF AppCall
<1>7. CASE Cancel
  BY <1>7 DEF Cancel, Shape, FShape
<1>8. CASE AnyPeer \/ UNCHANGED vars
  <2>1. UNCHANGED <<fvars, wvars>>
    BY <1>8 DEF AnyPeer, vars
  <2> QED BY <2>1 DEF fvars, wvars, Shape, FShape
<1> QED BY <1>1, <1>5, <1>6, <1>7, <1>8 DEF OpenNext, ServerStep

-----------------------------------------------------------------------------
(* The histories only grow. *)

\* No transport operation forgets a frame sent or received.
LEMMA TransportHistory ==
  ASSUME TTypeOK, TransportStep
  PROVE  /\ CloseSent => CloseSent'
         /\ CloseReceived => CloseReceived'
<1>1. CASE UNCHANGED outbox
  <2>1. CASE UNCHANGED rcvd
    BY <1>1, <2>1 DEF CloseSent, CloseReceived
  <2>2. CASE \E f \in NextHeaders : RecvHeader(f)
    <3>1. PICK f \in NextHeaders : rcvd' = Append(rcvd, f)
      BY <2>2 DEF RecvHeader
    <3>2. f \in Frame
      BY HeadersAreFrames
    <3>3. \A i \in 1 .. Len(rcvd) : i \in 1 .. Len(rcvd') /\ rcvd'[i] = rcvd[i]
      BY <3>1, <3>2 DEF TTypeOK
    <3> QED BY <1>1, <3>3 DEF CloseSent, CloseReceived
  <2> QED
    BY <2>1, <2>2 DEF TransportStep, Transmit, EndOfStream, Consume, HeaderCut, PayloadCut,
                      Send, SendCut, Shut, tvars
<1>2. CASE \E f \in OutFrame : Send(f)
  <2>1. PICK f \in OutFrame : outbox' = Append(outbox, f) /\ UNCHANGED rcvd
    BY <1>2 DEF Send
  <2>2. \A i \in 1 .. Len(outbox) : i \in 1 .. Len(outbox') /\ outbox'[i] = outbox[i]
    BY <2>1 DEF TTypeOK
  <2> QED BY <2>1, <2>2 DEF CloseSent, CloseReceived
<1> QED
  BY <1>1, <1>2 DEF TransportStep, Transmit, EndOfStream, RecvHeader, Consume, HeaderCut,
                    PayloadCut, SendCut, Shut, tvars

\* Every step of the system does to the transport one of the things listed.
LEMMA StepTransport ==
  ASSUME TypeOK, Shape, [OpenNext]_vars
  PROVE  TransportStep
<1>1. CASE FStep
  BY <1>1, FStepTransport DEF TypeOK, Shape
<1>2. CASE WStep
  <2>1. [type |-> send_frame_type, len |-> buflen] \in OutFrame
    BY DEF TypeOK, FTypeOK, OutFrame, FrameTypes, MessageTypes
  <2> QED
    BY <1>2, <2>1
    DEF WStep, WaitReturns, ReadGoesOn, ReadReturns, WriteSends, FlushDone,
        HandshakeFlushes, HandshakeWaits, HandshakeSucceeds, HandshakeFails, InnerCloses,
        InnerAborts, WsSocketFails, WsInterrupt, TransportStep
<1>3. CASE AppCall
  BY <1>3
  DEF AppCall, WaitMessageCall, ReadCall, WriteCall, FlushCall, ReadyProbe,
      SetSendFrameType, CloseHandshakeCall, CloseCall, HandshakeCall, AbortCall, Begin,
      Reply, TransportStep
<1>4. CASE Cancel
  BY <1>4 DEF Cancel, Interrupt, WsInterrupt, TransportStep
<1>5. CASE AnyPeer
  BY <1>5 DEF AnyPeer, TransportStep
<1>6. CASE UNCHANGED vars
  BY <1>6 DEF vars, TransportStep
<1> QED BY <1>1, <1>2, <1>3, <1>4, <1>5, <1>6 DEF OpenNext, ServerStep

-----------------------------------------------------------------------------
(* The closing handshake. *)

\* frame_controller.rs reports ClosedByPeer, and sets its flag, only on evidence.
LEMMA FStepClose ==
  ASSUME TypeOK, Shape, CloseEvidence, FStep, UNCHANGED wvars,
         CloseSent => CloseSent', CloseReceived => CloseReceived'
  PROVE  CloseEvidence'
<1>1. HandshakeBothWays'
  BY DEF CloseEvidence, HandshakeBothWays, wvars
<1>2. ASSUME UNCHANGED is_wait_for_close_response,
             \/ pc' \notin {"echo_recv", "echo_send", "ret"}
             \/ pc' = "ret" /\ fret' # "ClosedByPeer"
      PROVE  CloseEvidence'
  BY <1>1, <1>2 DEF CloseEvidence
<1>3. CASE ReceiveHeader
  <2>1. PICK f \in NextHeaders :
          /\ RecvHeader(f)
          /\ IF Malformed(f)
               THEN Return("InvalidFrame") /\ KeepFlags /\ UNCHANGED reader
               ELSE OnData(f) \/ OnClose(f) \/ OnPing(f) \/ OnPong(f) \/ OversizedControl(f)
    BY <1>3 DEF ReceiveHeader
  <2>2. f \in Frame /\ pc = "hdr"
    BY <1>3, HeadersAreFrames DEF TypeOK, ReceiveHeader
  <2>3. f.type = "Close" => CloseReceived'
    <3>1. rcvd' = Append(rcvd, f)
      BY <2>1 DEF RecvHeader
    <3>2. Len(rcvd') \in 1 .. Len(rcvd') /\ rcvd'[Len(rcvd')] = f
      BY <2>2, <3>1 DEF TypeOK, TTypeOK
    <3> QED BY <3>2 DEF CloseReceived
  <2>4. CASE \/ Return("InvalidFrame") /\ KeepFlags
             \/ OnData(f) \/ OnPong(f) \/ OversizedControl(f)
    <3>1. /\ UNCHANGED is_wait_for_close_response
          /\ \/ pc' \in {"payload", "hdr"}
             \/ pc' = "ret" /\ fret' # "ClosedByPeer"
      BY <2>4 DEF OnData, OnPong, OversizedControl, Return, KeepFlags
    <3> QED BY <1>2, <3>1
  <2>5. CASE OnPing(f)
    BY <1>1, <2>5 DEF OnPing, KeepFlags, CloseEvidence
  <2>6. CASE OnClose(f) /\ is_wait_for_close_response
    <3>1. pc' = "ret" /\ is_wait_for_close_response' = FALSE /\ f.type = "Close"
      BY <2>6, Zenon DEF OnClose, ClosedByPeer, Return
    <3>2. CloseSent'
      BY <2>6 DEF CloseEvidence
    <3>3. inner' = "open"
      BY <2>1 DEF RecvHeader
    <3> QED BY <1>1, <2>3, <3>1, <3>2, <3>3 DEF CloseEvidence
  <2>7. CASE OnClose(f) /\ ~is_wait_for_close_response
    <3>1. pc' = "echo_recv" /\ UNCHANGED is_wait_for_close_response /\ f.type = "Close"
      BY <2>7, Zenon DEF OnClose, KeepFlags
    <3> QED BY <1>1, <2>3, <3>1 DEF CloseEvidence
  <2> QED BY <2>1, <2>4, <2>5, <2>6, <2>7
<1>4. CASE HeaderEof \/ SendBackRecvFails \/ SocketFails
  <2>1. UNCHANGED is_wait_for_close_response /\ pc' = "ret" /\ fret' # "ClosedByPeer"
    BY <1>4 DEF HeaderEof, SendBackRecvFails, SocketFails, Return, KeepFlags
  <2> QED BY <1>2, <2>1
<1>5. CASE SendBackRecv
  BY <1>1, <1>5 DEF SendBackRecv, KeepFlags, CloseEvidence
<1>6. CASE SendBackSend
  <2>1. fhdr \in Frame /\ fhdr.type \in {"Ping", "Close"} /\ pc = "echo_send"
    BY <1>6 DEF SendBackSend, Shape, FShape
  <2>2. CASE fhdr.type = "Ping"
    <3>1. UNCHANGED is_wait_for_close_response /\ pc' = "hdr"
      BY <1>6, <2>2 DEF SendBackSend, KeepFlags
    <3> QED BY <1>2, <3>1
  <2>3. CASE fhdr.type = "Close"
    <3>1. outbox' = Append(outbox, SendBackReply(fhdr)) /\ inner' = "open"
      BY <1>6 DEF SendBackSend, Send
    <3>2. SendBackReply(fhdr).type = "Close" /\ SendBackReply(fhdr) \in OutFrame
      BY <2>1, <2>3 DEF SendBackReply, OutFrame, FrameTypes, Frame
    <3>3. Len(outbox') \in 1 .. Len(outbox') /\ outbox'[Len(outbox')].type = "Close"
      BY <3>1, <3>2 DEF TypeOK, TTypeOK
    <3>4. CloseSent'
      BY <3>3 DEF CloseSent
    <3>5. CloseReceived'
      BY <2>1, <2>3 DEF CloseEvidence
    <3>6. pc' = "ret" /\ UNCHANGED is_wait_for_close_response
      BY <1>6, <2>3, Zenon DEF SendBackSend, ClosedByPeer, Return
    <3> QED BY <1>1, <3>1, <3>4, <3>5, <3>6 DEF CloseEvidence
  <2> QED BY <2>1, <2>2, <2>3
<1>7. CASE PayloadRead \/ PayloadEof \/ PayloadNothing
  <2>1. UNCHANGED is_wait_for_close_response /\ pc' = "ret" /\ fret' = "Ok"
    BY <1>7 DEF PayloadRead, PayloadEof, PayloadNothing, ReturnCount, KeepFlags
  <2> QED BY <1>2, <2>1
<1>8. CASE PayloadNextFragment
  <2>1. UNCHANGED is_wait_for_close_response /\ pc' = "hdr"
    BY <1>8 DEF PayloadNextFragment, KeepFlags
  <2> QED BY <1>2, <2>1
<1>9. CASE SendFrame
  <2>1. pc' = "ret" /\ fret' = "Ok"
    BY <1>9 DEF SendFrame, Return
  <2>2. CASE fcall = "send_ping"
    <3>1. UNCHANGED is_wait_for_close_response
      BY <1>9, <2>2, Zenon DEF SendFrame
    <3> QED BY <1>2, <2>1, <3>1
  <2>3. CASE fcall # "send_ping"
    <3>1. outbox' = Append(outbox, [type |-> "Close", len |-> 2])
      BY <1>9, <2>3 DEF SendFrame, Send
    <3>2. Len(outbox') \in 1 .. Len(outbox') /\ outbox'[Len(outbox')].type = "Close"
      BY <3>1 DEF TypeOK, TTypeOK
    <3>3. CloseSent'
      BY <3>2 DEF CloseSent
    <3> QED BY <1>1, <2>1, <3>3 DEF CloseEvidence
  <2> QED BY <2>2, <2>3
<1> QED BY <1>3, <1>4, <1>5, <1>6, <1>7, <1>8, <1>9 DEF FStep

\* web_socket/mod.rs enters WsClosed only on a ClosedByPeer.
LEMMA StepClose ==
  ASSUME TypeOK, Shape, CloseEvidence, [OpenNext]_vars
  PROVE  CloseEvidence'
<1>0. (CloseSent => CloseSent') /\ (CloseReceived => CloseReceived')
  BY StepTransport, TransportHistory DEF TypeOK
<1>1. CASE FStep /\ UNCHANGED wvars
  BY <1>0, <1>1, FStepClose
<1>2. ASSUME UNCHANGED is_wait_for_close_response,
             \/ pc' \notin {"echo_recv", "echo_send", "ret"}
             \/ pc' = "ret" /\ fret' # "ClosedByPeer",
             \/ socket_state' \in {socket_state, "Closed"}
             \/ pc = "ret" /\ fret = "ClosedByPeer"
      PROVE  CloseEvidence'
  <2>1. HandshakeBothWays'
    BY <1>0, <1>2 DEF CloseEvidence, HandshakeBothWays
  <2> QED BY <1>0, <1>2, <2>1 DEF CloseEvidence
<1>3. CASE WStep
  <2>1. CASE WaitReturns
    <3>1. pc' = "idle" /\ UNCHANGED is_wait_for_close_response
      BY <2>1 DEF WaitReturns, Finish
    <3>2. \/ socket_state' = socket_state
          \/ pc = "ret" /\ fret = "ClosedByPeer"
      BY <2>1 DEF WaitReturns, StateAfterWait
    <3> QED BY <1>2, <3>1, <3>2
  <2>2. CASE ReadGoesOn \/ ReadReturns \/ WriteSends \/ FlushDone \/ HandshakeFlushes
             \/ HandshakeWaits
    <3>1. UNCHANGED <<is_wait_for_close_response, socket_state>>
          /\ pc' \in {"idle", "payload", "flush", "hdr"}
      BY <2>2 DEF ReadGoesOn, ReadReturns, WriteSends, FlushDone, HandshakeFlushes,
                  HandshakeWaits, Finish, GoOn, Enter, wvars
    <3> QED BY <1>2, <3>1
  <2>3. CASE HandshakeSucceeds
    <3>1. /\ pc' \in {"idle", "inner_close"} /\ UNCHANGED is_wait_for_close_response
          /\ pc = "ret" /\ fret = "ClosedByPeer"
      BY <2>3 DEF HandshakeSucceeds, Finish, GoOn, Enter
    <3> QED BY <1>2, <3>1
  <2>4. CASE HandshakeFails \/ WsSocketFails
    <3>1. UNCHANGED <<is_wait_for_close_response, socket_state>>
          /\ pc' \in {"idle", "inner_abort"}
      BY <2>4 DEF HandshakeFails, WsSocketFails, HandshakeFailure, Finish, GoOn, Enter
    <3> QED BY <1>2, <3>1
  <2>5. CASE InnerCloses \/ InnerAborts
    <3>1. UNCHANGED is_wait_for_close_response /\ pc' = "idle" /\ socket_state' = "Closed"
      BY <2>5 DEF InnerCloses, InnerAborts, Finish
    <3> QED BY <1>2, <3>1
  <2> QED BY <1>3, <2>1, <2>2, <2>3, <2>4, <2>5 DEF WStep
<1>4. CASE AppCall
  <2>1. /\ UNCHANGED <<is_wait_for_close_response, socket_state>>
        /\ pc = "idle"
    BY <1>4
    DEF AppCall, WaitMessageCall, ReadCall, WriteCall, FlushCall, ReadyProbe,
        SetSendFrameType, CloseHandshakeCall, CloseCall, HandshakeCall, AbortCall, Begin,
        Reply, fvars
  <2>2. \/ pc' \in {"idle", "hdr", "payload", "write", "flush", "send", "inner_abort"}
        \/ pc' = "ret" /\ fret' # "ClosedByPeer"
    BY <1>4
    DEF AppCall, WaitMessageCall, ReadCall, WriteCall, FlushCall, ReadyProbe,
        SetSendFrameType, CloseHandshakeCall, CloseCall, HandshakeCall, AbortCall, Begin,
        Reply, fvars, Enter, EnterSend, SendCloseEntry
  <2> QED BY <1>2, <2>1, <2>2
<1>5. CASE Cancel
  <2>1. UNCHANGED <<is_wait_for_close_response, socket_state>> /\ pc' = "idle"
    BY <1>5 DEF Cancel
  <2> QED BY <1>2, <2>1
<1>6. CASE AnyPeer \/ UNCHANGED vars
  <2>1. UNCHANGED <<fvars, wvars>> /\ UNCHANGED inner
    BY <1>6 DEF AnyPeer, Transmit, EndOfStream, vars, tvars
  <2> QED BY <1>0, <2>1 DEF fvars, wvars, CloseEvidence, HandshakeBothWays
<1> QED BY <1>1, <1>3, <1>4, <1>5, <1>6 DEF OpenNext, ServerStep

-----------------------------------------------------------------------------
(* Interrupted writes. *)

\* A frame is cut only by a call that then fails or is dropped.
LEMMA StepCut ==
  ASSUME TypeOK, Shape, CutReported, [OpenNext]_vars
  PROVE  CutReported'
<1>1. ASSUME pc \notin {"ret", "inner_abort"}, errored => errored',
             outstate' = outstate \/ (outstate # "clean" /\ outstate' = "torn")
      PROVE  CutReported'
  BY <1>1 DEF CutReported, TornIsReported
<1>2. ASSUME errored', outstate' \in {"clean", "partial", "torn"}
      PROVE  CutReported'
  BY <1>2 DEF CutReported, TornIsReported
<1>3. ASSUME NEW f, Send(f), pc \notin {"ret", "inner_abort"}, errored => errored'
      PROVE  CutReported'
  <2>1. outstate' = outstate \/ (outstate # "clean" /\ outstate' = "torn")
    BY <1>3 DEF Send
  <2> QED BY <1>1, <1>3, <2>1
<1>4. TTypeOK'
  BY StepTypes DEF TypeOK
<1>5. CASE FStep /\ UNCHANGED wvars
  <2>0. UNCHANGED errored
    BY <1>5 DEF FStep
  <2>1. CASE SendBackSend
    BY <1>3, <2>0, <2>1 DEF SendBackSend
  <2>2. CASE SendFrame
    BY <1>3, <2>0, <2>2 DEF SendFrame
  <2>3. CASE SocketFails
    <3>1. pc' = "ret" /\ fret' = "Socket" /\ pc \notin {"ret", "inner_abort"}
      BY <2>3 DEF SocketFails, Return, Interrupt
    <3>2. outstate' = "torn" => outstate # "clean"
      BY <2>3 DEF SocketFails, Interrupt, HeaderCut, PayloadCut, SendCut, tvars
    <3> QED BY <2>0, <3>1, <3>2 DEF CutReported, TornIsReported
  <2>4. CASE ReceiveHeader \/ HeaderEof \/ SendBackRecv \/ SendBackRecvFails \/ PayloadRead
             \/ PayloadEof \/ PayloadNothing \/ PayloadNextFragment
    <3>1. UNCHANGED outstate /\ pc \in {"hdr", "echo_recv", "payload"}
      BY <2>4 DEF ReceiveHeader, HeaderEof, SendBackRecv, SendBackRecvFails, PayloadRead,
                  PayloadEof, PayloadNothing, PayloadNextFragment, RecvHeader, Consume, tvars
    <3> QED BY <1>1, <2>0, <3>1
  <2> QED BY <1>5, <2>1, <2>2, <2>3, <2>4 DEF FStep
<1>6. ASSUME NEW r, Finish(r), r # "Ok"
      PROVE  errored'
  BY <1>6, Zenon DEF Finish
<1>7. ASSUME NEW r, Finish(r)
      PROVE  errored => errored'
  BY <1>7, Zenon DEF Finish
<1>8. ASSUME NEW e \in Results \ {"Ok"}, HandshakeFailure(e), UNCHANGED outstate,
             CutReported, outstate # "clean" => errored \/ pc = "ret" \/ pc = "inner_abort"
      PROVE  CutReported'
  <2>1. CASE op = "close"
    <3>1. pc' = "inner_abort" /\ op' = "close" /\ UNCHANGED errored
      BY <1>8, <2>1 DEF HandshakeFailure, GoOn, Enter
    <3> QED BY <1>8, <3>1 DEF CutReported, TornIsReported
  <2>2. CASE op # "close"
    BY <1>2, <1>4, <1>6, <1>8, <2>2 DEF HandshakeFailure, TTypeOK
  <2> QED BY <2>1, <2>2
<1>9. CASE WStep
  <2>1. CASE WaitReturns \/ ReadReturns
    <3>1. UNCHANGED outstate /\ pc = "ret"
      BY <2>1 DEF WaitReturns, ReadReturns, tvars
    <3>2. PICK r : Finish(r) /\ (fret = "Socket" => r = "Socket")
      BY <2>1 DEF WaitReturns, ReadReturns, ToWsError
    <3>3. CASE fret = "Socket"
      BY <1>2, <1>4, <1>6, <3>2, <3>3 DEF TTypeOK
    <3>4. CASE fret # "Socket"
      BY <1>7, <3>1, <3>2, <3>4 DEF CutReported, TornIsReported
    <3> QED BY <3>3, <3>4
  <2>2. CASE ReadGoesOn \/ HandshakeFlushes
    <3>1. UNCHANGED <<outstate, errored>> /\ pc = "ret" /\ fret = "Ok"
      BY <2>2 DEF ReadGoesOn, HandshakeFlushes, GoOn, tvars
    <3> QED BY <3>1 DEF CutReported, TornIsReported
  <2>3. CASE WriteSends
    BY <1>3, <1>7, <2>3 DEF WriteSends
  <2>4. CASE FlushDone \/ HandshakeWaits
    <3>1. UNCHANGED outstate /\ pc = "flush"
      BY <2>4 DEF FlushDone, HandshakeWaits, tvars
    <3>2. errored => errored'
      BY <1>7, <2>4 DEF FlushDone, HandshakeWaits, GoOn
    <3> QED BY <1>1, <3>1, <3>2
  <2>5. CASE HandshakeSucceeds
    <3>1. UNCHANGED outstate /\ pc = "ret" /\ fret = "ClosedByPeer"
      BY <2>5 DEF HandshakeSucceeds, tvars
    <3>2. errored => errored'
      BY <1>7, <2>5 DEF HandshakeSucceeds, GoOn
    <3> QED BY <3>1, <3>2 DEF CutReported, TornIsReported
  <2>6. CASE HandshakeFails
    BY <1>8, <2>6, WsErrors DEF HandshakeFails, tvars
  <2>7. CASE InnerCloses
    <3>1. UNCHANGED outstate /\ pc = "inner_close" /\ (errored => errored')
      BY <1>7, <2>7 DEF InnerCloses, Shut
    <3> QED BY <1>1, <3>1
  <2>8. CASE InnerAborts
    <3>1. UNCHANGED outstate /\ pc = "inner_abort"
      BY <2>8 DEF InnerAborts, Shut
    <3>2. CASE op = "close"
      <4>1. Finish(ret) /\ ret # "Ok"
        BY <2>8, <3>1, <3>2 DEF InnerAborts, Shape, FShape
      <4> QED BY <1>2, <1>4, <1>6, <4>1 DEF TTypeOK
    <3>3. CASE op # "close"
      <4>1. errored => errored'
        BY <1>7, <2>8 DEF InnerAborts
      <4> QED BY <3>1, <3>3, <4>1 DEF CutReported, TornIsReported
    <3> QED BY <3>2, <3>3
  <2>9. CASE WsSocketFails
    <3>1. CASE pc = "flush" /\ op # "flush"
      <4>1. HandshakeFailure("Socket") /\ UNCHANGED outstate /\ "Socket" \in Results \ {"Ok"}
        BY <2>9, <3>1 DEF WsSocketFails, WsInterrupt, tvars, Results
      <4>2. outstate # "clean" => errored
        BY <3>1 DEF CutReported
      <4> QED BY <1>8, <4>1, <4>2
    <3>2. CASE ~(pc = "flush" /\ op # "flush")
      BY <1>2, <1>4, <1>6, <2>9, <3>2 DEF WsSocketFails, TTypeOK
    <3> QED BY <3>1, <3>2
  <2> QED BY <1>9, <2>1, <2>2, <2>3, <2>4, <2>5, <2>6, <2>7, <2>8, <2>9 DEF WStep
<1>10. CASE AppCall
  <2>1. UNCHANGED <<outstate, errored>> /\ pc = "idle"
    BY <1>10
    DEF AppCall, WaitMessageCall, ReadCall, WriteCall, FlushCall, ReadyProbe,
        SetSendFrameType, CloseHandshakeCall, CloseCall, HandshakeCall, AbortCall, Begin,
        Reply, fvars, tvars
  <2> QED BY <1>1, <2>1
<1>11. CASE Cancel
  <2>1. CASE Harmless
    <3>1. UNCHANGED outstate /\ op # "close" /\ pc # "ret"
      BY <1>11, <2>1 DEF Harmless, tvars, Cancel, Interrupt, WsInterrupt
    <3>2. errored => errored'
      BY <1>11, Zenon DEF Cancel
    <3> QED BY <3>1, <3>2 DEF CutReported, TornIsReported
  <2>2. CASE ~Harmless
    <3>1. errored'
      BY <1>11, <2>2, Zenon DEF Cancel
    <3> QED BY <1>2, <1>4, <3>1 DEF TTypeOK
  <2> QED BY <2>1, <2>2
<1>12. CASE AnyPeer \/ UNCHANGED vars
  <2>1. UNCHANGED <<fvars, wvars>> /\ UNCHANGED outstate
    BY <1>12 DEF AnyPeer, Transmit, EndOfStream, vars, tvars
  <2> QED BY <2>1 DEF fvars, wvars, CutReported, TornIsReported
<1> QED BY <1>5, <1>9, <1>10, <1>11, <1>12 DEF OpenNext, ServerStep

-----------------------------------------------------------------------------
(* The socket is shut before the WebSocket is Closed. *)

\* The inner socket never reopens and Closed is entered together with its end.
LEMMA StepShut ==
  ASSUME TypeOK, Shape, ClosedIsShut, [OpenNext]_vars
  PROVE  ClosedIsShut'
<1>1. inner # "open" => inner' # "open"
  BY StepTransport
  DEF TransportStep, Transmit, EndOfStream, RecvHeader, Consume, HeaderCut, PayloadCut, Send,
      SendCut, Shut, tvars
<1>2. CASE InnerCloses \/ InnerAborts
  BY <1>2 DEF InnerCloses, InnerAborts, Shut, ClosedIsShut
<1>3. CASE ~(InnerCloses \/ InnerAborts)
  <2>1. socket_state' = "Closed" => socket_state = "Closed"
    BY <1>3
    DEF OpenNext, ServerStep, WStep, WaitReturns, StateAfterWait, ReadGoesOn, ReadReturns,
        WriteSends, FlushDone, HandshakeFlushes, HandshakeWaits, HandshakeSucceeds,
        HandshakeFails, HandshakeFailure, WsSocketFails, wvars, AppCall, WaitMessageCall,
        ReadCall, WriteCall, FlushCall, ReadyProbe, SetSendFrameType, CloseHandshakeCall,
        CloseCall, HandshakeCall, AbortCall, Begin, Reply, Cancel, AnyPeer, vars
  <2> QED BY <1>1, <2>1 DEF ClosedIsShut
<1> QED BY <1>2, <1>3

-----------------------------------------------------------------------------
(* Which method is where. *)

\* A step of frame_controller.rs stays in the function that was called.
LEMMA FStepCall ==
  ASSUME FStep
  PROVE  /\ UNCHANGED <<fcall, errored>>
         /\ pc \in FPcs \ {"ret"} /\ pc' \in FPcs \ {"send"}
         /\ ~is_wait_for_pong /\ fcall # "send_ping" => ~is_wait_for_pong'
<1>1. UNCHANGED <<fcall, errored>> /\ pc \in FPcs \ {"ret"} /\ pc' \in FPcs \ {"send"}
  BY DEF FStep, ReceiveHeader, OnData, OnClose, OnPing, OnPong, OversizedControl,
         ClosedByPeer, HeaderEof, SendBackRecv, SendBackRecvFails, SendBackSend, PayloadRead,
         PayloadEof, PayloadNothing, PayloadNextFragment, SendFrame, SocketFails, Interrupt,
         Return, ReturnCount, FPcs
<1>2. ~is_wait_for_pong /\ fcall # "send_ping" => ~is_wait_for_pong'
  <2>1. CASE ReceiveHeader
    BY <2>1, Zenon
    DEF ReceiveHeader, OnData, OnClose, OnPing, OnPong, OversizedControl, ClosedByPeer, KeepFlags
  <2>2. CASE SendBackSend
    BY <2>2, Zenon DEF SendBackSend, ClosedByPeer, KeepFlags
  <2>3. CASE SendFrame
    BY <2>3, Zenon DEF SendFrame
  <2>4. CASE ~ReceiveHeader /\ ~SendBackSend /\ ~SendFrame
    BY <2>4
    DEF FStep, HeaderEof, SendBackRecv, SendBackRecvFails, PayloadRead, PayloadEof,
        PayloadNothing, PayloadNextFragment, SocketFails, ReturnCount, KeepFlags
  <2> QED BY <2>1, <2>2, <2>3, <2>4
<1> QED BY <1>1, <1>2

\* Every step leaves each method at one of its own awaits.
LEMMA StepCall ==
  ASSUME TypeOK, Shape, CallShape, [OpenNext]_vars
  PROVE  CallShape'
<1> USE DEF ClosingOps, Ready
<1>0. None \notin ClosingOps
  BY OpsAssumption DEF Ops
<1>1. CASE FStep /\ UNCHANGED wvars
  <2>1. ~is_wait_for_pong'
    BY <1>1, FStepCall DEF CallShape, FPcs
  <2>2. pc \in FPcs /\ pc' \in FPcs /\ UNCHANGED <<fcall, op, socket_state, closing>>
    BY <1>1, FStepCall DEF wvars
  <2> QED BY <2>1, <2>2 DEF CallShape, FPcs
<1>2. ASSUME NEW r, Finish(r)
      PROVE  CallShape'
  BY <1>0, <1>2 DEF Finish, CallShape, FPcs
<1>3. ASSUME NEW r, Reply(r)
      PROVE  CallShape'
  BY <1>3 DEF Reply, fvars, CallShape
<1>4. ASSUME NEW e, HandshakeFailure(e)
      PROVE  CallShape'
  BY <1>2, <1>4 DEF HandshakeFailure, GoOn, Enter, CallShape, FPcs
<1>5. CASE WStep
  <2>1. CASE WaitReturns \/ ReadReturns \/ WriteSends \/ FlushDone
    BY <1>2, <2>1 DEF WaitReturns, ReadReturns, WriteSends, FlushDone
  <2>2. CASE ReadGoesOn
    BY <2>2 DEF ReadGoesOn, Enter, CallShape, FPcs, wvars
  <2>3. CASE HandshakeFlushes \/ HandshakeWaits
    BY <2>3 DEF HandshakeFlushes, HandshakeWaits, GoOn, Enter, CallShape, FPcs
  <2>4. CASE HandshakeSucceeds
    BY <1>2, <2>4 DEF HandshakeSucceeds, GoOn, Enter, CallShape, FPcs
  <2>5. CASE HandshakeFails \/ WsSocketFails
    BY <1>2, <1>4, <2>5 DEF HandshakeFails, WsSocketFails
  <2>6. CASE InnerCloses \/ InnerAborts
    BY <1>2, <2>6 DEF InnerCloses, InnerAborts
  <2> QED BY <1>5, <2>1, <2>2, <2>3, <2>4, <2>5, <2>6 DEF WStep
<1>6. CASE AppCall
  <2>1. CASE WaitMessageCall \/ FlushCall \/ ReadyProbe \/ AbortCall
    BY <1>3, <2>1
    DEF WaitMessageCall, FlushCall, ReadyProbe, AbortCall, Begin, Enter, CallShape, FPcs
  <2>2. ASSUME NEW b \in BufSizes, ReadCall(b) \/ WriteCall(b)
        PROVE  CallShape'
    BY <1>3, <2>2 DEF ReadCall, WriteCall, Begin, Enter, CallShape, FPcs
  <2>3. ASSUME NEW t \in MessageTypes, SetSendFrameType(t)
        PROVE  CallShape'
    BY <2>3 DEF SetSendFrameType, fvars, CallShape
  <2>4. ASSUME NEW o \in ClosingOps, HandshakeCall(o)
        PROVE  CallShape'
    <3>1. closing'
      BY <2>4, Zenon DEF HandshakeCall
    <3>2. /\ fcall' = "send_close" /\ pc' \in {"ret", "send"} /\ op' = o
          /\ UNCHANGED is_wait_for_pong
      BY <2>4 DEF HandshakeCall, Begin, EnterSend, SendCloseEntry
    <3> QED BY <3>1, <3>2 DEF CallShape, FPcs
  <2>5. CASE CloseHandshakeCall \/ CloseCall
    BY <1>3, <2>4, <2>5 DEF CloseHandshakeCall, CloseCall
  <2> QED BY <1>6, <2>1, <2>2, <2>3, <2>5 DEF AppCall
<1>7. CASE Cancel
  BY <1>0, <1>7 DEF Cancel, CallShape, FPcs
<1>8. CASE AnyPeer \/ UNCHANGED vars
  <2>1. UNCHANGED <<fvars, wvars>>
    BY <1>8 DEF AnyPeer, vars
  <2> QED BY <2>1 DEF fvars, wvars, CallShape
<1> QED BY <1>1, <1>5, <1>6, <1>7, <1>8 DEF OpenNext, ServerStep

-----------------------------------------------------------------------------
(* Silence after a Close. *)

\* The application never unlearns a failure.
LEMMA StepErrored ==
  ASSUME [OpenNext]_vars
  PROVE  errored => errored'
<1>1. CASE FStep
  BY <1>1 DEF FStep
<1>2. ASSUME NEW r, Finish(r)
      PROVE  errored => errored'
  BY <1>2, Zenon DEF Finish
<1>3. CASE WStep
  BY <1>2, <1>3
  DEF WStep, WaitReturns, ReadGoesOn, ReadReturns, WriteSends, FlushDone, HandshakeFlushes,
      HandshakeWaits, HandshakeSucceeds, HandshakeFails, HandshakeFailure, InnerCloses,
      InnerAborts, WsSocketFails, GoOn
<1>4. CASE AppCall
  BY <1>4
  DEF AppCall, WaitMessageCall, ReadCall, WriteCall, FlushCall, ReadyProbe,
      SetSendFrameType, CloseHandshakeCall, CloseCall, HandshakeCall, AbortCall, Begin,
      Reply, fvars
<1>5. CASE Cancel
  BY <1>5, Zenon DEF Cancel
<1>6. CASE AnyPeer \/ UNCHANGED vars
  BY <1>6 DEF AnyPeer, vars, fvars
<1> QED BY <1>1, <1>3, <1>4, <1>5, <1>6 DEF OpenNext, ServerStep

\* Besides frame_controller.rs only write() adds to a history.
LEMMA QuietHistories ==
  ASSUME [OpenNext]_vars, ~(FStep /\ UNCHANGED wvars)
  PROVE  UNCHANGED rcvd /\ (UNCHANGED outbox \/ WriteSends)
<1>1. CASE WStep
  BY <1>1
  DEF WStep, WaitReturns, ReadGoesOn, ReadReturns, FlushDone, HandshakeFlushes,
      HandshakeWaits, HandshakeSucceeds, HandshakeFails, InnerCloses, InnerAborts, Shut,
      WsSocketFails, WsInterrupt, SendCut, WriteSends, Send, tvars
<1>2. CASE AppCall
  BY <1>2
  DEF AppCall, WaitMessageCall, ReadCall, WriteCall, FlushCall, ReadyProbe,
      SetSendFrameType, CloseHandshakeCall, CloseCall, HandshakeCall, AbortCall, Begin,
      Reply, tvars
<1>3. CASE Cancel
  BY <1>3 DEF Cancel, Interrupt, WsInterrupt, HeaderCut, PayloadCut, SendCut, tvars
<1>4. CASE AnyPeer \/ UNCHANGED vars
  BY <1>4 DEF AnyPeer, Transmit, EndOfStream, vars, tvars
<1> QED BY <1>1, <1>2, <1>3, <1>4 DEF OpenNext, ServerStep

\* What frame_controller.rs writes is a control frame; a Close is written by
\* send_close, or by send_back, which then reports ClosedByPeer.
LEMMA FStepWrites ==
  ASSUME TypeOK, Shape, FStep
  PROVE  \/ UNCHANGED outbox
         \/ \E f \in OutFrame :
              /\ Send(f) /\ f.type \notin MessageTypes
              /\ f.type = "Close" => fcall = "send_close" \/ (pc' = "ret" /\ fret' = "ClosedByPeer")
<1>1. CASE SendBackSend
  <2>1. fhdr \in Frame /\ fhdr.type \in {"Ping", "Close"}
    BY <1>1 DEF SendBackSend, Shape, FShape
  <2>2. SendBackReply(fhdr) \in OutFrame /\ SendBackReply(fhdr).type \notin MessageTypes
    BY <2>1 DEF SendBackReply, OutFrame, FrameTypes, Frame, MessageTypes
  <2>3. SendBackReply(fhdr).type = "Close" => pc' = "ret" /\ fret' = "ClosedByPeer"
    BY <1>1, <2>1 DEF SendBackReply, SendBackSend, ClosedByPeer, Return
  <2> QED BY <1>1, <2>2, <2>3 DEF SendBackSend
<1>2. CASE SendFrame
  <2>1. /\ [type |-> "Ping", len |-> 0] \in OutFrame
        /\ [type |-> "Close", len |-> 2] \in OutFrame
    BY DEF OutFrame, FrameTypes
  <2>2. fcall \in {"send_ping", "send_close"}
    BY <1>2 DEF SendFrame, Shape, FShape
  <2>3. CASE fcall = "send_ping"
    <3>1. Send([type |-> "Ping", len |-> 0])
      BY <1>2, <2>3 DEF SendFrame
    <3> QED BY <2>1, <3>1 DEF MessageTypes
  <2>4. CASE fcall = "send_close"
    <3>1. Send([type |-> "Close", len |-> 2])
      BY <1>2, <2>4 DEF SendFrame
    <3> QED BY <2>1, <2>4, <3>1 DEF MessageTypes
  <2> QED BY <2>2, <2>3, <2>4
<1>3. CASE ~SendBackSend /\ ~SendFrame
  BY <1>3
  DEF FStep, ReceiveHeader, RecvHeader, HeaderEof, SendBackRecv, SendBackRecvFails,
      PayloadRead, PayloadEof, PayloadNothing, PayloadNextFragment, SocketFails, Interrupt,
      HeaderCut, PayloadCut, SendCut, Consume, tvars
<1> QED BY <1>1, <1>2, <1>3

\* A frame more at the end of the output.
LEMMA SilentAppend ==
  ASSUME TTypeOK, SilentAfterClose, NEW f \in OutFrame, outbox' = Append(outbox, f),
         errored => errored', f.type \in MessageTypes => ~CloseSent \/ errored
  PROVE  /\ SilentAfterClose'
         /\ CloseSent' => CloseSent \/ f.type = "Close"
<1>1. /\ Len(outbox') = Len(outbox) + 1 /\ outbox'[Len(outbox) + 1] = f
      /\ \A i \in 1 .. Len(outbox) : outbox'[i] = outbox[i]
      /\ Len(outbox) \in Nat
  BY DEF TTypeOK
<1>2. ASSUME NEW i \in 1 .. Len(outbox'), NEW j \in 1 .. Len(outbox'), i < j,
             outbox'[i].type = "Close", outbox'[j].type \in MessageTypes
      PROVE  errored'
  <2>1. i \in 1 .. Len(outbox) /\ outbox[i].type = "Close"
    BY <1>1, <1>2
  <2>2. CASE j = Len(outbox) + 1
    BY <1>1, <1>2, <2>1, <2>2 DEF CloseSent
  <2>3. CASE j \in 1 .. Len(outbox)
    BY <1>1, <1>2, <2>1, <2>3 DEF SilentAfterClose, DataAfterClose
  <2> QED BY <1>1, <2>2, <2>3
<1>3. SilentAfterClose'
  BY <1>2 DEF SilentAfterClose, DataAfterClose
<1>4. ASSUME CloseSent', f.type # "Close"
      PROVE  CloseSent
  <2>1. PICK i \in 1 .. Len(outbox') : outbox'[i].type = "Close"
    BY <1>4 DEF CloseSent
  <2>2. i \in 1 .. Len(outbox) /\ outbox[i].type = "Close"
    BY <1>1, <1>4, <2>1
  <2> QED BY <2>2 DEF CloseSent
<1> QED BY <1>3, <1>4

\* The call that sends a Close fails, or leaves a WebSocket that is not Ready.
LEMMA StepSilent ==
  ASSUME TypeOK, Shape, CallShape, SilentInv, [OpenNext]_vars
  PROVE  SilentInv'
<1>0. (errored => errored') /\ TTypeOK
  BY StepErrored DEF TypeOK
<1>1. CASE FStep /\ UNCHANGED wvars
  <2>1. /\ UNCHANGED <<fcall, errored, op, socket_state>> /\ pc \in FPcs \ {"ret"}
        /\ pc' \in FPcs
    BY <1>1, FStepCall DEF wvars
  <2>2. CASE UNCHANGED outbox
    BY <2>1, <2>2 DEF SilentInv, CloseSent, SilentAfterClose, DataAfterClose, Ready
  <2>3. CASE ~UNCHANGED outbox
    <3>1. PICK f \in OutFrame :
              /\ Send(f) /\ f.type \notin MessageTypes
              /\ f.type = "Close" => fcall = "send_close" \/ (pc' = "ret" /\ fret' = "ClosedByPeer")
      BY <1>1, <2>3, FStepWrites
    <3>2. SilentAfterClose' /\ (CloseSent' => CloseSent \/ f.type = "Close")
      BY <1>0, <3>1, SilentAppend DEF Send, SilentInv
    <3>3. fcall = "send_close" => op \in ClosingOps
      BY <2>1 DEF CallShape
    <3> QED BY <2>1, <3>1, <3>2, <3>3 DEF SilentInv, Ready
  <2> QED BY <2>2, <2>3
<1>2. CASE WriteSends
  <2>1. [type |-> send_frame_type, len |-> buflen] \in OutFrame
    BY DEF TypeOK, FTypeOK, OutFrame, FrameTypes, MessageTypes
  <2>2. /\ outbox' = Append(outbox, [type |-> send_frame_type, len |-> buflen])
        /\ Ready /\ op = "write" /\ pc = "write"
    BY <1>2 DEF WriteSends, Send, CallShape
  <2>3. ~CloseSent \/ errored
    BY <2>2 DEF SilentInv, ClosingOps
  <2>4. send_frame_type # "Close"
    BY DEF TypeOK, MessageTypes
  <2>5. SilentAfterClose' /\ (CloseSent' => CloseSent)
    BY <1>0, <2>1, <2>2, <2>3, <2>4, SilentAppend DEF SilentInv
  <2> QED BY <1>0, <2>3, <2>5 DEF SilentInv
<1>3. CASE ~(FStep /\ UNCHANGED wvars) /\ ~WriteSends
  <2>1. SilentAfterClose' /\ CloseSent' = CloseSent
    <3>1. UNCHANGED outbox
      BY <1>3, QuietHistories
    <3> QED BY <1>0, <3>1 DEF SilentInv, SilentAfterClose, DataAfterClose, CloseSent
  <2> SUFFICES ASSUME CloseSent, ~errored, ~errored'
               PROVE  ~Ready' \/ op' \in ClosingOps \/ (pc' = "ret" /\ fret' = "ClosedByPeer")
    BY <1>0, <2>1 DEF SilentInv
  <2>2. ~Ready \/ op \in ClosingOps \/ (pc = "ret" /\ fret = "ClosedByPeer")
    BY DEF SilentInv
  <2>3. ASSUME NEW r, Finish(r)
        PROVE  r = "Ok"
    BY <2>3, Zenon DEF Finish
  <2>4. ASSUME NEW e \in Results \ {"Ok"}, HandshakeFailure(e)
        PROVE  op' \in ClosingOps
    BY <2>3, <2>4 DEF HandshakeFailure, GoOn, ClosingOps
  <2>5. CASE ~Ready
    <3>1. socket_state' \in {socket_state, "WsClosed", "Closed"}
      BY <1>3
      DEF OpenNext, ServerStep, WStep, WaitReturns, StateAfterWait, ReadGoesOn, ReadReturns,
          FlushDone, HandshakeFlushes, HandshakeWaits, HandshakeSucceeds, HandshakeFails,
          HandshakeFailure, InnerCloses, InnerAborts, WsSocketFails, wvars, AppCall,
          WaitMessageCall, ReadCall, WriteCall, FlushCall, ReadyProbe, SetSendFrameType,
          CloseHandshakeCall, CloseCall, HandshakeCall, AbortCall, Begin, Reply, Cancel,
          AnyPeer, vars
    <3> QED BY <2>5, <3>1 DEF Ready
  <2>6. CASE Ready /\ WStep
    <3>1. CASE WaitReturns \/ ReadReturns
      <4>1. fret = "Ok"
        BY <2>3, <3>1, WsErrors DEF WaitReturns, ReadReturns
      <4>2. pc = "ret" /\ fcall \in {"wait_data", "payload"}
        BY <3>1 DEF WaitReturns, ReadReturns
      <4>3. op \notin ClosingOps
        BY <4>2 DEF CallShape, FPcs, ClosingOps
      <4> QED BY <2>2, <2>6, <4>1, <4>3
    <3>2. CASE FlushDone
      BY <2>2, <2>6, <3>2 DEF FlushDone, ClosingOps
    <3>3. CASE ReadGoesOn
      <4>1. UNCHANGED op /\ pc = "ret" /\ fret = "Ok"
        BY <3>3 DEF ReadGoesOn, wvars
      <4> QED BY <2>2, <2>6, <4>1
    <3>4. CASE HandshakeFlushes \/ HandshakeWaits
      <4>1. UNCHANGED op /\ (pc = "ret" => fret = "Ok")
        BY <3>4 DEF HandshakeFlushes, HandshakeWaits, GoOn
      <4> QED BY <2>2, <2>6, <4>1
    <3>5. CASE HandshakeSucceeds \/ InnerCloses \/ InnerAborts
      BY <3>5 DEF HandshakeSucceeds, InnerCloses, InnerAborts, Ready
    <3>6. CASE HandshakeFails
      BY <2>4, <3>6, WsErrors DEF HandshakeFails
    <3>7. CASE WsSocketFails
      BY <2>3, <2>4, <3>7 DEF WsSocketFails, Results
    <3> QED BY <1>3, <2>6, <3>1, <3>2, <3>3, <3>4, <3>5, <3>6, <3>7 DEF WStep
  <2>7. CASE Ready /\ AppCall
    <3>1. pc = "idle"
      BY <2>7
      DEF AppCall, WaitMessageCall, ReadCall, WriteCall, FlushCall, ReadyProbe,
          SetSendFrameType, CloseHandshakeCall, CloseCall, HandshakeCall, AbortCall, Begin,
          Reply
    <3>2. op \notin ClosingOps
      BY <3>1, OpsAssumption DEF CallShape, ClosingOps, Ops
    <3> QED BY <2>2, <2>7, <3>1, <3>2
  <2>8. CASE Ready /\ Cancel
    <3>1. Harmless
      BY <2>8, Zenon DEF Cancel
    <3>2. op \notin ClosingOps /\ pc # "ret"
      BY <2>8, <3>1 DEF Harmless, ClosingOps, Cancel, Interrupt, WsInterrupt
    <3> QED BY <2>2, <2>8, <3>2
  <2>9. CASE AnyPeer \/ UNCHANGED vars
    <3>1. UNCHANGED <<pc, fret, op, socket_state>>
      BY <2>9 DEF AnyPeer, vars, fvars, wvars
    <3> QED BY <2>2, <3>1 DEF Ready
  <2> QED BY <1>3, <2>5, <2>6, <2>7, <2>8, <2>9 DEF OpenNext, ServerStep
<1> QED BY <1>1, <1>2, <1>3

-----------------------------------------------------------------------------
(* Pings and Pongs. *)

Echoed == \E answer \in [Served -> Pongs] : Answers(answer)

\* The pairing is about the frames it pairs and nothing else.
LEMMA EchoedKept ==
  ASSUME Echoed, Served' = Served, Pongs' = Pongs,
         \A i \in Served : rcvd'[i] = rcvd[i], \A j \in Pongs : outbox'[j] = outbox[j]
  PROVE  Echoed'
<1>1. PICK answer \in [Served -> Pongs] : Answers(answer)
  BY DEF Echoed
<1>2. \A i \in Served : answer[i] \in Pongs
  OBVIOUS
<1>3. Answers(answer)'
  BY <1>1, <1>2 DEF Answers
<1> QED BY <1>3 DEF Echoed

\* A frame more at the end of the output: a Pong more if it is one.
LEMMA PongsAppend ==
  ASSUME TTypeOK, NEW f \in OutFrame, outbox' = Append(outbox, f)
  PROVE  /\ Len(outbox) \in Nat /\ Pongs \subseteq 1 .. Len(outbox)
         /\ outbox'[Len(outbox) + 1] = f
         /\ \A j \in Pongs : outbox'[j] = outbox[j]
         /\ f.type = "Pong" => Pongs' = Pongs \cup {Len(outbox) + 1}
         /\ f.type # "Pong" => Pongs' = Pongs
<1>1. /\ DOMAIN outbox' = 1 .. Len(outbox) + 1 /\ DOMAIN outbox = 1 .. Len(outbox)
      /\ outbox'[Len(outbox) + 1] = f
      /\ \A j \in 1 .. Len(outbox) : outbox'[j] = outbox[j]
      /\ Len(outbox) \in Nat
  BY DEF TTypeOK
<1> QED BY <1>1 DEF Pongs

\* A header more: it is the last, and the Pings before it are what they were.
LEMMA PingsAppend ==
  ASSUME TTypeOK, NEW f \in Frame, rcvd' = Append(rcvd, f)
  PROVE  /\ Len(rcvd) \in Nat /\ Pings \subseteq 1 .. Len(rcvd)
         /\ rcvd' # <<>> /\ Len(rcvd') = Len(rcvd) + 1 /\ rcvd'[Len(rcvd')] = f
         /\ \A i \in Pings : rcvd'[i] = rcvd[i]
         /\ Pings' \ {Len(rcvd')} = Pings
         /\ f.type # "Ping" => Pings' = Pings
<1>1. /\ DOMAIN rcvd' = 1 .. Len(rcvd) + 1 /\ DOMAIN rcvd = 1 .. Len(rcvd)
      /\ Len(rcvd') = Len(rcvd) + 1 /\ rcvd'[Len(rcvd) + 1] = f
      /\ \A i \in 1 .. Len(rcvd) : rcvd'[i] = rcvd[i]
      /\ Len(rcvd) \in Nat /\ rcvd' # <<>>
  BY DEF TTypeOK
<1> QED BY <1>1 DEF Pings

\* send_back: the Pong for the Ping read last completes the pairing.
LEMMA PongCompletes ==
  ASSUME TTypeOK, Echoed, NEW f \in OutFrame, f.type = "Pong", outbox' = Append(outbox, f),
         UNCHANGED rcvd, Served = Pings \ {Len(rcvd)}, Served' = Pings,
         Len(rcvd) \in Pings, f.len = rcvd[Len(rcvd)].len
  PROVE  Echoed'
<1>1. PICK answer \in [Served -> Pongs] : Answers(answer)
  BY DEF Echoed
<1>2. /\ Len(outbox) \in Nat /\ Pongs \subseteq 1 .. Len(outbox)
      /\ outbox'[Len(outbox) + 1] = f
      /\ \A j \in Pongs : outbox'[j] = outbox[j]
      /\ Pongs' = Pongs \cup {Len(outbox) + 1}
  BY PongsAppend
<1>3. Pings \subseteq 1 .. Len(rcvd) /\ Len(rcvd) \in Nat
  BY DEF Pings, TTypeOK
<1> DEFINE last == Len(rcvd)
<1>0. PICK new : new = [i \in Pings |-> IF i = last THEN Len(outbox) + 1 ELSE answer[i]]
  OBVIOUS
<1>4. \A i \in Served : i \in Pings /\ i # last /\ answer[i] \in Pongs /\ new[i] = answer[i]
  BY <1>0
<1>5. new[last] = Len(outbox) + 1
  BY <1>0
<1>6. \A i \in Pings : i = last \/ i \in Served
  OBVIOUS
<1>7. new \in [Pings -> Pongs']
  BY <1>0, <1>2, <1>4
<1>8. \A i \in Pings : outbox'[new[i]].len = rcvd'[i].len
  BY <1>1, <1>2, <1>4, <1>5, <1>6 DEF Answers
<1>9. ASSUME NEW i \in Pings, NEW k \in Pings, i < k
      PROVE  new[i] < new[k]
  <2>1. i # last
    BY <1>3, <1>9
  <2>2. i \in Served /\ new[i] = answer[i] /\ answer[i] \in 1 .. Len(outbox)
    BY <1>2, <1>4, <1>6, <2>1
  <2>3. CASE k = last
    BY <1>2, <1>5, <2>2, <2>3
  <2>4. CASE k # last
    BY <1>1, <1>4, <1>6, <1>9, <2>2, <2>4 DEF Answers
  <2> QED BY <2>3, <2>4
<1>10. ASSUME NEW j \in Pongs'
       PROVE  \E i \in Pings : new[i] = j
  <2>1. CASE j = Len(outbox) + 1
    BY <1>5, <2>1
  <2>2. CASE j \in Pongs
    BY <1>1, <1>4, <2>2 DEF Answers
  <2> QED BY <1>2, <2>1, <2>2
<1>11. Answers(new)'
  BY <1>8, <1>9, <1>10 DEF Answers
<1> QED BY <1>7, <1>11 DEF Echoed

\* Every step of frame_controller.rs keeps the pairing, or fails.
LEMMA FStepEcho ==
  ASSUME TypeOK, Shape, EchoInv, FStep, UNCHANGED wvars
  PROVE  EchoInv'
<1> USE DEF Reporting
<1>0. /\ UNCHANGED errored /\ pc \in FPcs \ {"ret"} /\ TTypeOK
      /\ ~errored => Echoed
  BY FStepCall DEF TypeOK, EchoInv, Echoed, FPcs
<1>1. ASSUME pc' \notin {"echo_recv", "echo_send"}, ~errored /\ ~Reporting' => Echoed'
      PROVE  EchoInv'
  BY <1>0, <1>1 DEF EchoInv, Echoed
<1>2. ASSUME UNCHANGED <<outbox, rcvd>>,
             pc \notin {"echo_recv", "echo_send"}, pc' \notin {"echo_recv", "echo_send"}
      PROVE  EchoInv'
  <2>1. Pings' = Pings /\ Pongs' = Pongs
    BY <1>2 DEF Pings, Pongs
  <2>2. Served' = Served
    BY <1>2, <2>1 DEF Served
  <2>3. Echoed => Echoed'
    BY <1>2, <2>1, <2>2, EchoedKept
  <2> QED BY <1>0, <1>1, <1>2, <2>3
<1>3. ASSUME pc' = "ret", fret' \notin {"Ok", "ClosedByPeer"}
      PROVE  EchoInv'
  BY <1>1, <1>3
<1>4. CASE ReceiveHeader
  <2>1. PICK f \in NextHeaders :
          /\ RecvHeader(f)
          /\ IF Malformed(f)
               THEN Return("InvalidFrame") /\ KeepFlags /\ UNCHANGED reader
               ELSE OnData(f) \/ OnClose(f) \/ OnPing(f) \/ OnPong(f) \/ OversizedControl(f)
    BY <1>4 DEF ReceiveHeader
  <2>2. /\ f \in Frame /\ pc = "hdr" /\ rcvd' = Append(rcvd, f) /\ UNCHANGED outbox
    BY <1>0, <1>4, <2>1, HeadersAreFrames DEF ReceiveHeader, RecvHeader
  <2>3. /\ rcvd' # <<>> /\ rcvd'[Len(rcvd')] = f
        /\ \A i \in Pings : rcvd'[i] = rcvd[i]
        /\ Pings' \ {Len(rcvd')} = Pings
        /\ f.type # "Ping" => Pings' = Pings
    BY <1>0, <2>2, PingsAppend
  <2>4. Pongs' = Pongs /\ Served = Pings
    BY <2>2 DEF Pongs, Served
  <2>5. Served' = Pings /\ Echoed => Echoed'
    BY <2>2, <2>3, <2>4, EchoedKept
  <2>6. CASE Return("InvalidFrame") \/ OversizedControl(f)
    BY <1>3, <2>6 DEF Return, OversizedControl
  <2>7. CASE OnPing(f)
    <3>1. pc' = "echo_recv" /\ fhdr' = f /\ f.type = "Ping"
      BY <2>7 DEF OnPing
    <3>2. Served' = Pings
      BY <2>3, <3>1 DEF Served
    <3> QED BY <1>0, <2>3, <2>5, <3>1, <3>2 DEF EchoInv, Echoed
  <2>8. CASE OnClose(f)
    <3>1. f.type = "Close" /\ (pc' = "ret" \/ (pc' = "echo_recv" /\ fhdr' = f))
      BY <2>8 DEF OnClose, ClosedByPeer, Return
    <3>2. Served' = Pings
      BY <2>3, <3>1 DEF Served
    <3> QED BY <1>0, <2>3, <2>5, <3>1, <3>2 DEF EchoInv, Echoed
  <2>9. CASE OnData(f) \/ OnPong(f)
    <3>1. f.type # "Ping" /\ pc' \in {"ret", "payload", "hdr"}
      BY <2>9 DEF OnData, OnPong, Return
    <3>2. Served' = Pings
      BY <2>3, <3>1 DEF Served
    <3> QED BY <1>0, <1>1, <2>5, <3>1, <3>2
  <2> QED BY <2>1, <2>6, <2>7, <2>8, <2>9
<1>5. CASE HeaderEof \/ SendBackRecvFails \/ SocketFails
  BY <1>3, <1>5 DEF HeaderEof, SendBackRecvFails, SocketFails, Return
<1>6. CASE SendBackRecv
  <2>1. /\ pc = "echo_recv" /\ pc' = "echo_send" /\ UNCHANGED <<fhdr, rcvd, outbox>>
        /\ fhdr.len <= MaxControlPayload
    BY <1>6 DEF SendBackRecv, EchoFits, Consume
  <2>2. Pings' = Pings /\ Pongs' = Pongs
    BY <2>1 DEF Pings, Pongs
  <2>3. Served' = Served
    BY <2>1, <2>2 DEF Served
  <2>4. Echoed => Echoed'
    BY <2>1, <2>2, <2>3, EchoedKept
  <2> QED BY <1>0, <2>1, <2>4 DEF EchoInv, Echoed
<1>7. CASE SendBackSend
  <2>1. /\ pc = "echo_send" /\ fhdr \in Frame /\ fhdr.type \in {"Ping", "Close"}
        /\ pc' \in {"hdr", "ret"}
    BY <1>7 DEF SendBackSend, Shape, FShape, ClosedByPeer, Return
  <2>2. SendBackReply(fhdr) \in OutFrame
    BY <2>1 DEF SendBackReply, OutFrame, FrameTypes, Frame
  <2>3. outbox' = Append(outbox, SendBackReply(fhdr)) /\ UNCHANGED rcvd
    BY <1>7 DEF SendBackSend, Send
  <2>4. Served' = Pings
    BY <2>1, <2>3 DEF Served, Pings
  <2>5. CASE fhdr.type = "Ping"
    <3>1. SendBackReply(fhdr).type = "Pong" /\ SendBackReply(fhdr).len = fhdr.len
      BY <2>5 DEF SendBackReply
    <3>2. Served = Pings \ {Len(rcvd)}
      BY <2>1, <2>5 DEF Served
    <3>3. rcvd # <<>> /\ rcvd[Len(rcvd)] = fhdr /\ fhdr.len <= MaxControlPayload
      BY <2>1 DEF EchoInv
    <3>4. Len(rcvd) \in Pings
      BY <1>0, <2>5, <3>3 DEF Pings, TTypeOK
    <3>5. Echoed => Echoed'
      BY <1>0, <2>2, <2>3, <2>4, <3>1, <3>2, <3>3, <3>4, PongCompletes
    <3> QED BY <1>0, <1>1, <2>1, <3>5
  <2>6. CASE fhdr.type = "Close"
    <3>1. SendBackReply(fhdr).type = "Close"
      BY <2>6 DEF SendBackReply
    <3>2. Pongs' = Pongs /\ \A j \in Pongs : outbox'[j] = outbox[j]
      BY <1>0, <2>2, <2>3, <3>1, PongsAppend
    <3>3. Served' = Served
      BY <2>4, <2>6 DEF Served
    <3>4. Echoed => Echoed'
      BY <2>3, <3>2, <3>3, EchoedKept
    <3> QED BY <1>0, <1>1, <2>1, <3>4
  <2> QED BY <2>1, <2>5, <2>6
<1>8. CASE PayloadRead \/ PayloadEof \/ PayloadNothing \/ PayloadNextFragment
  <2>1. UNCHANGED <<outbox, rcvd>> /\ pc = "payload" /\ pc' \in {"ret", "hdr"}
    BY <1>8 DEF PayloadRead, PayloadEof, PayloadNothing, PayloadNextFragment, ReturnCount,
                Consume, tvars
  <2> QED BY <1>2, <2>1
<1>9. CASE SendFrame
  <2>1. pc = "send" /\ pc' = "ret" /\ UNCHANGED rcvd
    BY <1>9 DEF SendFrame, Return, Send
  <2>2. /\ [type |-> "Ping", len |-> 0] \in OutFrame
        /\ [type |-> "Close", len |-> 2] \in OutFrame
    BY DEF OutFrame, FrameTypes
  <2>3. PICK f \in OutFrame : outbox' = Append(outbox, f) /\ f.type # "Pong"
    BY <1>9, <2>2 DEF SendFrame, Send
  <2>4. Pongs' = Pongs /\ \A j \in Pongs : outbox'[j] = outbox[j]
    BY <1>0, <2>3, PongsAppend
  <2>5. Served' = Served
    BY <2>1 DEF Served, Pings
  <2>6. Echoed => Echoed'
    BY <2>1, <2>4, <2>5, EchoedKept
  <2> QED BY <1>0, <1>1, <2>1, <2>6
<1> QED BY <1>4, <1>5, <1>6, <1>7, <1>8, <1>9 DEF FStep

\* A failure on its way to the application reaches it.
LEMMA StepReports ==
  ASSUME TypeOK, Shape, CallShape, [OpenNext]_vars, ~(FStep /\ UNCHANGED wvars)
  PROVE  /\ errored \/ Reporting => errored' \/ Reporting'
         /\ \/ errored'
            \/ pc \notin {"echo_recv", "echo_send"} /\ pc' \notin {"echo_recv", "echo_send"}
            \/ UNCHANGED <<pc, fhdr>>
         /\ pc' \in {"echo_recv", "echo_send"} => UNCHANGED <<pc, fhdr>>
<1>0. errored => errored'
  BY StepErrored
<1>1. ASSUME NEW r, Finish(r), r # "Ok"
      PROVE  errored'
  BY <1>1, Zenon DEF Finish
<1>2. ASSUME NEW r, Finish(r)
      PROVE  pc' = "idle"
  BY <1>2 DEF Finish
<1>3. CASE WStep
  <2>1. /\ pc \notin {"echo_recv", "echo_send"}
        /\ pc' \in {"idle", "payload", "flush", "hdr", "inner_close", "inner_abort"}
    BY <1>2, <1>3
    DEF WStep, WaitReturns, ReadGoesOn, ReadReturns, WriteSends, FlushDone,
        HandshakeFlushes, HandshakeWaits, HandshakeSucceeds, HandshakeFails,
        HandshakeFailure, InnerCloses, InnerAborts, WsSocketFails, WsInterrupt, GoOn, Enter
  <2>2. ASSUME NEW e \in Results \ {"Ok"}, HandshakeFailure(e)
        PROVE  errored' \/ Reporting'
    BY <1>1, <2>2 DEF HandshakeFailure, GoOn, Enter, Reporting
  <2>3. ASSUME Reporting
        PROVE  errored' \/ Reporting'
    <3>1. CASE pc = "ret"
      <4>1. fret \notin {"Ok", "ClosedByPeer"}
        BY <2>3, <3>1 DEF Reporting
      <4>2. CASE WaitReturns \/ ReadReturns
        BY <1>1, <4>1, <4>2, WsErrors DEF WaitReturns, ReadReturns
      <4>3. CASE HandshakeFails
        BY <2>2, <4>3, WsErrors DEF HandshakeFails
      <4> QED
        BY <1>3, <3>1, <4>1, <4>2, <4>3
        DEF WStep, ReadGoesOn, WriteSends, FlushDone, HandshakeFlushes, HandshakeWaits,
            HandshakeSucceeds, InnerCloses, InnerAborts, WsSocketFails, WsInterrupt
    <3>2. CASE pc = "inner_abort" /\ op = "close"
      <4>1. CASE InnerAborts
        <5>1. Finish(ret) /\ ret # "Ok"
          BY <3>2, <4>1 DEF InnerAborts, Shape
        <5> QED BY <1>1, <5>1
      <4>2. CASE WsSocketFails
        BY <1>1, <3>2, <4>2 DEF WsSocketFails
      <4> QED
        BY <1>3, <3>2, <4>1, <4>2
        DEF WStep, WaitReturns, ReadGoesOn, ReadReturns, WriteSends, FlushDone,
            HandshakeFlushes, HandshakeWaits, HandshakeSucceeds, HandshakeFails, InnerCloses
    <3> QED BY <2>3, <3>1, <3>2 DEF Reporting
  <2> QED BY <1>0, <2>1, <2>3
<1>4. CASE AppCall
  <2>1. pc = "idle"
    BY <1>4
    DEF AppCall, WaitMessageCall, ReadCall, WriteCall, FlushCall, ReadyProbe,
        SetSendFrameType, CloseHandshakeCall, CloseCall, HandshakeCall, AbortCall, Begin,
        Reply
  <2>2. pc' \in {"idle", "hdr", "payload", "write", "flush", "send", "inner_abort", "ret"}
    BY <1>4
    DEF AppCall, WaitMessageCall, ReadCall, WriteCall, FlushCall, ReadyProbe,
        SetSendFrameType, CloseHandshakeCall, CloseCall, HandshakeCall, AbortCall, Begin,
        Reply, fvars, Enter, EnterSend, SendCloseEntry
  <2> QED BY <1>0, <2>1, <2>2 DEF Reporting
<1>5. CASE Cancel
  <2>1. CASE Harmless
    <3>1. pc \notin {"echo_recv", "echo_send", "ret"} /\ op # "close" /\ pc' = "idle"
      BY <1>5, <2>1 DEF Harmless, Cancel, Interrupt, WsInterrupt
    <3> QED BY <1>0, <3>1 DEF Reporting
  <2>2. CASE ~Harmless
    <3>1. errored' /\ pc' = "idle"
      BY <1>5, <2>2, Zenon DEF Cancel
    <3> QED BY <3>1
  <2> QED BY <2>1, <2>2
<1>6. CASE AnyPeer \/ UNCHANGED vars
  <2>1. UNCHANGED <<pc, fhdr, fret, op, errored>>
    BY <1>6 DEF AnyPeer, vars, fvars, wvars
  <2> QED BY <2>1 DEF Reporting
<1> QED BY <1>3, <1>4, <1>5, <1>6 DEF OpenNext, ServerStep

\* Every step keeps the pairing as long as no call fails.
LEMMA StepEcho ==
  ASSUME TypeOK, Shape, CallShape, EchoInv, [OpenNext]_vars
  PROVE  EchoInv'
<1>1. CASE FStep /\ UNCHANGED wvars
  BY <1>1, FStepEcho
<1>2. CASE ~(FStep /\ UNCHANGED wvars)
  <2>1. UNCHANGED rcvd /\ (UNCHANGED outbox \/ WriteSends)
    BY <1>2, QuietHistories
  <2>2. Pongs' = Pongs /\ \A j \in Pongs : outbox'[j] = outbox[j]
    <3>1. CASE UNCHANGED outbox
      BY <3>1 DEF Pongs
    <3>2. CASE WriteSends
      <4>1. /\ [type |-> send_frame_type, len |-> buflen] \in OutFrame
            /\ send_frame_type # "Pong" /\ TTypeOK
        BY DEF TypeOK, FTypeOK, OutFrame, FrameTypes, MessageTypes
      <4>2. outbox' = Append(outbox, [type |-> send_frame_type, len |-> buflen])
        BY <3>2 DEF WriteSends, Send
      <4> QED BY <4>1, <4>2, PongsAppend
    <3> QED BY <2>1, <3>1, <3>2
  <2>3. pc' \in {"echo_recv", "echo_send"} => UNCHANGED <<pc, fhdr>>
    BY <1>2, StepReports
  <2>4. ASSUME ~errored', ~Reporting'
        PROVE  Echoed'
    <3>1. ~errored /\ ~Reporting
      BY <1>2, <2>4, StepReports
    <3>2. \/ pc \notin {"echo_recv", "echo_send"} /\ pc' \notin {"echo_recv", "echo_send"}
          \/ UNCHANGED <<pc, fhdr>>
      BY <1>2, <2>4, StepReports
    <3>3. Pings' = Pings
      BY <2>1 DEF Pings
    <3>4. Served' = Served
      BY <2>1, <3>2, <3>3 DEF Served
    <3>5. Echoed
      BY <3>1 DEF EchoInv, Echoed
    <3> QED BY <2>1, <2>2, <3>4, <3>5, EchoedKept
  <2> QED BY <2>1, <2>3, <2>4 DEF EchoInv, Echoed
<1> QED BY <1>1, <1>2

-----------------------------------------------------------------------------
(* The position in the inbound stream. *)

\* Where the calls of the application and the returns of frame_controller.rs
\* leave the stream: nothing but the reader and the await has changed.
LEMMA AlignedElsewhere ==
  ASSUME FTypeOK, Aligned, UNCHANGED <<rest, lost, eof, inbox, reader>>,
         pc # "echo_recv", ~(pc = "ret" /\ fcall = "process"),
         \/ pc' \notin {"hdr", "echo_recv", "echo_send"}
         \/ pc' = "hdr" /\ (reader = None \/ reader.payload_len = 0)
  PROVE  Aligned'
<1>1. rest <= Due /\ (rest < Due => eof /\ inbox = <<>>) /\ Due' = Due
  BY DEF Aligned, Due
<1> QED BY <1>1 DEF Aligned

\* A reader is dropped only when its last fragment has been read.
LEMMA AlignedAfterRead ==
  ASSUME TTypeOK, FTypeOK, FShape, Aligned, UNCHANGED tvars, pc = "ret", fcall = "payload",
         pc' = "idle", reader' \in {reader, None}, reader' # reader => IsFinished(reader)
  PROVE  Aligned'
<1>1. rest <= Due /\ (rest < Due => eof /\ inbox = <<>>)
  BY DEF Aligned
<1>2. reader \in Reader
  BY DEF FShape
<1>3. Due = reader.payload_len
  BY <1>2, NoneAssumption DEF Due
<1>4. Due' = Due
  BY <1>2, <1>3, NoneAssumption DEF Due, IsFinished
<1> QED BY <1>1, <1>4 DEF Aligned, tvars

\* No step loses the position unless a call fails or the application closes.
LEMMA StepFraming ==
  ASSUME TypeOK, TypeOK', Shape, CallShape, FramingKeptInv, [OpenNext]_vars,
         \A f \in Frame : Transmit(f) => f.len < UsizeMod /\ f.avail = f.len
  PROVE  FramingKeptInv'
<1> USE NoneAssumption
<1>0. /\ TTypeOK /\ TTypeOK' /\ FTypeOK /\ FShape /\ (errored => errored')
      /\ TransportStep
  BY StepErrored, StepTransport DEF TypeOK, Shape
<1>1. InboxWhole'
  BY <1>0, InboxStaysWhole DEF FramingKeptInv
<1>2. closing => closing'
  <2>1. CASE HandshakeCall("close") \/ HandshakeCall("close_handshake")
    BY <2>1, Zenon DEF HandshakeCall
  <2>2. CASE ~(HandshakeCall("close") \/ HandshakeCall("close_handshake"))
    BY <2>2
    DEF OpenNext, ServerStep, WStep, WaitReturns, ReadGoesOn, ReadReturns, WriteSends,
        FlushDone, HandshakeFlushes, HandshakeWaits, HandshakeSucceeds, HandshakeFails,
        HandshakeFailure, InnerCloses, InnerAborts, WsSocketFails, Finish, GoOn, wvars,
        AppCall, WaitMessageCall, ReadCall, WriteCall, FlushCall, ReadyProbe,
        SetSendFrameType, CloseHandshakeCall, CloseCall, AbortCall, Reply, Cancel, AnyPeer,
        vars
  <2> QED BY <2>1, <2>2
<1> SUFFICES ASSUME ~errored, ~closing, ~errored', ~closing'
             PROVE  Failing' \/ Aligned'
  BY <1>0, <1>1, <1>2 DEF FramingKeptInv
<1>3. InboxWhole /\ (Failing \/ Aligned)
  BY DEF FramingKeptInv
<1>4. op \notin ClosingOps
  BY DEF CallShape
<1>5. pc \in FPcs => fcall \in {"wait_data", "payload"}
  BY <1>4 DEF CallShape
<1>6. CASE FStep /\ UNCHANGED wvars
  <2>1. ~Failing
    BY <1>6, FStepCall DEF Failing
  <2> QED BY <1>0, <1>3, <1>6, <2>1, FStepAligned DEF CallShape
<1>7. ASSUME NEW r, Finish(r)
      PROVE  r = "Ok" /\ pc' = "idle"
  BY <1>7, Zenon DEF Finish
<1>8. CASE WStep
  <2>0. ASSUME NEW e \in Results \ {"Ok"}, HandshakeFailure(e)
        PROVE  FALSE
    BY <1>4, <1>7, <2>0 DEF HandshakeFailure, ClosingOps
  <2>1. CASE WaitReturns \/ ReadReturns
    <3>1. fret = "Ok" /\ pc = "ret" /\ pc' = "idle" /\ UNCHANGED tvars
      BY <1>7, <2>1, WsErrors DEF WaitReturns, ReadReturns
    <3>2. Aligned
      BY <1>3, <3>1 DEF Failing
    <3>3. CASE WaitReturns
      <4>1. UNCHANGED reader /\ fcall # "process"
        BY <3>3 DEF WaitReturns
      <4> QED BY <1>0, <3>1, <3>2, <4>1, AlignedElsewhere DEF tvars
    <3>4. CASE ReadReturns
      <4>1. fcall = "payload" /\ reader' \in {reader, None} /\ (reader' # reader => IsFinished(reader))
        BY <3>4 DEF ReadReturns
      <4> QED BY <1>0, <3>1, <3>2, <4>1, AlignedAfterRead
    <3> QED BY <2>1, <3>3, <3>4
  <2>2. CASE ReadGoesOn
    <3>1. pc = "ret" /\ fret = "Ok" /\ fcall # "process" /\ pc' = "payload" /\ UNCHANGED <<reader, tvars>>
      BY <2>2 DEF ReadGoesOn, Enter
    <3>2. Aligned
      BY <1>3, <3>1 DEF Failing
    <3> QED BY <1>0, <3>1, <3>2, AlignedElsewhere DEF tvars
  <2>3. CASE WriteSends \/ FlushDone \/ InnerCloses \/ InnerAborts
    <3>1. /\ pc \in {"write", "flush", "inner_close", "inner_abort"} /\ pc' = "idle"
          /\ UNCHANGED <<rest, lost, eof, inbox, reader>>
      BY <1>7, <2>3
      DEF WriteSends, Send, FlushDone, InnerCloses, InnerAborts, Shut, tvars
    <3>2. Aligned
      BY <1>3, <3>1 DEF Failing
    <3> QED BY <1>0, <3>1, <3>2, AlignedElsewhere
  <2>4. CASE HandshakeFlushes \/ HandshakeSucceeds
    BY <1>5, <2>4 DEF HandshakeFlushes, HandshakeSucceeds, FPcs
  <2>5. CASE HandshakeWaits
    BY <1>4, <2>5 DEF HandshakeWaits, CallShape
  <2>6. CASE HandshakeFails
    BY <2>0, <2>6, WsErrors DEF HandshakeFails
  <2>7. CASE WsSocketFails
    BY <1>7, <2>0, <2>7 DEF WsSocketFails, Results
  <2> QED BY <1>8, <2>1, <2>2, <2>3, <2>4, <2>5, <2>6, <2>7 DEF WStep
<1>9. CASE AppCall
  <2>1. pc = "idle" /\ UNCHANGED <<reader, tvars>>
    BY <1>9
    DEF AppCall, WaitMessageCall, ReadCall, WriteCall, FlushCall, ReadyProbe,
        SetSendFrameType, CloseHandshakeCall, CloseCall, HandshakeCall, AbortCall, Begin,
        Reply, fvars
  <2>2. Aligned
    BY <1>3, <2>1 DEF Failing
  <2>3. ASSUME NEW o, HandshakeCall(o)
        PROVE  FALSE
    BY <2>3, Zenon DEF HandshakeCall
  <2>4. \/ pc' \notin {"hdr", "echo_recv", "echo_send"}
        \/ pc' = "hdr" /\ reader = None
    BY <1>9, <2>1, <2>3
    DEF AppCall, WaitMessageCall, ReadCall, WriteCall, FlushCall, ReadyProbe,
        SetSendFrameType, CloseHandshakeCall, CloseCall, AbortCall, Begin, Reply, fvars, Enter
  <2> QED BY <1>0, <2>1, <2>2, <2>4, AlignedElsewhere DEF tvars
<1>10. CASE Cancel
  <2>1. Harmless
    BY <1>10, Zenon DEF Cancel
  <2>2. /\ pc \notin {"echo_recv", "echo_send", "ret"} /\ pc' = "idle"
        /\ UNCHANGED <<reader, tvars>>
    BY <1>10, <2>1 DEF Harmless, Cancel, Interrupt, WsInterrupt
  <2>3. Aligned
    BY <1>3, <2>2 DEF Failing
  <2> QED BY <1>0, <2>2, <2>3, AlignedElsewhere DEF tvars
<1>11. CASE AnyPeer
  <2>1. UNCHANGED fvars /\ ((\E f \in Frame : Transmit(f)) \/ EndOfStream)
    BY <1>11 DEF AnyPeer
  <2>2. Failing => Failing'
    BY <2>1 DEF fvars, Failing
  <2> QED BY <1>0, <1>3, <2>1, <2>2, PeerAligned
<1>12. CASE UNCHANGED vars
  BY <1>3, <1>12 DEF vars, fvars, tvars, Failing, Aligned, Due
<1> QED BY <1>6, <1>8, <1>9, <1>10, <1>11, <1>12 DEF OpenNext, ServerStep

-----------------------------------------------------------------------------
(* The theorems. *)

\* The WebSocket begins in IInv.
LEMMA Initially ==
  ASSUME Init
  PROVE  IInv
<1>1. TTypeOK
  <2>1. lost \in BOOLEAN /\ eof \in BOOLEAN
    BY Zenon DEF Init, TInit
  <2>2. /\ inbox \in Seq(Frame) /\ rcvd \in Seq(Frame)
        /\ outbox \in Seq(OutFrame) /\ rest \in Nat
    BY DEF Init, TInit
  <2>3. /\ outstate \in {"clean", "partial", "torn"}
        /\ inner \in {"open", "closed", "aborted"}
    BY DEF Init, TInit
  <2> QED BY <2>1, <2>2, <2>3 DEF TTypeOK
<1>2. TypeOK
  BY <1>1 DEF Init, FInit, TypeOK, FTypeOK, WPcs, SocketStates, MessageTypes
<1>3. Shape /\ CutReported /\ ClosedIsShut
  BY DEF Init, FInit, TInit, Shape, FShape, CutReported, TornIsReported, ClosedIsShut
<1>4. CloseEvidence
  BY DEF Init, FInit, CloseEvidence, HandshakeBothWays
<1>5. CallShape
  <2>1. ~is_wait_for_pong
    BY Zenon DEF Init, FInit
  <2> QED BY <2>1, OpsAssumption DEF Init, FInit, CallShape, FPcs, ClosingOps, Ops
<1>6. SilentInv
  BY DEF Init, FInit, TInit, SilentInv, SilentAfterClose, DataAfterClose, CloseSent
<1>7. EchoInv
  <2>1. Pings = {} /\ Pongs = {} /\ Served = {} /\ pc = "idle"
    BY DEF Init, TInit, FInit, Pings, Pongs, Served
  <2>2. [i \in {} |-> 0] \in [Served -> Pongs] /\ Answers([i \in {} |-> 0])
    BY <2>1 DEF Answers
  <2> QED BY <2>1, <2>2 DEF EchoInv
<1> QED BY <1>2, <1>3, <1>4, <1>5, <1>6, <1>7 DEF IInv

\* Every step keeps IInv, whatever the peer sends.
LEMMA OpenInductive ==
  ASSUME IInv, [OpenNext]_vars
  PROVE  IInv'
BY StepTypes, StepShape, StepClose, StepCut, StepShut, StepCall, StepSilent, StepEcho
DEF IInv

\* IInv is an inductive invariant of the specification.
LEMMA Inductive ==
  /\ Init => IInv
  /\ IInv /\ [Next]_vars => IInv'
BY Initially, OpenInductive, NextIsOpen

\* web_socket never leaves its types, whatever the peer sends and whatever fails.
THEOREM TypeCorrect == Spec => []TypeOK
<1>1. IInv => TypeOK
  BY DEF IInv
<1> QED BY <1>1, Inductive, PTL DEF Spec

\* WsClosed is never entered without a Close sent and a Close received.
THEOREM HandshakeIsDone == Spec => []HandshakeBothWays
<1>1. IInv => HandshakeBothWays
  BY DEF IInv, CloseEvidence
<1> QED BY <1>1, Inductive, PTL DEF Spec

\* A WebSocket that is Closed has shut its socket.
THEOREM ClosedFreesSocket == Spec => []ClosedIsShut
<1>1. IInv => ClosedIsShut
  BY DEF IInv
<1> QED BY <1>1, Inductive, PTL DEF Spec

\* Nothing is written behind an unfinished frame unless the failure (or the
\* dropped call) that cut it is known to the application.
THEOREM CutsAreReported == Spec => []TornIsReported
<1>1. IInv => TornIsReported
  BY DEF IInv, CutReported
<1> QED BY <1>1, Inductive, PTL DEF Spec

\* After a Close frame no data frame is written unless the application has seen a
\* call fail: write() is refused in every other case.
THEOREM SilenceAfterClose == Spec => []SilentAfterClose
<1>1. IInv => SilentAfterClose
  BY DEF IInv, SilentInv
<1> QED BY <1>1, Inductive, PTL DEF Spec

\* Every Ping is answered by one Pong of its length, in order, between fragments
\* and across dropped calls, until a call fails.
THEOREM PingsAreEchoed == Spec => []PongsEchoPings
<1>1. IInv => PongsEchoPings
  BY DEF IInv, EchoInv, Reporting, PongsEchoPings
<1> QED BY <1>1, Inductive, PTL DEF Spec

\* The server and the application put nothing on the inbound wire.
LEMMA OwnStepsShrink ==
  ASSUME TTypeOK, [ServerStep \/ AppCall \/ Cancel]_vars
  PROVE  Len(inbox') <= Len(inbox)
<1>1. CASE FStep
  BY <1>1, FStepShrinks
<1>2. CASE ~FStep
  <2>1. inbox' = inbox \/ inbox' = <<>>
    <3>1. CASE WStep
      BY <3>1
      DEF WStep, WaitReturns, ReadGoesOn, ReadReturns, WriteSends, FlushDone,
          HandshakeFlushes, HandshakeWaits, HandshakeSucceeds, HandshakeFails, InnerCloses,
          InnerAborts, WsSocketFails, WsInterrupt, SendCut, Send, Shut, tvars
    <3>2. CASE AppCall
      BY <3>2
      DEF AppCall, WaitMessageCall, ReadCall, WriteCall, FlushCall, ReadyProbe,
          SetSendFrameType, CloseHandshakeCall, CloseCall, HandshakeCall, AbortCall, Begin,
          Reply, tvars
    <3>3. CASE Cancel
      BY <3>3 DEF Cancel, Interrupt, WsInterrupt, HeaderCut, PayloadCut, SendCut, tvars
    <3>4. CASE UNCHANGED vars
      BY <3>4 DEF vars, tvars
    <3> QED BY <1>2, <3>1, <3>2, <3>3, <3>4 DEF ServerStep
  <2> QED BY <2>1 DEF TTypeOK
<1> QED BY <1>1, <1>2

\* The peers whose frames are shorter than usize can count: all of them where
\* usize has 64 bits.
CountableFrames == \A f \in PeerFrames : f.len < UsizeMod

\* Until a call fails or the application begins to close, every header is read
\* where a frame begins, whatever calls are made, with whatever buffers, and
\* whichever of them are dropped.
THEOREM PositionKeptUnlessClosing ==
  ASSUME CountableFrames
  PROVE  Spec => []FramingKeptUnlessClosing
<1>1. Init => FramingKeptInv
  BY DEF Init, TInit, FInit, FramingKeptInv, InboxWhole, Aligned, Due
<1>2. ASSUME IInv, FramingKeptInv, [Next]_vars
      PROVE  FramingKeptInv'
  <2>1. TypeOK /\ Shape /\ CallShape /\ TypeOK' /\ TTypeOK
    BY <1>2, Inductive DEF IInv, TypeOK
  <2>2. ASSUME NEW f \in Frame, Transmit(f)
        PROVE  f.len < UsizeMod /\ f.avail = f.len
    <3>1. inbox' = Append(inbox, f) /\ inbox \in Seq(Frame) /\ ~eof
      BY <2>1, <2>2 DEF Transmit, TTypeOK
    <3>2. CASE \E g \in PeerFrames : Transmit(g)
      <4>1. PICK g \in PeerFrames : inbox' = Append(inbox, g)
        BY <3>2 DEF Transmit
      <4>2. g \in Frame /\ g.len < UsizeMod /\ g.avail = g.len
        BY TransportAssumption DEF CountableFrames
      <4>3. Append(inbox, f)[Len(inbox) + 1] = f /\ Append(inbox, g)[Len(inbox) + 1] = g
        BY <3>1, <4>2
      <4> QED BY <3>1, <4>1, <4>2, <4>3
    <3>3. CASE PeerEnds
      BY <2>2, <3>3 DEF PeerEnds, EndOfStream, Transmit
    <3>4. CASE [ServerStep \/ AppCall \/ Cancel]_vars
      BY <2>1, <3>1, <3>4, OwnStepsShrink
    <3> QED BY <1>2, <3>2, <3>3, <3>4 DEF Next, PeerStep, PeerSends
  <2> QED BY <1>2, <2>1, <2>2, NextIsOpen, StepFraming
<1>3. FramingKeptInv => FramingKeptUnlessClosing
  BY DEF FramingKeptInv, FramingKeptUnlessClosing, Aligned, Failing
<1> QED BY <1>1, <1>2, <1>3, Inductive, PTL DEF Spec

\* socket_state never goes back, although close_handshake() ignores it: a Close
\* can only arrive while the socket is open, and then the state is not Closed.
THEOREM StateAdvances == Spec => StateOnlyAdvances
<1>1. ASSUME IInv, [Next]_vars
      PROVE  [Rank(socket_state') >= Rank(socket_state)]_vars
  <2>1. socket_state \in SocketStates
    BY <1>1 DEF IInv, TypeOK
  <2>2. \/ socket_state' \in {socket_state, "Closed"}
        \/ socket_state' = "WsClosed" /\ pc = "ret" /\ fret = "ClosedByPeer"
    BY <1>1
    DEF Next, ServerStep, WStep, WaitReturns, StateAfterWait, ReadGoesOn, ReadReturns,
        WriteSends, FlushDone, HandshakeFlushes, HandshakeWaits, HandshakeSucceeds,
        HandshakeFails, HandshakeFailure, WsSocketFails, wvars, AppCall, WaitMessageCall,
        ReadCall, WriteCall, FlushCall, ReadyProbe, SetSendFrameType, CloseHandshakeCall,
        CloseCall, HandshakeCall, AbortCall, Begin, Reply, Cancel, PeerStep, vars,
        InnerCloses, InnerAborts
  <2>3. pc = "ret" /\ fret = "ClosedByPeer" => socket_state # "Closed"
    BY <1>1 DEF IInv, CloseEvidence, ClosedIsShut
  <2>4. Rank(socket_state') >= Rank(socket_state)
    BY <2>1, <2>2, <2>3 DEF Rank, SocketStates
  <2> QED BY <2>4
<1>2. IInv /\ [Next]_vars => [Rank(socket_state') >= Rank(socket_state)]_vars
  BY <1>1
<1> QED BY <1>2, Inductive, PTL DEF Spec, StateOnlyAdvances
=============================================================================
