-------------------------- MODULE WsConnectionProofs --------------------------
(***************************************************************************)
(* Proofs about WsConnection, for every client that follows the protocol,   *)
(* every set of sizes, every bound, with and without faults and dropped     *)
(* calls: what the application is told of a Close is true, every Ping is    *)
(* answered, and the connection implements MessageStream.                   *)
(***************************************************************************)
EXTENDS WsConnection, WebSocketProofs, SequenceTheorems

-----------------------------------------------------------------------------
(* The inductive invariant. *)

\* Where a Close can come from: the client, or bytes read after framing was lost.
GenuineInv ==
  /\ \A i \in 1 .. Len(inbox) : inbox[i].type = "Close" => cclose
  /\ pc \in {"echo_recv", "echo_send"} /\ fhdr.type = "Close" => cclose \/ lost
  /\ pc = "ret" /\ fret = "ClosedByPeer" => cclose \/ lost
  /\ pc = "inner_close" => cclose \/ lost
  /\ CloseIsGenuine

ReadingNow == pc \in FPcs /\ fcall \in {"wait_data", "payload"}

\* The application reads only while nothing has failed and it has not closed, with
\* a buffer it chose; only a read without a reader waits for a data frame.
ReadingInv ==
  /\ closing => errored \/ ~Ready \/ op \in ClosingOps
  /\ ReadingNow => ~errored
  /\ pc \in FPcs /\ fcall = "payload" => op = "read"
  /\ pc \in FPcs /\ op = "read" => buflen \in BufSizes
  /\ pc = "ret" /\ fcall = "payload" => nread \in 0 .. buflen
  /\ pc \in {"hdr", "echo_recv", "echo_send"} /\ fcall = "wait_data" => reader = None
  /\ ~eof

Message == Abstract!Message

AllDone(s) == s # <<>> => s[Len(s)].done

\* wait_data_frame has accepted the first frame of a message that the application
\* has not been shown yet; receive_frame_payload has read bytes that it has not.
Announcing == pc = "ret" /\ fcall = "wait_data"
Unshown == IF pc = "ret" /\ fcall = "payload" THEN nread ELSE 0

\* The messages as far as their headers have been received.
Received ==
  IF reader = None THEN got
  ELSE IF Announcing
    THEN Append(got, [type |-> reader.frame_type, len |-> reader.payload_len,
                      done |-> reader.is_final])
    ELSE Grow(got, Unshown + reader.payload_len, reader.is_final)

\* The frame f takes the messages from s to t.
Extends(s, f, t) ==
  \/ /\ f.type \in MessageTypes /\ AllDone(s)
     /\ t = Append(s, [type |-> f.type, len |-> f.len, done |-> f.fin])
  \/ /\ f.type = "Continue" /\ ~AllDone(s)
     /\ t = Grow(s, f.len, f.fin)
  \/ f.type \in {"Ping", "Close"} /\ t = s

\* The messages s are the beginning of the messages t.
Begun(s, t) ==
  /\ Len(s) <= Len(t)
  /\ \A k \in 1 .. Len(s) :
       /\ s[k].len <= t[k].len /\ s[k].type = t[k].type
       /\ s[k].done => t[k] = s[k]

\* steps leads from what was received, frame by frame of the wire, to what was sent.
Leads(steps) ==
  /\ steps[0] = Received
  /\ steps[Len(inbox)] = sent
  /\ \A i \in 1 .. Len(inbox) : Extends(steps[i - 1], inbox[i], steps[i])
  /\ \A i \in 0 .. Len(inbox) : Begun(steps[i], sent)

OnTheWire == \E steps \in [0 .. Len(inbox) -> Seq(Message)] : Leads(steps)

\* What the application has, what the reader holds and what is on the wire make
\* up what the client sent.
InStream ==
  /\ Announcing /\ reader # None => AllDone(got)
  /\ ~Announcing /\ reader # None => ~AllDone(got)
  /\ OnTheWire

StreamInv ==
  /\ sent \in Seq(Message) /\ got \in Seq(Message)
  /\ errored \/ closing \/ Failing \/ InStream

-----------------------------------------------------------------------------
(* The client is a peer like any other. *)

\* What the client puts on the wire is a frame, whole.
LEMMA ClientFrames ==
  ASSUME NEW t \in {"Text", "Binary", "Continue", "Ping", "Close"}, NEW fin \in BOOLEAN,
         NEW n \in Nat
  PROVE  ClientFrame(t, fin, n) \in Frame
BY DEF ClientFrame, Frame, FrameTypes

\* A step of the client puts one frame on the wire, or none.
LEMMA ClientSteps ==
  ASSUME Client
  PROVE  /\ UNCHANGED <<fvars, wvars, got>>
         /\ \/ UNCHANGED <<tvars, sent, cclose>>
            \/ /\ \E n \in DataSizes, fin \in BOOLEAN :
                     (\E t \in MessageTypes : ClientFirst(t, n, fin)) \/ ClientContinues(n, fin)
               /\ UNCHANGED cclose
            \/ Transmit(ClientFrame("Ping", TRUE, 1)) /\ UNCHANGED <<sent, cclose>>
            \/ Transmit(ClientFrame("Close", TRUE, 1)) /\ UNCHANGED sent /\ cclose'
<1>1. CASE ClientSendsData
  BY <1>1 DEF ClientSendsData
<1>2. CASE ClientPings
  BY <1>2 DEF ClientPings, cvars
<1>3. CASE ClientCloses
  BY <1>3, Zenon DEF ClientCloses
<1>4. CASE ClientReads
  BY <1>4, Zenon DEF ClientReads
<1> QED BY <1>1, <1>2, <1>3, <1>4 DEF Client

\* The frame a client's step puts on the wire.
LEMMA ClientTransmits ==
  ASSUME Client
  PROVE  UNCHANGED tvars \/ \E t \in {"Text", "Binary", "Continue", "Ping", "Close"},
                               fin \in BOOLEAN, n \in DataSizes \cup {1} :
                                  /\ Transmit(ClientFrame(t, fin, n))
                                  /\ t = "Close" => cclose'
<1>1. CASE UNCHANGED tvars
  BY <1>1
<1>2. CASE \E n \in DataSizes, fin \in BOOLEAN :
              (\E t \in MessageTypes : ClientFirst(t, n, fin)) \/ ClientContinues(n, fin)
  BY <1>2 DEF ClientFirst, ClientContinues, MessageTypes
<1>3. CASE Transmit(ClientFrame("Ping", TRUE, 1))
  BY <1>3
<1>4. CASE Transmit(ClientFrame("Close", TRUE, 1)) /\ cclose'
  BY <1>4
<1> QED BY <1>1, <1>2, <1>3, <1>4, ClientSteps

\* So the connection is a WebSocket with one of the peers it was proved with.
LEMMA CNextIsOpen == [CNext]_cnvars => [OpenNext]_vars
<1>1. CASE Client
  <2>1. UNCHANGED <<fvars, wvars>>
    BY <1>1, ClientSteps
  <2>2. UNCHANGED tvars \/ \E f \in Frame : Transmit(f)
    BY <1>1, ClientTransmits, ClientFrames, ClientAssumption
  <2> QED BY <2>1, <2>2 DEF OpenNext, AnyPeer, vars
<1>2. CASE App
  BY <1>2
  DEF App, AppReads, AppOther, AppCloses, OpenNext, AppCall
<1>3. CASE Server \/ AppDrops
  BY <1>3 DEF Server, AppDrops, OpenNext
<1>4. CASE UNCHANGED cnvars
  BY <1>4 DEF cnvars
<1> QED BY <1>1, <1>2, <1>3, <1>4 DEF CNext

\* IInv holds of the connection.
LEMMA Connected ==
  /\ CInit => IInv
  /\ IInv /\ [CNext]_cnvars => IInv'
BY Initially, OpenInductive, CNextIsOpen DEF CInit

\* Every Ping of the client is answered, in order, until a call fails.
THEOREM ClientPingsAreEchoed == CSpec => []PongsEchoPings
<1>1. IInv => PongsEchoPings
  BY DEF IInv, EchoInv, Reporting, PongsEchoPings
<1> QED BY <1>1, Connected, PTL DEF CSpec

-----------------------------------------------------------------------------
(* What the application is told of a Close. *)

\* Framing once lost stays lost.
LEMMA LostForGood ==
  ASSUME TransportStep, lost
  PROVE  lost'
BY Zenon
DEF TransportStep, Transmit, EndOfStream, RecvHeader, Garbled, Consume, HeaderCut, PayloadCut,
    Send, SendCut, Shut, tvars

\* What the steps other than the client's leave alone.
LEMMA ClientStands ==
  ASSUME [App \/ Server \/ AppDrops]_cnvars
  PROVE  UNCHANGED <<sent, cclose>> /\ [ServerStep \/ AppCall \/ Cancel]_vars
<1>1. CASE App
  BY <1>1 DEF App, AppReads, AppOther, AppCloses, AppCall, cvars
<1>2. CASE Server \/ AppDrops
  BY <1>2 DEF Server, AppDrops, cvars
<1>3. CASE UNCHANGED cnvars
  BY <1>3 DEF cnvars, cvars
<1> QED BY <1>1, <1>2, <1>3

\* A Close on the wire was sent by the client.
LEMMA WireGenuine ==
  ASSUME IInv, [CNext]_cnvars,
         \A i \in 1 .. Len(inbox) : inbox[i].type = "Close" => cclose
  PROVE  /\ cclose \/ lost => cclose' \/ lost'
         /\ \A i \in 1 .. Len(inbox') : inbox'[i].type = "Close" => cclose'
<1>0. TTypeOK /\ TransportStep
  BY CNextIsOpen, StepTransport DEF IInv, TypeOK
<1>1. cclose => cclose'
  BY ClientSteps, ClientStands, Zenon DEF CNext
<1>2. ASSUME NEW i \in 1 .. Len(inbox'), inbox'[i].type = "Close"
      PROVE  cclose'
  <2>1. CASE \E j \in 1 .. Len(inbox) : inbox'[i].type = inbox[j].type
    BY <1>1, <1>2, <2>1
  <2>2. CASE \E f \in Frame : Transmit(f) /\ inbox'[i] = f /\ i = Len(inbox')
    <3>1. PICK f \in Frame : inbox' = Append(inbox, f) /\ f.type = "Close"
      BY <1>2, <2>2 DEF Transmit
    <3>2. Len(inbox') = Len(inbox) + 1 /\ inbox'[Len(inbox) + 1] = f
      BY <1>0, <3>1 DEF TTypeOK
    <3>3. Client
      BY <1>0, <3>2, ClientStands, OwnStepsShrink DEF CNext, TTypeOK
    <3>4. ~UNCHANGED tvars
      BY <1>0, <3>2 DEF tvars, TTypeOK
    <3>5. PICK t \in {"Text", "Binary", "Continue", "Ping", "Close"},
               fin \in BOOLEAN, n \in DataSizes \cup {1} :
                  Transmit(ClientFrame(t, fin, n)) /\ (t = "Close" => cclose')
      BY <3>3, <3>4, ClientTransmits
    <3>6. ClientFrame(t, fin, n) \in Frame /\ ClientFrame(t, fin, n).type = t
      BY ClientFrames, ClientAssumption DEF ClientFrame
    <3>7. inbox'[Len(inbox) + 1] = ClientFrame(t, fin, n)
      BY <1>0, <3>5, <3>6 DEF Transmit, TTypeOK
    <3> QED BY <3>1, <3>2, <3>5, <3>6, <3>7
  <2> QED BY <1>0, <2>1, <2>2, InboxFrames
<1> QED BY <1>0, <1>1, <1>2, LostForGood

\* frame_controller.rs takes for a Close only what the wire, or lost framing, shows.
LEMMA FStepGenuine ==
  ASSUME IInv, FStep, GenuineInv, cclose \/ lost => cclose' \/ lost', UNCHANGED <<socket_state>>
  PROVE  /\ pc' \in {"echo_recv", "echo_send"} /\ fhdr'.type = "Close" => cclose' \/ lost'
         /\ pc' = "ret" /\ fret' = "ClosedByPeer" => cclose' \/ lost'
         /\ pc' # "inner_close"
         /\ CloseIsGenuine'
<1>0. TTypeOK /\ FTypeOK /\ FShape /\ pc' \in FPcs
  BY FStepTypes DEF IInv, TypeOK, Shape
<1>1. pc' # "inner_close"
  BY <1>0 DEF FPcs
<1>2. CloseIsGenuine'
  <2>1. UNCHANGED inner
    BY DEF FStep, ReceiveHeader, RecvHeader, HeaderEof, SendBackRecv, SendBackRecvFails,
           SendBackSend, PayloadRead, PayloadEof, PayloadNothing, PayloadNextFragment,
           SendFrame, SocketFails, Interrupt, HeaderCut, PayloadCut, SendCut, Consume, Send,
           tvars
  <2> QED BY <2>1 DEF GenuineInv, CloseIsGenuine
<1>3. CASE ReceiveHeader
  <2>1. PICK f \in NextHeaders :
          /\ RecvHeader(f)
          /\ IF Malformed(f)
               THEN Return("InvalidFrame") /\ KeepFlags /\ UNCHANGED reader
               ELSE OnData(f) \/ OnClose(f) \/ OnPing(f) \/ OnPong(f) \/ OversizedControl(f)
    BY <1>3 DEF ReceiveHeader
  <2>2. f.type = "Close" => cclose' \/ lost'
    <3>1. CASE Garbled
      BY <2>1, <3>1, Zenon DEF RecvHeader
    <3>2. CASE ~Garbled
      <4>1. 1 \in 1 .. Len(inbox) /\ f = inbox[1]
        BY <1>0, <2>1, <3>2 DEF NextHeaders, TTypeOK
      <4> QED BY <4>1 DEF GenuineInv
    <3> QED BY <3>1, <3>2
  <2>3. CASE OnClose(f)
    <3>1. f.type = "Close"
      BY <2>3 DEF OnClose
    <3> QED BY <1>1, <1>2, <2>2, <3>1
  <2>4. CASE OnPing(f)
    <3>1. pc' = "echo_recv" /\ fhdr'.type = "Ping"
      BY <2>4 DEF OnPing
    <3> QED BY <1>1, <1>2, <3>1
  <2>5. CASE Return("InvalidFrame") \/ OnData(f) \/ OnPong(f) \/ OversizedControl(f)
    <3>1. pc' \in {"payload", "hdr"} \/ (pc' = "ret" /\ fret' # "ClosedByPeer")
      BY <2>5 DEF OnData, OnPong, OversizedControl, Return
    <3> QED BY <1>1, <1>2, <3>1
  <2> QED BY <2>1, <2>3, <2>4, <2>5
<1>4. CASE SendBackRecv
  <2>1. pc = "echo_recv" /\ pc' = "echo_send" /\ UNCHANGED fhdr
    BY <1>4 DEF SendBackRecv
  <2> QED BY <1>1, <1>2, <2>1 DEF GenuineInv
<1>5. CASE SendBackSend
  <2>1. pc = "echo_send" /\ fhdr.type \in {"Ping", "Close"}
    BY <1>0, <1>5 DEF SendBackSend, FShape
  <2>2. CASE fhdr.type = "Close"
    BY <1>1, <1>2, <2>1, <2>2 DEF GenuineInv
  <2>3. CASE fhdr.type = "Ping"
    <3>1. pc' = "hdr"
      BY <1>5, <2>3 DEF SendBackSend
    <3> QED BY <1>1, <1>2, <3>1
  <2> QED BY <2>1, <2>2, <2>3
<1>6. CASE ~ReceiveHeader /\ ~SendBackRecv /\ ~SendBackSend
  <2>1. pc' = "hdr" \/ (pc' = "ret" /\ fret' # "ClosedByPeer")
    BY <1>6
    DEF FStep, HeaderEof, SendBackRecvFails, PayloadRead, PayloadEof, PayloadNothing,
        PayloadNextFragment, SendFrame, SocketFails, Return, ReturnCount
  <2> QED BY <1>1, <1>2, <2>1
<1> QED BY <1>3, <1>4, <1>5, <1>6

\* Nothing but a Close of the client, or lost framing, makes the handshake done.
LEMMA StepGenuine ==
  ASSUME IInv, GenuineInv, [CNext]_cnvars
  PROVE  GenuineInv'
<1>0. /\ cclose \/ lost => cclose' \/ lost'
      /\ \A i \in 1 .. Len(inbox') : inbox'[i].type = "Close" => cclose'
  BY WireGenuine DEF GenuineInv
<1>1. CASE FStep /\ UNCHANGED wvars
  BY <1>0, <1>1, FStepGenuine DEF GenuineInv, wvars
<1>2. ASSUME \/ pc' \notin {"echo_recv", "echo_send", "ret", "inner_close"}
             \/ pc' = "ret" /\ fret' # "ClosedByPeer",
             socket_state' = "WsClosed" => socket_state = "WsClosed" \/ (pc = "ret" /\ fret = "ClosedByPeer"),
             inner' = "closed" => inner = "closed" \/ pc = "inner_close"
      PROVE  GenuineInv'
  BY <1>0, <1>2 DEF GenuineInv, CloseIsGenuine
<1>3. CASE WStep
  <2>1. CASE WaitReturns
    <3>1. /\ pc' = "idle" /\ UNCHANGED inner
          /\ socket_state' = socket_state \/ (pc = "ret" /\ fret = "ClosedByPeer")
      BY <2>1 DEF WaitReturns, Finish, StateAfterWait, tvars
    <3> QED BY <1>2, <3>1
  <2>2. CASE ReadGoesOn \/ ReadReturns \/ WriteSends \/ FlushDone \/ HandshakeFlushes
             \/ HandshakeWaits \/ HandshakeFails \/ WsSocketFails
    <3>1. UNCHANGED <<socket_state, inner>>
          /\ pc' \in {"idle", "payload", "flush", "hdr", "inner_abort"}
      BY <2>2 DEF ReadGoesOn, ReadReturns, WriteSends, FlushDone, HandshakeFlushes,
                  HandshakeWaits, HandshakeFails, WsSocketFails, HandshakeFailure, Finish,
                  GoOn, Enter, wvars, tvars, Send, WsInterrupt, SendCut
    <3> QED BY <1>2, <3>1
  <2>3. CASE HandshakeSucceeds
    <3>1. cclose' \/ lost'
      BY <1>0, <2>3 DEF HandshakeSucceeds, GenuineInv
    <3> QED BY <1>0, <3>1 DEF GenuineInv, CloseIsGenuine
  <2>4. CASE InnerCloses \/ InnerAborts
    <3>1. /\ pc' = "idle" /\ socket_state' = "Closed"
          /\ inner' = "closed" => inner = "closed" \/ pc = "inner_close"
      BY <2>4 DEF InnerCloses, InnerAborts, Finish, Shut
    <3> QED BY <1>2, <3>1
  <2> QED BY <1>3, <2>1, <2>2, <2>3, <2>4 DEF WStep
<1>4. CASE AppCall
  <2>1. UNCHANGED <<socket_state, inner>> /\ pc = "idle"
    BY <1>4
    DEF AppCall, WaitMessageCall, ReadCall, WriteCall, FlushCall, ReadyProbe,
        SetSendFrameType, CloseHandshakeCall, CloseCall, HandshakeCall, AbortCall, Begin,
        Reply, fvars, tvars
  <2>2. \/ pc' \in {"idle", "hdr", "payload", "write", "flush", "send", "inner_abort"}
        \/ pc' = "ret" /\ fret' # "ClosedByPeer"
    BY <1>4
    DEF AppCall, WaitMessageCall, ReadCall, WriteCall, FlushCall, ReadyProbe,
        SetSendFrameType, CloseHandshakeCall, CloseCall, HandshakeCall, AbortCall, Begin,
        Reply, fvars, Enter, EnterSend, SendCloseEntry
  <2> QED BY <1>2, <2>1, <2>2
<1>5. CASE Cancel
  <2>1. UNCHANGED <<socket_state, inner>> /\ pc' = "idle"
    BY <1>5
    DEF Cancel, Interrupt, WsInterrupt, HeaderCut, PayloadCut, SendCut, tvars
  <2> QED BY <1>2, <2>1
<1>6. CASE AnyPeer \/ UNCHANGED vars
  <2>1. UNCHANGED <<fvars, wvars>> /\ UNCHANGED inner
    BY <1>6 DEF AnyPeer, Transmit, EndOfStream, vars, tvars
  <2> QED BY <1>0, <2>1 DEF fvars, wvars, GenuineInv, CloseIsGenuine
<1> QED BY <1>1, <1>3, <1>4, <1>5, <1>6, CNextIsOpen DEF OpenNext, ServerStep

\* The handshake is reported done, and the socket closed in good order, only if
\* the client has sent a Close, or bytes were read after framing was lost.
THEOREM ClosesAreGenuine == CSpec => []CloseIsGenuine
<1>1. CInit => GenuineInv
  BY DEF CInit, Init, TInit, FInit, GenuineInv, CloseIsGenuine
<1>2. GenuineInv => CloseIsGenuine
  BY DEF GenuineInv
<1> QED BY <1>1, <1>2, StepGenuine, Connected, PTL DEF CSpec

-----------------------------------------------------------------------------
(* When the application reads. *)

\* After close_handshake() or close() has returned, the WebSocket is not Ready or
\* the application has seen a failure.
LEMMA StepClosing ==
  ASSUME TypeOK, CallShape, [OpenNext]_vars, closing => errored \/ ~Ready \/ op \in ClosingOps
  PROVE  /\ closing => closing'
         /\ closing' => errored' \/ ~Ready' \/ op' \in ClosingOps
<1>0. errored => errored'
  BY StepErrored
<1>1. ~Ready => ~Ready'
  <2>1. socket_state' \in {socket_state, "WsClosed", "Closed"}
    BY DEF OpenNext, ServerStep, WStep, WaitReturns, StateAfterWait, ReadGoesOn, ReadReturns,
           WriteSends, FlushDone, HandshakeFlushes, HandshakeWaits, HandshakeSucceeds,
           HandshakeFails, HandshakeFailure, InnerCloses, InnerAborts, WsSocketFails, wvars,
           AppCall, WaitMessageCall, ReadCall, WriteCall, FlushCall, ReadyProbe,
           SetSendFrameType, CloseHandshakeCall, CloseCall, HandshakeCall, AbortCall, Begin,
           Reply, Cancel, AnyPeer, vars
  <2> QED BY <2>1 DEF Ready
<1>2. CASE HandshakeCall("close") \/ HandshakeCall("close_handshake")
  <2>1. closing'
    BY <1>2, Zenon DEF HandshakeCall
  <2>2. op' \in ClosingOps
    BY <1>2 DEF HandshakeCall, Begin, ClosingOps
  <2> QED BY <2>1, <2>2
<1>3. CASE ~(HandshakeCall("close") \/ HandshakeCall("close_handshake"))
  <2>1. UNCHANGED closing
    BY <1>3
    DEF OpenNext, ServerStep, WStep, WaitReturns, ReadGoesOn, ReadReturns, WriteSends,
        FlushDone, HandshakeFlushes, HandshakeWaits, HandshakeSucceeds, HandshakeFails,
        HandshakeFailure, InnerCloses, InnerAborts, WsSocketFails, Finish, GoOn, wvars,
        AppCall, WaitMessageCall, ReadCall, WriteCall, FlushCall, ReadyProbe,
        SetSendFrameType, CloseHandshakeCall, CloseCall, AbortCall, Reply, Cancel, AnyPeer,
        vars
  <2> SUFFICES ASSUME closing, ~errored', Ready'
               PROVE  op' \in ClosingOps
    BY <2>1
  <2>2. op \in ClosingOps
    BY <1>0, <1>1
  <2>3. ASSUME NEW r, Finish(r)
        PROVE  r = "Ok"
    BY <2>3, Zenon DEF Finish
  <2>4. ASSUME NEW e \in Results \ {"Ok"}, HandshakeFailure(e)
        PROVE  op' \in ClosingOps
    BY <2>3, <2>4 DEF HandshakeFailure, GoOn, ClosingOps
  <2>5. CASE FStep /\ UNCHANGED wvars
    BY <2>2, <2>5 DEF wvars
  <2>6. CASE WStep
    <3>1. CASE WaitReturns \/ ReadReturns \/ ReadGoesOn
      BY <2>2, <3>1 DEF WaitReturns, ReadReturns, ReadGoesOn, CallShape, FPcs, ClosingOps
    <3>2. CASE WriteSends \/ FlushDone
      BY <2>2, <3>2 DEF WriteSends, FlushDone, CallShape, ClosingOps
    <3>3. CASE HandshakeFlushes \/ HandshakeWaits
      BY <2>2, <3>3 DEF HandshakeFlushes, HandshakeWaits, GoOn
    <3>4. CASE HandshakeSucceeds \/ InnerCloses \/ InnerAborts
      BY <3>4 DEF HandshakeSucceeds, InnerCloses, InnerAborts, Ready
    <3>5. CASE HandshakeFails
      BY <2>4, <3>5, WsErrors DEF HandshakeFails
    <3>6. CASE WsSocketFails
      BY <2>3, <2>4, <3>6 DEF WsSocketFails, Results
    <3> QED BY <2>6, <3>1, <3>2, <3>3, <3>4, <3>5, <3>6 DEF WStep
  <2>7. CASE AppCall
    <3>1. pc = "idle"
      BY <2>7
      DEF AppCall, WaitMessageCall, ReadCall, WriteCall, FlushCall, ReadyProbe,
          SetSendFrameType, CloseHandshakeCall, CloseCall, HandshakeCall, AbortCall, Begin,
          Reply
    <3> QED BY <2>2, <3>1, OpsAssumption DEF CallShape, ClosingOps, Ops
  <2>8. CASE Cancel
    <3>1. Harmless
      BY <2>8, Zenon DEF Cancel
    <3> QED BY <2>2, <3>1 DEF Harmless, ClosingOps
  <2>9. CASE AnyPeer \/ UNCHANGED vars
    BY <2>2, <2>9 DEF AnyPeer, vars, wvars
  <2> QED BY <2>5, <2>6, <2>7, <2>8, <2>9 DEF OpenNext, ServerStep
<1> QED BY <1>2, <1>3

\* receive_frame_payload never returns more bytes than the buffer holds, and
\* wait_data_frame makes a reader only when it returns.
LEMMA FStepReading ==
  ASSUME TTypeOK, FTypeOK, FShape, FStep,
         pc \in {"hdr", "echo_recv", "echo_send"} /\ fcall = "wait_data" => reader = None
  PROVE  /\ UNCHANGED buflen
         /\ pc' = "ret" /\ fcall' = "payload" => nread' \in 0 .. buflen
         /\ pc' \in {"hdr", "echo_recv", "echo_send"} /\ fcall' = "wait_data" => reader' = None
<1>1. CASE ReceiveHeader
  <2>1. PICK f \in NextHeaders :
          /\ RecvHeader(f)
          /\ IF Malformed(f)
               THEN Return("InvalidFrame") /\ KeepFlags /\ UNCHANGED reader
               ELSE OnData(f) \/ OnClose(f) \/ OnPing(f) \/ OnPong(f) \/ OversizedControl(f)
    BY <1>1 DEF ReceiveHeader
  <2>2. UNCHANGED <<fcall, buflen>> /\ pc = "hdr"
    BY <1>1 DEF ReceiveHeader
  <2>3. /\ pc' = "ret" => nread' = 0
        /\ UNCHANGED reader \/ pc' \in {"ret", "payload"}
    BY <2>1 DEF OnData, OnClose, ClosedByPeer, OnPing, OnPong, OversizedControl, Return
  <2> QED BY <2>2, <2>3 DEF FTypeOK
<1>2. CASE PayloadRead
  <2>1. PICK n \in ToRead : ReturnCount(n)
    BY <1>2 DEF PayloadRead
  <2>2. reader \in Reader
    BY <1>2 DEF PayloadRead, FShape
  <2>3. n \in 0 .. buflen
    BY <2>2 DEF ToRead, FTypeOK, Reader
  <2> QED BY <2>1, <2>3 DEF ReturnCount
<1>3. CASE ~ReceiveHeader /\ ~PayloadRead
  <2>1. /\ UNCHANGED <<buflen, fcall, reader>> /\ (pc' = "ret" => nread' = 0)
        /\ pc' = "hdr" => pc = "echo_send" \/ fcall = "payload"
        /\ pc' = "echo_send" => pc = "echo_recv"
        /\ pc' # "echo_recv"
    BY <1>3
    DEF FStep, HeaderEof, SendBackRecv, SendBackRecvFails, SendBackSend, ClosedByPeer,
        PayloadEof, PayloadNothing, PayloadNextFragment, SendFrame, SocketFails, Return,
        ReturnCount, FShape
  <2> QED BY <2>1 DEF FTypeOK
<1> QED BY <1>1, <1>2, <1>3

\* The client does not end the stream.
LEMMA StreamStaysOpen ==
  ASSUME IInv, [CNext]_cnvars, ~eof
  PROVE  ~eof'
<1>1. CASE Client
  BY <1>1, ClientTransmits DEF Transmit, tvars
<1>2. CASE FStep
  BY <1>2
  DEF FStep, ReceiveHeader, RecvHeader, HeaderEof, SendBackRecv, SendBackRecvFails,
      SendBackSend, PayloadRead, PayloadEof, PayloadNothing, PayloadNextFragment, SendFrame,
      SocketFails, Interrupt, HeaderCut, PayloadCut, SendCut, Consume, Send, tvars
<1>3. CASE WStep
  BY <1>3
  DEF WStep, WaitReturns, ReadGoesOn, ReadReturns, WriteSends, FlushDone, HandshakeFlushes,
      HandshakeWaits, HandshakeSucceeds, HandshakeFails, InnerCloses, InnerAborts,
      WsSocketFails, WsInterrupt, SendCut, Send, Shut, tvars
<1>4. CASE AppCall
  BY <1>4
  DEF AppCall, WaitMessageCall, ReadCall, WriteCall, FlushCall, ReadyProbe,
      SetSendFrameType, CloseHandshakeCall, CloseCall, HandshakeCall, AbortCall, Begin,
      Reply, tvars
<1>5. CASE Cancel
  BY <1>5 DEF Cancel, Interrupt, WsInterrupt, HeaderCut, PayloadCut, SendCut, tvars
<1>6. CASE UNCHANGED vars
  BY <1>6 DEF vars, tvars
<1> QED BY <1>1, <1>2, <1>3, <1>4, <1>5, <1>6, ClientStands DEF CNext, ServerStep

\* Every step keeps the application to what it may do.
LEMMA StepReading ==
  ASSUME IInv, ReadingInv, [CNext]_cnvars
  PROVE  ReadingInv'
<1>0. TypeOK /\ TTypeOK /\ FTypeOK /\ FShape /\ CallShape
  BY DEF IInv, TypeOK, Shape
<1>1. closing' => errored' \/ ~Ready' \/ op' \in ClosingOps
  BY <1>0, CNextIsOpen, StepClosing DEF ReadingInv
<1>2. ~eof'
  BY StreamStaysOpen DEF ReadingInv
<1>3. ASSUME pc' \notin FPcs
      PROVE  ReadingInv'
  <2>1. pc' \notin {"ret", "hdr", "echo_recv", "echo_send"}
    BY <1>3 DEF FPcs
  <2> QED BY <1>1, <1>2, <1>3, <2>1 DEF ReadingInv, ReadingNow
<1>4. ASSUME fcall' \in {"send_close", "process"}, op' # "read"
      PROVE  ReadingInv'
  BY <1>1, <1>2, <1>4 DEF ReadingInv, ReadingNow
<1>5. CASE FStep /\ UNCHANGED wvars
  <2>1. UNCHANGED <<fcall, errored, op, buflen>> /\ pc \in FPcs
    BY <1>0, <1>5, FStepCall, FStepReading DEF ReadingInv, wvars
  <2>2. /\ pc' = "ret" /\ fcall' = "payload" => nread' \in 0 .. buflen
        /\ pc' \in {"hdr", "echo_recv", "echo_send"} /\ fcall' = "wait_data" => reader' = None
    BY <1>0, <1>5, FStepReading DEF ReadingInv
  <2> QED BY <1>1, <1>2, <2>1, <2>2 DEF ReadingInv, ReadingNow
<1>6. ASSUME NEW r, Finish(r)
      PROVE  ReadingInv'
  BY <1>3, <1>6 DEF Finish, FPcs
<1>7. ASSUME NEW e, HandshakeFailure(e)
      PROVE  ReadingInv'
  BY <1>3, <1>6, <1>7 DEF HandshakeFailure, GoOn, Enter, FPcs
<1>8. CASE WStep
  <2>1. CASE WaitReturns \/ ReadReturns \/ WriteSends \/ FlushDone
    BY <1>6, <2>1 DEF WaitReturns, ReadReturns, WriteSends, FlushDone
  <2>2. CASE ReadGoesOn
    <3>1. /\ pc = "ret" /\ op = "read" /\ fcall = "wait_data"
          /\ pc' = "payload" /\ fcall' = "payload" /\ UNCHANGED <<op, buflen, errored>>
      BY <2>2 DEF ReadGoesOn, Enter, wvars
    <3>2. ~errored /\ buflen \in BufSizes
      BY <3>1 DEF ReadingInv, ReadingNow, FPcs
    <3> QED BY <1>1, <1>2, <3>1, <3>2 DEF ReadingInv
  <2>3. CASE HandshakeFlushes \/ HandshakeWaits
    <3>1. op' \in ClosingOps /\ (pc' = "flush" \/ fcall' = "process")
      BY <1>0, <2>3 DEF HandshakeFlushes, HandshakeWaits, GoOn, Enter, CallShape, FPcs
    <3> QED BY <1>3, <1>4, <3>1 DEF ClosingOps, FPcs
  <2>4. CASE HandshakeSucceeds
    BY <1>3, <1>6, <2>4 DEF HandshakeSucceeds, GoOn, Enter, FPcs
  <2>5. CASE HandshakeFails \/ WsSocketFails
    BY <1>6, <1>7, <2>5 DEF HandshakeFails, WsSocketFails
  <2>6. CASE InnerCloses \/ InnerAborts
    BY <1>6, <2>6 DEF InnerCloses, InnerAborts
  <2> QED BY <1>8, <2>1, <2>2, <2>3, <2>4, <2>5, <2>6 DEF WStep
<1>9. ASSUME NEW r, Reply(r)
      PROVE  ReadingInv'
  BY <1>3, <1>9 DEF Reply, fvars, FPcs
<1>10. CASE App
  <2>1. CASE AppReads
    <3>1. PICK b \in BufSizes : ReadCall(b)
      BY <2>1 DEF AppReads
    <3>2. CASE Begin("read") /\ buflen' = b /\ reader = None /\ Enter("wait_data", "hdr")
      <4>1. ~errored'
        BY <2>1, <3>2, Zenon DEF AppReads, Begin
      <4> QED BY <1>1, <1>2, <3>2, <4>1 DEF Begin, Enter, ReadingInv
    <3>3. CASE Begin("read") /\ buflen' = b /\ Enter("payload", "payload")
      <4>1. ~errored'
        BY <2>1, <3>3, Zenon DEF AppReads, Begin
      <4> QED BY <1>1, <1>2, <3>3, <4>1 DEF Begin, Enter, ReadingInv
    <3> QED BY <1>9, <3>1, <3>2, <3>3 DEF ReadCall
  <2>2. CASE ~errored /\ WaitMessageCall
    <3>1. CASE reader = None /\ Begin("wait_message") /\ Enter("wait_data", "hdr")
      <4>1. ~errored'
        BY <2>2, <3>1, Zenon DEF Begin
      <4> QED BY <1>1, <1>2, <3>1, <4>1 DEF Begin, Enter, ReadingInv
    <3> QED BY <1>9, <2>2, <3>1 DEF WaitMessageCall
  <2>3. CASE (\E b \in BufSizes : WriteCall(b)) \/ AbortCall
    BY <1>3, <1>9, <2>3 DEF WriteCall, AbortCall, Enter, FPcs
  <2>4. CASE CloseCall \/ CloseHandshakeCall
    <3>1. ASSUME NEW o \in ClosingOps, HandshakeCall(o)
          PROVE  ReadingInv'
      BY <1>4, <3>1 DEF HandshakeCall, Begin, EnterSend, ClosingOps
    <3> QED BY <1>9, <2>4, <3>1 DEF CloseCall, CloseHandshakeCall, ClosingOps
  <2> QED BY <1>10, <2>1, <2>2, <2>3, <2>4 DEF App, AppOther, AppCloses
<1>11. CASE AppDrops
  BY <1>3, <1>11 DEF AppDrops, Cancel, FPcs
<1>12. CASE Client \/ UNCHANGED cnvars
  <2>1. UNCHANGED <<fvars, wvars>>
    BY <1>12, ClientSteps DEF cnvars, vars
  <2> QED BY <1>2, <2>1 DEF fvars, wvars, ReadingInv, ReadingNow, Ready
<1> QED BY <1>5, <1>8, <1>10, <1>11, <1>12 DEF CNext, Server, ServerStep

-----------------------------------------------------------------------------
(* The position in the stream. *)

\* The clients whose frames are shorter than usize can count: all of them where
\* usize has 64 bits.
CountableSizes == 1 < UsizeMod /\ \A n \in DataSizes : n < UsizeMod

\* Until a call fails or the application begins to close, the connection reads
\* headers where frames begin.
LEMMA ConnectionFraming ==
  ASSUME CountableSizes, IInv, FramingKeptInv, [CNext]_cnvars
  PROVE  FramingKeptInv'
<1>1. TypeOK /\ Shape /\ CallShape /\ TypeOK' /\ TTypeOK
  BY Connected DEF IInv, TypeOK
<1>2. ASSUME NEW f \in Frame, Transmit(f)
      PROVE  f.len < UsizeMod /\ f.avail = f.len
  <2>1. inbox' = Append(inbox, f) /\ inbox \in Seq(Frame)
    BY <1>1, <1>2 DEF Transmit, TTypeOK
  <2>2. Client
    BY <1>1, <2>1, ClientStands, OwnStepsShrink DEF CNext
  <2>3. ~UNCHANGED tvars
    BY <2>1 DEF tvars
  <2>4. PICK t \in {"Text", "Binary", "Continue", "Ping", "Close"},
             fin \in BOOLEAN, n \in DataSizes \cup {1} : Transmit(ClientFrame(t, fin, n))
    BY <2>2, <2>3, ClientTransmits
  <2>5. ClientFrame(t, fin, n) \in Frame
    BY ClientFrames, ClientAssumption
  <2>6. inbox' = Append(inbox, ClientFrame(t, fin, n))
    BY <2>4 DEF Transmit
  <2>7. f = ClientFrame(t, fin, n)
    <3>1. Append(inbox, f)[Len(inbox) + 1] = f
      BY <2>1
    <3>2. Append(inbox, ClientFrame(t, fin, n))[Len(inbox) + 1] = ClientFrame(t, fin, n)
      BY <2>1, <2>5
    <3> QED BY <2>1, <2>6, <3>1, <3>2
  <2> QED BY <2>7 DEF ClientFrame, CountableSizes
<1> QED BY <1>1, <1>2, CNextIsOpen, StepFraming

\* A failure on its way is delivered, and neither it nor a beginning close() is
\* taken back.
LEMMA EndStays ==
  ASSUME IInv, ReadingInv, [CNext]_cnvars, errored \/ closing \/ Failing
  PROVE  errored' \/ closing' \/ Failing'
<1>0. TypeOK /\ CallShape
  BY DEF IInv
<1>1. (errored => errored') /\ (closing => closing')
  BY <1>0, StepErrored, StepClosing, CNextIsOpen DEF ReadingInv
<1> SUFFICES ASSUME ~closing, Failing
             PROVE  errored' \/ Failing'
  BY <1>1
<1>2. pc = "ret" /\ fret # "Ok" /\ fcall \in {"wait_data", "payload"}
  BY <1>0 DEF Failing, CallShape, FPcs
<1>3. CASE Server
  <2>1. WaitReturns \/ ReadReturns
    BY <1>2, <1>3, FStepCall
    DEF Server, ServerStep, WStep, ReadGoesOn, WriteSends, FlushDone, HandshakeFlushes,
        HandshakeWaits, HandshakeSucceeds, HandshakeFails, InnerCloses, InnerAborts,
        WsSocketFails, WsInterrupt
  <2>2. PICK r \in Results \ {"Ok"} : Finish(r)
    BY <1>2, <2>1, WsErrors DEF WaitReturns, ReadReturns
  <2> QED BY <2>2, Zenon DEF Finish
<1>4. CASE App
  BY <1>2, <1>4
  DEF App, AppReads, AppOther, AppCloses, WaitMessageCall, ReadCall, WriteCall, CloseCall,
      CloseHandshakeCall, HandshakeCall, AbortCall, Begin, Reply
<1>5. CASE AppDrops
  BY <1>2, <1>5 DEF AppDrops, Cancel, Interrupt, WsInterrupt
<1>6. CASE Client \/ UNCHANGED cnvars
  <2>1. UNCHANGED fvars
    BY <1>6, ClientSteps DEF cnvars, vars
  <2> QED BY <2>1 DEF fvars, Failing
<1> QED BY <1>3, <1>4, <1>5, <1>6 DEF CNext

-----------------------------------------------------------------------------
(* Sequences of messages. *)

\* The messages t are the messages s, the last one longer by n and ended as fin says.
Grown(s, n, fin, t) ==
  /\ t \in Seq(Message) /\ t # <<>> /\ Len(t) = Len(s)
  /\ \A k \in 1 .. Len(s) : k # Len(s) => t[k] = s[k]
  /\ t[Len(s)].type = s[Len(s)].type
  /\ t[Len(s)].len = s[Len(s)].len + n
  /\ t[Len(s)].done = fin

\* What Grow returns.
LEMMA GrowIs ==
  ASSUME NEW s \in Seq(Message), s # <<>>, NEW n \in Nat, NEW fin \in BOOLEAN
  PROVE  Grown(s, n, fin, Grow(s, n, fin))
<1>1. Len(s) \in 1 .. Len(s) /\ s[Len(s)] \in Message
  OBVIOUS
<1> DEFINE longer == [s[Len(s)] EXCEPT !.len = @ + n]
           last == [longer EXCEPT !.done = fin]
           t == [s EXCEPT ![Len(s)] = last]
<1>2. /\ longer \in Message
      /\ longer.type = s[Len(s)].type /\ longer.len = s[Len(s)].len + n
  BY <1>1 DEF Message, Abstract!Message
<1>3. Grow(s, n, fin) = t
  <2>1. Grow(s, n, fin) = [[s EXCEPT ![Len(s)].len = @ + n] EXCEPT ![Len(s)].done = fin]
    BY DEF Grow
  <2>2. [s EXCEPT ![Len(s)].len = @ + n] = [s EXCEPT ![Len(s)] = longer]
    OBVIOUS
  <2> HIDE DEF longer
  <2>3. [[s EXCEPT ![Len(s)] = longer] EXCEPT ![Len(s)].done = fin] = t
    BY <1>1
  <2> QED BY <2>1, <2>2, <2>3
<1> HIDE DEF longer
<1>4. last \in Message /\ last.type = longer.type /\ last.len = longer.len /\ last.done = fin
  BY <1>2 DEF Message, Abstract!Message
<1> HIDE DEF last
<1>5. /\ t \in Seq(Message) /\ t # <<>> /\ Len(t) = Len(s) /\ t[Len(s)] = last
      /\ \A k \in 1 .. Len(s) : k # Len(s) => t[k] = s[k]
  BY <1>1, <1>4
<1> HIDE DEF t
<1> QED BY <1>1, <1>2, <1>3, <1>4, <1>5 DEF Grown

\* Messages of the same type, length and end are the same.
LEMMA SameMessage ==
  ASSUME NEW m \in Message, NEW o \in Message,
         m.type = o.type, m.len = o.len, m.done = o.done
  PROVE  m = o
BY DEF Message, Abstract!Message

\* Sequences of messages that agree everywhere are the same.
LEMMA SameMessages ==
  ASSUME NEW s \in Seq(Message), NEW t \in Seq(Message), Len(s) = Len(t),
         \A k \in 1 .. Len(s) :
            s[k].type = t[k].type /\ s[k].len = t[k].len /\ s[k].done = t[k].done
  PROVE  s = t
<1>1. \A k \in 1 .. Len(s) : s[k] \in Message /\ t[k] \in Message
  OBVIOUS
<1>2. \A k \in 1 .. Len(s) : s[k] = t[k]
  BY <1>1, SameMessage
<1> QED BY <1>2, SeqEqual

\* The last of some messages.
LEMMA LastMessage ==
  ASSUME NEW s \in Seq(Message), s # <<>>
  PROVE  /\ Len(s) \in 1 .. Len(s)
         /\ s[Len(s)].type \in MessageTypes /\ s[Len(s)].len \in Nat /\ s[Len(s)].done \in BOOLEAN
<1>1. Len(s) \in 1 .. Len(s) /\ s[Len(s)] \in Message
  OBVIOUS
<1> QED BY <1>1 DEF Message, Abstract!Message, Abstract!MsgType, MessageTypes

\* Grown determines its result.
LEMMA GrownOnce ==
  ASSUME NEW s \in Seq(Message), NEW n, NEW fin, NEW t, NEW u,
         Grown(s, n, fin, t), Grown(s, n, fin, u)
  PROVE  t = u
<1>1. /\ t \in Seq(Message) /\ u \in Seq(Message) /\ Len(t) = Len(s) /\ Len(u) = Len(s)
      /\ \A k \in 1 .. Len(s) : k # Len(s) => t[k] = s[k] /\ u[k] = s[k]
      /\ t[Len(s)].type = u[Len(s)].type
      /\ t[Len(s)].len = u[Len(s)].len
      /\ t[Len(s)].done = u[Len(s)].done
  BY DEF Grown
<1>2. \A k \in 1 .. Len(t) : t[k].type = u[k].type /\ t[k].len = u[k].len /\ t[k].done = u[k].done
  BY <1>1
<1>3. Len(t) = Len(u)
  BY <1>1
<1> QED BY <1>1, <1>2, <1>3, SameMessages

\* Two pieces of a message are one.
LEMMA GrowTwice ==
  ASSUME NEW s \in Seq(Message), s # <<>>, NEW m \in Nat, NEW n \in Nat, NEW p \in Nat,
         p = m + n, NEW mid \in BOOLEAN, NEW fin \in BOOLEAN
  PROVE  Grow(Grow(s, m, mid), n, fin) = Grow(s, p, fin)
<1>1. PICK t : t = Grow(s, m, mid) /\ Grown(s, m, mid, t)
  BY GrowIs
<1>2. t \in Seq(Message) /\ t # <<>> /\ Len(t) = Len(s)
  BY <1>1 DEF Grown
<1>3. PICK u : u = Grow(t, n, fin) /\ Grown(t, n, fin, u)
  BY <1>2, GrowIs
<1>4. Len(s) \in 1 .. Len(s) /\ s[Len(s)].len \in Nat
  BY LastMessage
<1>5. Grown(s, p, fin, u)
  BY <1>1, <1>3, <1>4 DEF Grown
<1>6. Grown(s, p, fin, Grow(s, p, fin))
  BY GrowIs
<1> QED BY <1>1, <1>3, <1>5, <1>6, GrownOnce

\* A message that is announced and then grows was begun with that piece.
LEMMA GrowAnnounced ==
  ASSUME NEW s \in Seq(Message), NEW t \in MessageTypes, NEW n \in Nat, NEW fin \in BOOLEAN
  PROVE  /\ Append(s, [type |-> t, len |-> n, done |-> fin]) \in Seq(Message)
         /\ Append(s, [type |-> t, len |-> 0, done |-> FALSE]) \in Seq(Message)
         /\ Append(s, [type |-> t, len |-> 0, done |-> FALSE]) # <<>>
         /\ Grow(Append(s, [type |-> t, len |-> 0, done |-> FALSE]), n, fin)
              = Append(s, [type |-> t, len |-> n, done |-> fin])
<1>1. PICK a : a = [type |-> t, len |-> 0, done |-> FALSE]
  OBVIOUS
<1>2. PICK b : b = [type |-> t, len |-> n, done |-> fin]
  OBVIOUS
<1>3. a \in Message /\ a.type = t /\ a.len = 0
  BY <1>1 DEF Message, Abstract!Message, Abstract!MsgType, MessageTypes
<1>4. b \in Message /\ b.type = t /\ b.len = n /\ b.done = fin
  BY <1>2 DEF Message, Abstract!Message, Abstract!MsgType, MessageTypes
<1>5. PICK u : u = Append(s, a)
  OBVIOUS
<1>6. PICK v : v = Append(s, b)
  OBVIOUS
<1>7. /\ u \in Seq(Message) /\ Len(u) = Len(s) + 1 /\ u # <<>>
      /\ u[Len(s) + 1] = a /\ \A k \in 1 .. Len(s) : u[k] = s[k]
  BY <1>5, <1>3
<1>8. /\ v \in Seq(Message) /\ Len(v) = Len(s) + 1 /\ v # <<>>
      /\ v[Len(s) + 1] = b /\ \A k \in 1 .. Len(s) : v[k] = s[k]
  BY <1>6, <1>4
<1>9. Grown(u, n, fin, v)
  <2>1. \A k \in 1 .. Len(u) : k # Len(u) => v[k] = u[k]
    BY <1>7, <1>8
  <2>2. u[Len(u)] = a /\ v[Len(u)] = b
    BY <1>7, <1>8
  <2> QED BY <1>3, <1>4, <1>7, <1>8, <2>1, <2>2 DEF Grown
<1>10. Grown(u, n, fin, Grow(u, n, fin))
  BY <1>7, GrowIs
<1>11. Grow(u, n, fin) = v
  BY <1>9, <1>10, <1>7, GrownOnce
<1> QED BY <1>1, <1>2, <1>5, <1>6, <1>7, <1>8, <1>11

-----------------------------------------------------------------------------
(* What is on the wire. *)

\* Every sequence of messages is a beginning of itself.
LEMMA BegunItself ==
  ASSUME NEW s \in Seq(Message)
  PROVE  Begun(s, s)
<1>1. \A k \in 1 .. Len(s) : s[k] \in Message
  OBVIOUS
<1>2. \A k \in 1 .. Len(s) : s[k].len \in Nat
  BY <1>1 DEF Message, Abstract!Message
<1> QED BY <1>2 DEF Begun

\* The beginning of a beginning is a beginning.
LEMMA BegunOn ==
  ASSUME NEW s \in Seq(Message), NEW t \in Seq(Message), NEW u \in Seq(Message),
         Begun(s, t), Begun(t, u)
  PROVE  Begun(s, u)
<1>1. Len(s) <= Len(u)
  BY DEF Begun
<1>2. ASSUME NEW k \in 1 .. Len(s)
      PROVE  /\ s[k].len <= u[k].len /\ s[k].type = u[k].type
             /\ s[k].done => u[k] = s[k]
  <2>1. k \in 1 .. Len(t) /\ k \in 1 .. Len(u)
    BY DEF Begun
  <2>2. s[k] \in Message /\ t[k] \in Message /\ u[k] \in Message
    BY <2>1
  <2>3. s[k].len \in Nat /\ t[k].len \in Nat /\ u[k].len \in Nat
    BY <2>2 DEF Message, Abstract!Message
  <2>4. /\ s[k].len <= t[k].len /\ s[k].type = t[k].type /\ (s[k].done => t[k] = s[k])
        /\ t[k].len <= u[k].len /\ t[k].type = u[k].type /\ (t[k].done => u[k] = t[k])
    BY <2>1 DEF Begun
  <2> QED BY <2>3, <2>4
<1> QED BY <1>1, <1>2 DEF Begun

\* The messages before a frame are a beginning of those after it.
LEMMA ExtendsBegun ==
  ASSUME NEW s \in Seq(Message), NEW f \in Frame, NEW t, Extends(s, f, t)
  PROVE  t \in Seq(Message) /\ Begun(s, t)
<1>0. f.len \in Nat /\ f.fin \in BOOLEAN
  BY DEF Frame
<1>1. CASE f.type \in MessageTypes
  <2>1. t = Append(s, [type |-> f.type, len |-> f.len, done |-> f.fin])
    BY <1>1 DEF Extends, MessageTypes
  <2>2. PICK m : m = [type |-> f.type, len |-> f.len, done |-> f.fin]
    OBVIOUS
  <2>3. m \in Message
    BY <1>0, <1>1, <2>2 DEF Message, Abstract!Message, Abstract!MsgType, MessageTypes
  <2>4. t \in Seq(Message) /\ Len(s) <= Len(t) /\ \A k \in 1 .. Len(s) : t[k] = s[k]
    BY <2>1, <2>2, <2>3
  <2>5. \A k \in 1 .. Len(s) : s[k].len <= s[k].len
    BY BegunItself DEF Begun
  <2> QED BY <2>4, <2>5 DEF Begun
<1>2. CASE f.type = "Continue"
  <2>1. ~AllDone(s) /\ t = Grow(s, f.len, f.fin)
    BY <1>2 DEF Extends, MessageTypes
  <2>2. s # <<>> /\ ~s[Len(s)].done
    BY <2>1 DEF AllDone
  <2>3. Grown(s, f.len, f.fin, t)
    BY <1>0, <2>1, <2>2, GrowIs
  <2>4. Len(s) \in 1 .. Len(s) /\ s[Len(s)].len \in Nat
    BY <2>2, LastMessage
  <2>5. \A k \in 1 .. Len(s) : s[k].len <= s[k].len
    BY BegunItself DEF Begun
  <2>6. t \in Seq(Message) /\ Len(t) = Len(s)
    BY <2>3 DEF Grown
  <2>7. ASSUME NEW k \in 1 .. Len(s)
        PROVE  /\ s[k].len <= t[k].len /\ s[k].type = t[k].type
               /\ s[k].done => t[k] = s[k]
    <3>1. CASE k = Len(s)
      BY <1>0, <2>2, <2>3, <2>4, <3>1 DEF Grown
    <3>2. CASE k # Len(s)
      BY <2>3, <2>5, <3>2 DEF Grown
    <3> QED BY <3>1, <3>2
  <2> QED BY <2>6, <2>7 DEF Begun
<1>3. CASE f.type \notin MessageTypes /\ f.type # "Continue"
  BY <1>3, BegunItself DEF Extends
<1> QED BY <1>1, <1>2, <1>3

\* Where nothing is sent and no header is received the wire stands still.
LEMMA WireStands ==
  ASSUME OnTheWire, UNCHANGED <<inbox, sent>>, Received' = Received
  PROVE  OnTheWire'
<1>1. PICK steps \in [0 .. Len(inbox) -> Seq(Message)] : Leads(steps)
  BY DEF OnTheWire
<1>2. Leads(steps)'
  BY <1>1 DEF Leads
<1> QED BY <1>1, <1>2 DEF OnTheWire

\* The client puts a frame at the end of the wire.
LEMMA WireGrows ==
  ASSUME TTypeOK, OnTheWire, sent \in Seq(Message), NEW f \in Frame,
         inbox' = Append(inbox, f), Extends(sent, f, sent'), Received' = Received
  PROVE  OnTheWire'
<1>1. PICK old \in [0 .. Len(inbox) -> Seq(Message)] : Leads(old)
  BY DEF OnTheWire
<1>2. sent' \in Seq(Message) /\ Begun(sent, sent')
  BY ExtendsBegun
<1>3. /\ Len(inbox') = Len(inbox) + 1 /\ inbox'[Len(inbox) + 1] = f
      /\ \A i \in 1 .. Len(inbox) : inbox'[i] = inbox[i]
      /\ Len(inbox) \in Nat
  BY DEF TTypeOK
<1>4. PICK new : new = [i \in 0 .. Len(inbox) + 1 |-> IF i = Len(inbox) + 1 THEN sent' ELSE old[i]]
  OBVIOUS
<1>5. /\ new \in [0 .. Len(inbox') -> Seq(Message)]
      /\ new[Len(inbox) + 1] = sent'
      /\ \A i \in 0 .. Len(inbox) : new[i] = old[i]
  BY <1>1, <1>2, <1>3, <1>4
<1>6. /\ old[0] = Received /\ old[Len(inbox)] = sent
      /\ \A i \in 1 .. Len(inbox) : Extends(old[i - 1], inbox[i], old[i])
      /\ \A i \in 0 .. Len(inbox) : Begun(old[i], sent)
  BY <1>1 DEF Leads
<1>7. new[0] = Received' /\ new[Len(inbox')] = sent'
  BY <1>3, <1>5, <1>6
<1>8. ASSUME NEW i \in 1 .. Len(inbox')
      PROVE  Extends(new[i - 1], inbox'[i], new[i])
  <2>1. CASE i = Len(inbox) + 1
    <3>1. new[i - 1] = sent /\ new[i] = sent' /\ inbox'[i] = f
      BY <1>3, <1>5, <1>6, <2>1
    <3> QED BY <3>1
  <2>2. CASE i # Len(inbox) + 1
    <3>1. i \in 1 .. Len(inbox) /\ i - 1 \in 0 .. Len(inbox) /\ i \in 0 .. Len(inbox)
      BY <1>3, <2>2
    <3>2. new[i - 1] = old[i - 1] /\ new[i] = old[i] /\ inbox'[i] = inbox[i]
      BY <1>3, <1>5, <3>1
    <3> QED BY <1>6, <3>1, <3>2
  <2> QED BY <2>1, <2>2
<1>9. ASSUME NEW i \in 0 .. Len(inbox')
      PROVE  Begun(new[i], sent')
  <2>1. CASE i = Len(inbox) + 1
    BY <1>2, <1>5, <2>1, BegunItself
  <2>2. CASE i # Len(inbox) + 1
    <3>1. i \in 0 .. Len(inbox)
      BY <1>3, <2>2
    <3>2. new[i] = old[i] /\ old[i] \in Seq(Message) /\ Begun(old[i], sent)
      BY <1>1, <1>5, <1>6, <3>1
    <3> QED BY <1>2, <3>2, BegunOn
  <2> QED BY <2>1, <2>2
<1>10. Leads(new)'
  BY <1>7, <1>8, <1>9 DEF Leads
<1> QED BY <1>5, <1>10 DEF OnTheWire

\* The next frame of the wire goes on from what was received.
LEMMA NextOnTheWire ==
  ASSUME TTypeOK, OnTheWire, Len(inbox) > 0
  PROVE  \E t \in Seq(Message) : Extends(Received, inbox[1], t)
<1>1. PICK steps \in [0 .. Len(inbox) -> Seq(Message)] : Leads(steps)
  BY DEF OnTheWire
<1>2. 1 \in 1 .. Len(inbox) /\ 1 \in 0 .. Len(inbox) /\ 1 - 1 = 0
  BY DEF TTypeOK
<1>3. Extends(steps[0], inbox[1], steps[1]) /\ steps[0] = Received
  BY <1>1, <1>2 DEF Leads
<1> QED BY <1>1, <1>2, <1>3

\* A header is received, and what it brings is added to what was received.
LEMMA WireShrinks ==
  ASSUME TTypeOK, OnTheWire, Len(inbox) > 0, inbox' = Tail(inbox), UNCHANGED sent,
         \A t \in Seq(Message) : Extends(Received, inbox[1], t) => Received' = t
  PROVE  OnTheWire'
<1>1. PICK old \in [0 .. Len(inbox) -> Seq(Message)] : Leads(old)
  BY DEF OnTheWire
<1>2. /\ Len(inbox') = Len(inbox) - 1 /\ Len(inbox) \in Nat
      /\ \A i \in 1 .. Len(inbox') : inbox'[i] = inbox[i + 1]
  BY DEF TTypeOK
<1>3. PICK new : new = [i \in 0 .. Len(inbox) - 1 |-> old[i + 1]]
  OBVIOUS
<1>4. /\ new \in [0 .. Len(inbox') -> Seq(Message)]
      /\ \A i \in 0 .. Len(inbox') : new[i] = old[i + 1]
  BY <1>1, <1>2, <1>3
<1>5. /\ old[0] = Received /\ old[Len(inbox)] = sent
      /\ \A i \in 1 .. Len(inbox) : Extends(old[i - 1], inbox[i], old[i])
      /\ \A i \in 0 .. Len(inbox) : Begun(old[i], sent)
  BY <1>1 DEF Leads
<1>6. new[0] = Received'
  <2>1. 1 \in 1 .. Len(inbox) /\ 1 - 1 = 0 /\ 0 \in 0 .. Len(inbox') /\ 0 + 1 = 1
        /\ 1 \in 0 .. Len(inbox)
    BY <1>2
  <2>2. Extends(old[0], inbox[1], old[1]) /\ new[0] = old[1] /\ old[1] \in Seq(Message)
    BY <1>1, <1>4, <1>5, <2>1
  <2> QED BY <1>5, <2>2
<1>7. new[Len(inbox')] = sent'
  BY <1>2, <1>4, <1>5
<1>8. ASSUME NEW i \in 1 .. Len(inbox')
      PROVE  Extends(new[i - 1], inbox'[i], new[i])
  <2>1. i + 1 \in 1 .. Len(inbox) /\ i - 1 \in 0 .. Len(inbox') /\ i \in 0 .. Len(inbox')
        /\ (i - 1) + 1 = i /\ (i + 1) - 1 = i
    BY <1>2
  <2>2. new[i - 1] = old[i] /\ new[i] = old[i + 1] /\ inbox'[i] = inbox[i + 1]
    BY <1>2, <1>4, <2>1
  <2>3. Extends(old[(i + 1) - 1], inbox[i + 1], old[i + 1])
    BY <1>5, <2>1
  <2> QED BY <2>1, <2>2, <2>3
<1>9. ASSUME NEW i \in 0 .. Len(inbox')
      PROVE  Begun(new[i], sent')
  <2>1. i + 1 \in 0 .. Len(inbox)
    BY <1>2
  <2> QED BY <1>4, <1>5, <2>1
<1>10. Leads(new)'
  BY <1>6, <1>7, <1>8, <1>9 DEF Leads
<1> QED BY <1>4, <1>10 DEF OnTheWire

-----------------------------------------------------------------------------
(* The connection keeps the stream. *)

\* A reader that is held has a type, a length and an end.
LEMMA HeldReader ==
  ASSUME NEW r \in Reader
  PROVE  /\ r # None /\ r.payload_len \in Nat /\ r.is_final \in BOOLEAN
         /\ r.frame_type \in MessageTypes
BY NoneAssumption DEF Reader, MessageTypes

\* Each step of frame_controller.rs takes over from the wire what it received,
\* or fails.
LEMMA FStepStream ==
  ASSUME IInv, ReadingInv, InboxWhole, Aligned, got \in Seq(Message), InStream,
         ~closing, FStep, UNCHANGED <<wvars, sent, got>>, ~Failing'
  PROVE  InStream'
<1>0. /\ TTypeOK /\ FTypeOK /\ FShape /\ CallShape /\ rest \in Nat /\ ~lost /\ ~eof
      /\ reader \in Reader \cup {None} /\ reader' \in Reader \cup {None}
      /\ UNCHANGED fcall /\ pc \in FPcs \ {"ret"} /\ OnTheWire
  BY FStepCall, FStepTypes
  DEF IInv, TypeOK, Shape, FTypeOK, TTypeOK, Aligned, ReadingInv, InStream
<1>1. fcall \in {"wait_data", "payload"} /\ ~is_wait_for_pong
  BY <1>0 DEF CallShape
<1>2. ~Announcing /\ Unshown = 0 /\ (reader # None => ~AllDone(got))
  BY <1>0 DEF Announcing, Unshown, InStream
<1>3. ASSUME UNCHANGED <<inbox, reader>>, pc' # "ret"
      PROVE  InStream'
  <2>1. ~Announcing' /\ Unshown' = 0
    BY <1>3 DEF Announcing, Unshown
  <2>2. Received' = Received
    BY <1>2, <1>3, <2>1 DEF Received
  <2> QED BY <1>0, <1>2, <1>3, <2>1, <2>2, WireStands DEF InStream
<1>4. CASE ReceiveHeader
  <2>1. PICK f \in NextHeaders :
          /\ RecvHeader(f)
          /\ IF Malformed(f)
               THEN Return("InvalidFrame") /\ KeepFlags /\ UNCHANGED reader
               ELSE OnData(f) \/ OnClose(f) \/ OnPing(f) \/ OnPong(f) \/ OversizedControl(f)
    BY <1>4 DEF ReceiveHeader
  <2>2. pc = "hdr" /\ rest = 0 /\ (reader = None \/ reader.payload_len = 0)
    BY <1>0, <1>4 DEF ReceiveHeader, Aligned, Due
  <2>3. /\ f \in Frame /\ LenAsUsize(f.len) = f.len
        /\ Len(inbox) > 0 /\ f = inbox[1]
    BY <1>0, <2>1, <2>2, HeaderAtBoundary
  <2>4. inbox' = Tail(inbox)
    BY <1>0, <2>1, <2>2 DEF RecvHeader, Garbled
  <2>5. f.len \in Nat /\ f.fin \in BOOLEAN
    BY <2>3 DEF Frame
  <2>6. PICK next \in Seq(Message) : Extends(Received, f, next)
    BY <1>0, <2>3, NextOnTheWire
  <2>7. CASE OnClose(f) \/ OnPing(f)
    <3>1. pc' = "echo_recv" /\ UNCHANGED reader /\ f.type \in {"Ping", "Close"}
      BY <2>7 DEF OnClose, OnPing, ClosedByPeer, Return, Failing
    <3>2. ~Announcing' /\ Unshown' = 0
      BY <3>1 DEF Announcing, Unshown
    <3>3. Received' = Received
      BY <1>2, <3>1, <3>2 DEF Received
    <3>4. \A t \in Seq(Message) : Extends(Received, inbox[1], t) => Received' = t
      BY <2>3, <3>1, <3>3 DEF Extends, MessageTypes
    <3>5. OnTheWire'
      BY <1>0, <2>3, <2>4, <3>4, WireShrinks
    <3> QED BY <1>2, <3>1, <3>2, <3>5 DEF InStream
  <2>8. CASE OnData(f) /\ fcall = "wait_data"
    <3>1. pc' = "ret" /\ reader' = NewReader(f) /\ f.type \in MessageTypes
      BY <2>8 DEF OnData, Return, Failing, MessageTypes
    <3>2. reader = None
      BY <2>2, <2>8 DEF ReadingInv
    <3>3. Received = got
      BY <3>2 DEF Received
    <3>4. AllDone(got)
      BY <2>6, <3>1, <3>3 DEF Extends, MessageTypes
    <3>5. /\ NewReader(f) \in Reader /\ NewReader(f).payload_len = f.len
          /\ NewReader(f).is_final = f.fin /\ NewReader(f).frame_type = f.type
      BY <2>3, <2>5, <3>1 DEF NewReader, Reader, MessageTypes
    <3>6. Announcing'
      BY <1>0, <2>8, <3>1 DEF Announcing
    <3>7. Received' = Append(got, [type |-> f.type, len |-> f.len, done |-> f.fin])
      BY <3>1, <3>5, <3>6, HeldReader DEF Received
    <3>8. \A t \in Seq(Message) : Extends(Received, inbox[1], t) => Received' = t
      BY <2>3, <3>1, <3>3, <3>7 DEF Extends, MessageTypes
    <3>9. OnTheWire'
      BY <1>0, <2>3, <2>4, <3>8, WireShrinks
    <3> QED BY <3>4, <3>6, <3>9 DEF InStream
  <2>9. CASE OnData(f) /\ fcall = "payload"
    <3>1. pc' = "payload" /\ reader' = NextFragment(reader, f) /\ f.type = "Continue"
      BY <2>9 DEF OnData, Return, Failing
    <3>2. reader \in Reader
      BY <2>2, <2>9 DEF FShape, FPcs, IInv, Shape
    <3>3. reader # None /\ reader.payload_len = 0 /\ reader.is_final \in BOOLEAN
      BY <2>2, <3>2, HeldReader
    <3>4. got # <<>> /\ ~AllDone(got)
      BY <1>2, <3>3 DEF AllDone
    <3>5. Received = Grow(got, 0, reader.is_final)
      BY <1>2, <3>3 DEF Received
    <3>6. /\ NextFragment(reader, f) \in Reader /\ NextFragment(reader, f).payload_len = f.len
          /\ NextFragment(reader, f).is_final = f.fin
      BY <2>3, <2>5, <3>2 DEF NextFragment, Reader
    <3>7. ~Announcing' /\ Unshown' = 0 /\ reader' # None
      BY <3>1, <3>6, HeldReader DEF Announcing, Unshown
    <3>8. Received' = Grow(got, f.len, f.fin)
      BY <2>5, <3>1, <3>6, <3>7 DEF Received
    <3>9. Grow(Received, f.len, f.fin) = Received'
      <4>1. 0 \in Nat /\ f.len = 0 + f.len
        BY <2>5
      <4> QED BY <2>5, <3>3, <3>4, <3>5, <3>8, <4>1, GrowTwice
    <3>10. \A t \in Seq(Message) : Extends(Received, inbox[1], t) => Received' = t
      BY <2>3, <3>1, <3>9 DEF Extends, MessageTypes
    <3>11. OnTheWire'
      BY <1>0, <2>3, <2>4, <3>10, WireShrinks
    <3> QED BY <3>4, <3>7, <3>11 DEF InStream
  <2>10. CASE Return("InvalidFrame") \/ OnPong(f) \/ OversizedControl(f)
    BY <1>1, <2>10 DEF OnPong, OversizedControl, Return, Failing
  <2> QED BY <1>1, <2>1, <2>7, <2>8, <2>9, <2>10
<1>5. CASE HeaderEof \/ SendBackRecvFails \/ SocketFails
  BY <1>5 DEF HeaderEof, SendBackRecvFails, SocketFails, Return, Failing
<1>6. CASE SendBackRecv
  <2>1. /\ pc = "echo_recv" /\ fhdr \in Frame /\ Due = fhdr.len
        /\ pc' = "echo_send" /\ UNCHANGED reader /\ Consume(fhdr.len)
    BY <1>0, <1>6 DEF SendBackRecv, FShape, Due
  <2>2. rest <= fhdr.len /\ (rest < fhdr.len => eof /\ inbox = <<>>)
    BY <2>1 DEF Aligned
  <2>3. fhdr.len \in Nat
    BY <2>1 DEF Frame
  <2>4. UNCHANGED inbox
    BY <1>0, <2>1, <2>2, <2>3, ConsumeDue
  <2> QED BY <1>3, <2>1, <2>4
<1>7. CASE SendBackSend
  <2>1. UNCHANGED <<reader, inbox>> /\ pc' = "hdr"
    BY <1>7 DEF SendBackSend, Send, ClosedByPeer, Return, Failing
  <2> QED BY <1>3, <2>1
<1>8. CASE PayloadNextFragment
  BY <1>3, <1>8 DEF PayloadNextFragment, tvars
<1>9. CASE PayloadEof
  BY <1>0, <1>9 DEF PayloadEof, AtEof
<1>10. CASE SendFrame
  BY <1>0, <1>1, <1>10 DEF SendFrame, FShape
<1>11. ASSUME NEW n \in Nat, ReturnCount(n), UNCHANGED inbox, pc = "payload",
              reader \in Reader, reader' \in Reader,
              n + reader'.payload_len = 0 + reader.payload_len, reader'.is_final = reader.is_final
       PROVE  InStream'
  <2>1. pc' = "ret" /\ fcall' = "payload" /\ nread' = n
    BY <1>0, <1>11 DEF ReturnCount, FShape
  <2>2. ~Announcing' /\ Unshown' = n
    BY <2>1 DEF Announcing, Unshown
  <2>3. reader # None /\ reader' # None
    BY <1>11, HeldReader
  <2>4. Received' = Received
    BY <1>2, <1>11, <2>2, <2>3 DEF Received
  <2> QED BY <1>0, <1>2, <1>11, <2>2, <2>3, <2>4, WireStands DEF InStream
<1>12. CASE PayloadRead
  <2>1. reader \in Reader /\ pc = "payload"
    BY <1>0, <1>12 DEF PayloadRead, FShape
  <2>2. PICK n \in ToRead : /\ Consume(n)
                            /\ reader' = [reader EXCEPT !.payload_len = @ - n]
                            /\ ReturnCount(n)
    BY <1>12 DEF PayloadRead
  <2>3. reader.payload_len \in Nat /\ n \in 0 .. reader.payload_len /\ n \in Nat
    BY <1>0, <2>1 DEF ToRead, Reader, FTypeOK
  <2>4. rest <= reader.payload_len /\ (rest < reader.payload_len => eof /\ inbox = <<>>)
    BY <2>1, HeldReader DEF Due, Aligned
  <2>5. UNCHANGED inbox
    BY <1>0, <2>2, <2>3, <2>4, ConsumeDue
  <2>6. /\ reader' \in Reader /\ reader'.payload_len = reader.payload_len - n
        /\ reader'.is_final = reader.is_final
    BY <2>1, <2>2, <2>3 DEF Reader
  <2>7. n + reader'.payload_len = 0 + reader.payload_len
    BY <2>3, <2>6
  <2> QED BY <1>11, <2>1, <2>2, <2>3, <2>5, <2>6, <2>7
<1>13. CASE PayloadNothing
  <2>1. /\ ReturnCount(0) /\ UNCHANGED <<reader, inbox>> /\ pc = "payload" /\ reader \in Reader
        /\ 0 \in Nat
    BY <1>0, <1>13 DEF PayloadNothing, tvars, FShape
  <2> QED BY <1>11, <2>1
<1> QED
  BY <1>4, <1>5, <1>6, <1>7, <1>8, <1>9, <1>10, <1>12, <1>13 DEF FStep

\* What was received is a beginning of what was sent.
LEMMA ReceivedBegun ==
  ASSUME TTypeOK, OnTheWire
  PROVE  Begun(Received, sent)
<1>1. PICK steps \in [0 .. Len(inbox) -> Seq(Message)] : Leads(steps)
  BY DEF OnTheWire
<1>2. 0 \in 0 .. Len(inbox)
  BY DEF TTypeOK
<1> QED BY <1>1, <1>2 DEF Leads

\* wait_data_frame has returned: the application is shown the next message.
LEMMA ShowsMessage ==
  ASSUME IInv, ReadingInv, got \in Seq(Message), sent \in Seq(Message), InStream, Server,
         pc = "ret", fcall = "wait_data", fret = "Ok"
  PROVE  InStream' /\ got' \in Seq(Message) /\ Abstract!Announce
<1>0. TTypeOK /\ FShape /\ OnTheWire /\ UNCHANGED sent
  BY DEF IInv, TypeOK, Shape, InStream, Server, cvars
<1>1. WaitReturns \/ ReadGoesOn
  BY FStepCall
  DEF Server, ServerStep, WStep, WriteSends, FlushDone, HandshakeFlushes, HandshakeWaits,
      HandshakeSucceeds, HandshakeFails, InnerCloses, InnerAborts, WsSocketFails, WsInterrupt,
      ReadReturns
<1>2. pc' \in {"idle", "payload"} /\ UNCHANGED <<reader, inbox>>
  BY <1>1 DEF WaitReturns, ReadGoesOn, Finish, Enter, tvars
<1>3. reader \in Reader
  BY <1>0 DEF FShape
<1>4. /\ reader # None /\ reader.payload_len \in Nat /\ reader.is_final \in BOOLEAN
      /\ reader.frame_type \in MessageTypes
  BY <1>3, HeldReader
<1>5. Announcing /\ ~Announcing' /\ Unshown' = 0
  BY <1>2 DEF Announcing, Unshown
<1>6. AllDone(got)
  BY <1>4, <1>5 DEF InStream
<1>7. got' = Append(got, [type |-> reader.frame_type, len |-> 0, done |-> FALSE])
  BY DEF Server, Observe
<1>8. Received = Append(got, [type |-> reader.frame_type, len |-> reader.payload_len,
                              done |-> reader.is_final])
  BY <1>4, <1>5 DEF Received
<1>9. got' \in Seq(Message) /\ Received \in Seq(Message)
      /\ Grow(got', reader.payload_len, reader.is_final) = Received
  BY <1>4, <1>7, <1>8, GrowAnnounced
<1>10. Received' = Received
  <2>1. Received' = Grow(got', 0 + reader.payload_len, reader.is_final)
    BY <1>2, <1>4, <1>5 DEF Received
  <2> QED BY <1>4, <1>9, <2>1
<1>11. ~AllDone(got')
  <2>1. PICK a : a = [type |-> reader.frame_type, len |-> 0, done |-> FALSE]
    OBVIOUS
  <2>2. a \in Message /\ a.done = FALSE
    BY <1>4, <2>1 DEF Message, Abstract!Message, Abstract!MsgType, MessageTypes
  <2>3. got' # <<>> /\ got'[Len(got')] = a
    BY <1>7, <2>1, <2>2
  <2> QED BY <2>2, <2>3 DEF AllDone
<1>12. OnTheWire'
  BY <1>0, <1>2, <1>10, WireStands
<1>13. InStream'
  BY <1>5, <1>11, <1>12 DEF InStream
<1>14. Abstract!Announce
  <2>1. Begun(Received, sent)
    BY <1>0, ReceivedBegun
  <2>2. PICK b : b = [type |-> reader.frame_type, len |-> reader.payload_len, done |-> reader.is_final]
    OBVIOUS
  <2>3. b \in Message /\ b.type = reader.frame_type
    BY <1>4, <2>2 DEF Message, Abstract!Message, Abstract!MsgType, MessageTypes
  <2>4. /\ Len(Received) = Len(got) + 1 /\ Len(got) + 1 \in 1 .. Len(Received)
        /\ Received[Len(got) + 1] = b
    BY <1>8, <2>2, <2>3
  <2>5. Len(got) < Len(sent) /\ sent[Len(got) + 1].type = reader.frame_type
    BY <2>1, <2>3, <2>4 DEF Begun
  <2>6. Abstract!AllDone(got)
    BY <1>6 DEF AllDone, Abstract!AllDone
  <2> QED BY <1>0, <1>7, <2>5, <2>6 DEF Abstract!Announce
<1> QED BY <1>9, <1>13, <1>14

\* receive_frame_payload has returned: the application is shown some bytes more,
\* and the end of the message only with its last ones.
LEMMA ShowsPayload ==
  ASSUME IInv, ReadingInv, got \in Seq(Message), sent \in Seq(Message), InStream, Server,
         pc = "ret", fcall = "payload", fret = "Ok"
  PROVE  /\ InStream' /\ got' \in Seq(Message)
         /\ \E n \in Pieces, fin \in BOOLEAN : Abstract!Deliver(n, fin)
<1>0. TTypeOK /\ FTypeOK /\ FShape /\ OnTheWire /\ UNCHANGED sent
  BY DEF IInv, TypeOK, Shape, InStream, Server, cvars
<1>1. ReadReturns
  BY FStepCall
  DEF Server, ServerStep, WStep, WriteSends, FlushDone, HandshakeFlushes, HandshakeWaits,
      HandshakeSucceeds, HandshakeFails, InnerCloses, InnerAborts, WsSocketFails, WsInterrupt,
      WaitReturns, ReadGoesOn
<1>2. pc' = "idle" /\ UNCHANGED inbox /\ reader' = IF IsFinished(reader) THEN None ELSE reader
  BY <1>1 DEF ReadReturns, Finish, tvars
<1>3. reader \in Reader
  BY <1>0 DEF FShape
<1>4. reader # None /\ reader.payload_len \in Nat /\ reader.is_final \in BOOLEAN
  BY <1>3, HeldReader
<1>5. ~Announcing /\ Unshown = nread /\ ~Announcing' /\ Unshown' = 0
  BY <1>2 DEF Announcing, Unshown
<1>6. ~AllDone(got) /\ got # <<>>
  BY <1>4, <1>5 DEF InStream, AllDone
<1>7. PICK fin \in BOOLEAN : fin = (reader' = None)
  BY Zenon
<1>8. nread \in Nat /\ nread \in Pieces
  <2>1. buflen \in BufSizes /\ nread \in 0 .. buflen
    BY DEF ReadingInv, FPcs
  <2> QED BY <1>0, <2>1 DEF Pieces, FTypeOK
<1>9. got' = Grow(got, nread, fin)
  BY <1>7 DEF Server, Observe
<1>10. Grown(got, nread, fin, got')
  BY <1>6, <1>8, <1>9, GrowIs
<1>11. PICK p \in Nat : p = nread + reader.payload_len
  BY <1>4, <1>8
<1>12. Received = Grow(got, p, reader.is_final)
  BY <1>4, <1>5, <1>11 DEF Received
<1>13. Grown(got, p, reader.is_final, Received)
  BY <1>4, <1>6, <1>12, GrowIs
<1>14. Len(got) \in 1 .. Len(got) /\ got[Len(got)].len \in Nat
  BY <1>6, LastMessage
<1>15. got' \in Seq(Message) /\ Len(got') = Len(got) /\ got' # <<>>
       /\ got'[Len(got)].done = fin
  BY <1>10 DEF Grown
<1>16. Received' = Received /\ (reader' # None => ~AllDone(got'))
  <2>1. CASE IsFinished(reader)
    <3>1. reader' = None /\ fin = TRUE /\ reader.payload_len = 0 /\ reader.is_final = TRUE
      BY <1>2, <1>4, <1>7, <2>1 DEF IsFinished
    <3>2. Received' = got'
      BY <3>1 DEF Received
    <3>3. p = nread
      BY <1>8, <1>11, <3>1
    <3> QED BY <1>9, <1>12, <3>1, <3>2, <3>3
  <2>2. CASE ~IsFinished(reader)
    <3>1. reader' = reader /\ fin = FALSE
      BY <1>2, <1>4, <1>7, <2>2
    <3>2. Received' = Grow(got', 0 + reader.payload_len, reader.is_final)
      BY <1>4, <1>5, <3>1 DEF Received
    <3>3. Received' = Grow(got', reader.payload_len, reader.is_final)
      BY <1>4, <3>2
    <3>4. Grow(got', reader.payload_len, reader.is_final) = Grow(got, p, reader.is_final)
      <4>1. PICK q \in Nat, end \in BOOLEAN : q = reader.payload_len /\ end = reader.is_final
        BY <1>4
      <4>2. p = nread + q
        BY <1>11, <4>1
      <4>3. Grow(Grow(got, nread, fin), q, end) = Grow(got, p, end)
        BY <1>6, <1>8, <4>2, GrowTwice
      <4> QED BY <1>9, <4>1, <4>3
    <3>5. ~AllDone(got')
      BY <1>15, <3>1 DEF AllDone
    <3> QED BY <1>12, <3>3, <3>4, <3>5
  <2> QED BY <2>1, <2>2
<1>17. InStream'
  <2>1. OnTheWire'
    BY <1>0, <1>2, <1>16, WireStands
  <2> QED BY <1>5, <1>16, <2>1 DEF InStream
<1>18. Abstract!Deliver(nread, fin)
  <2>1. Begun(Received, sent)
    BY <1>0, ReceivedBegun
  <2>2. /\ Received \in Seq(Message) /\ Len(Received) = Len(got)
        /\ Received[Len(got)].len = got[Len(got)].len + p
        /\ Received[Len(got)].done = reader.is_final
    BY <1>13 DEF Grown
  <2>3. Len(got) \in 1 .. Len(sent)
    BY <1>14, <2>1, <2>2 DEF Begun
  <2>4. sent[Len(got)] \in Message
    BY <2>3
  <2>5. sent[Len(got)].len \in Nat
    BY <2>4 DEF Message, Abstract!Message
  <2>6. Received[Len(got)].len <= sent[Len(got)].len
        /\ (Received[Len(got)].done => sent[Len(got)] = Received[Len(got)])
    BY <1>14, <2>1, <2>2 DEF Begun
  <2>7. got[Len(got)].len + nread <= sent[Len(got)].len
    BY <1>4, <1>8, <1>11, <1>14, <2>2, <2>5, <2>6
  <2>8. ASSUME fin
        PROVE  sent[Len(got)].done /\ got[Len(got)].len + nread = sent[Len(got)].len
    <3>1. reader.payload_len = 0 /\ reader.is_final
      BY <1>2, <1>4, <1>7, <2>8 DEF IsFinished
    <3>2. sent[Len(got)] = Received[Len(got)] /\ Received[Len(got)].done
      BY <2>2, <2>6, <3>1
    <3>3. p = nread
      BY <1>8, <1>11, <3>1
    <3> QED BY <2>2, <3>2, <3>3
  <2>9. ~Abstract!AllDone(got)
    BY <1>6 DEF AllDone, Abstract!AllDone
  <2>10. got' = Abstract!Grow(got, nread, fin)
    BY <1>9 DEF Grow, Abstract!Grow
  <2> QED BY <1>0, <2>7, <2>8, <2>9, <2>10 DEF Abstract!Deliver
<1> QED BY <1>8, <1>15, <1>17, <1>18

\* Every step keeps the stream, and is a step of MessageStream or none.
LEMMA StepStream ==
  ASSUME IInv, FramingKeptInv, ReadingInv, StreamInv, [CNext]_cnvars
  PROVE  StreamInv' /\ [Abstract!StreamNext]_<<sent, got>>
<1>0. /\ TTypeOK /\ CallShape /\ InboxWhole /\ got \in Seq(Message) /\ sent \in Seq(Message)
      /\ (errored \/ closing \/ Failing => errored' \/ closing' \/ Failing')
      /\ (errored \/ closing \/ Failing \/ (Aligned /\ InStream))
  BY EndStays DEF IInv, TypeOK, FramingKeptInv, StreamInv
<1>1. ASSUME UNCHANGED <<inbox, reader, sent, got>>, InStream, pc # "ret", pc' # "ret"
      PROVE  InStream'
  <2>1. ~Announcing /\ Unshown = 0 /\ ~Announcing' /\ Unshown' = 0
    BY <1>1 DEF Announcing, Unshown
  <2>2. Received' = Received
    BY <1>1, <2>1 DEF Received
  <2> QED BY <1>1, <2>1, <2>2, WireStands DEF InStream
<1>2. CASE Client
  <2>1. UNCHANGED <<fvars, wvars, got>>
    BY <1>2, ClientSteps
  <2>2. UNCHANGED <<errored, closing, pc, fcall, fret, nread, reader>>
    BY <2>1 DEF fvars, wvars
  <2>3. Received' = Received /\ Announcing' = Announcing /\ Failing' = Failing
    BY <2>1, <2>2 DEF Received, Announcing, Unshown, Failing
  <2>4. ASSUME NEW f \in Frame, Transmit(f), Extends(sent, f, sent')
        PROVE  StreamInv'
    <3>1. sent' \in Seq(Message)
      BY <1>0, <2>4, ExtendsBegun
    <3>2. InStream => InStream'
      <4> SUFFICES ASSUME InStream
                   PROVE  InStream'
        OBVIOUS
      <4>1. OnTheWire'
        BY <1>0, <2>3, <2>4, WireGrows DEF Transmit, InStream
      <4> QED BY <2>1, <2>2, <2>3, <4>1 DEF InStream
    <3> QED BY <1>0, <2>1, <3>1, <3>2 DEF StreamInv
  <2>5. CASE UNCHANGED <<tvars, sent, cclose>>
    <3>1. InStream => InStream'
      BY <2>1, <2>2, <2>3, <2>5, WireStands DEF InStream, tvars
    <3> QED BY <1>0, <2>1, <2>5, <3>1 DEF StreamInv
  <2>6. ASSUME NEW n \in DataSizes, NEW fin \in BOOLEAN, NEW t \in MessageTypes,
               ClientFirst(t, n, fin)
        PROVE  StreamInv' /\ Abstract!StreamNext
    <3>1. /\ Transmit(ClientFrame(t, fin, n)) /\ AllDone(sent)
          /\ sent' = Append(sent, [type |-> t, len |-> n, done |-> fin])
      BY <2>6 DEF ClientFirst, AllDone
    <3>2. ClientFrame(t, fin, n) \in Frame
      BY ClientFrames, ClientAssumption DEF MessageTypes
    <3>3. Extends(sent, ClientFrame(t, fin, n), sent')
      BY <3>1 DEF Extends, ClientFrame
    <3>4. Abstract!SendFirst(t, n, fin)
      BY <2>1, <3>1 DEF Abstract!SendFirst, Abstract!AllDone, AllDone
    <3>5. n \in Pieces /\ t \in Abstract!MsgType
      BY DEF Pieces, Abstract!MsgType, MessageTypes
    <3> QED BY <2>4, <3>1, <3>2, <3>3, <3>4, <3>5 DEF Abstract!StreamNext
  <2>7. ASSUME NEW n \in DataSizes, NEW fin \in BOOLEAN, ClientContinues(n, fin)
        PROVE  StreamInv' /\ Abstract!StreamNext
    <3>1. /\ Transmit(ClientFrame("Continue", fin, n)) /\ ~AllDone(sent)
          /\ sent' = Grow(sent, n, fin)
      BY <2>7 DEF ClientContinues, AllDone
    <3>2. ClientFrame("Continue", fin, n) \in Frame
      BY ClientFrames, ClientAssumption
    <3>3. Extends(sent, ClientFrame("Continue", fin, n), sent')
      BY <3>1 DEF Extends, ClientFrame
    <3>4. Abstract!SendMore(n, fin)
      BY <2>1, <3>1 DEF Abstract!SendMore, Abstract!AllDone, AllDone, Grow, Abstract!Grow
    <3>5. n \in Pieces
      BY DEF Pieces
    <3> QED BY <2>4, <3>1, <3>2, <3>3, <3>4, <3>5 DEF Abstract!StreamNext
  <2>8. ASSUME NEW t \in {"Ping", "Close"}, Transmit(ClientFrame(t, TRUE, 1)), UNCHANGED sent
        PROVE  StreamInv'
    <3>1. ClientFrame(t, TRUE, 1) \in Frame
      BY ClientFrames
    <3>2. Extends(sent, ClientFrame(t, TRUE, 1), sent')
      BY <2>8 DEF Extends, ClientFrame
    <3> QED BY <2>4, <2>8, <3>1, <3>2
  <2> QED BY <1>2, <2>1, <2>5, <2>6, <2>7, <2>8, ClientSteps
<1>3. CASE Server /\ pc = "ret" /\ fret = "Ok" /\ fcall \in {"wait_data", "payload"}
  <2>1. ~errored /\ ~closing /\ ~Failing
    BY <1>0, <1>3 DEF ReadingInv, ReadingNow, CallShape, FPcs, Failing, Ready, ClosingOps
  <2>2. InStream
    BY <1>0, <2>1
  <2>3. UNCHANGED sent
    BY <1>3 DEF Server, cvars
  <2>4. CASE fcall = "wait_data"
    <3>1. InStream' /\ got' \in Seq(Message) /\ Abstract!Announce
      BY <1>0, <1>3, <2>2, <2>4, ShowsMessage
    <3> QED BY <1>0, <2>3, <3>1 DEF StreamInv, Abstract!StreamNext
  <2>5. CASE fcall = "payload"
    <3>1. /\ InStream' /\ got' \in Seq(Message)
          /\ \E n \in Pieces, fin \in BOOLEAN : Abstract!Deliver(n, fin)
      BY <1>0, <1>3, <2>2, <2>5, ShowsPayload
    <3> QED BY <1>0, <2>3, <3>1 DEF StreamInv, Abstract!StreamNext
  <2> QED BY <1>3, <2>4, <2>5
<1>4. ASSUME UNCHANGED <<sent, got>>,
             ~errored /\ ~closing /\ Aligned /\ InStream /\ ~Failing
               /\ ~errored' /\ ~closing' /\ ~Failing' => InStream'
      PROVE  StreamInv' /\ [Abstract!StreamNext]_<<sent, got>>
  <2>1. errored' \/ closing' \/ Failing' \/ InStream'
    BY <1>0, <1>4
  <2> QED BY <1>0, <1>4, <2>1 DEF StreamInv
<1>5. CASE Server /\ ~(pc = "ret" /\ fret = "Ok" /\ fcall \in {"wait_data", "payload"})
  <2>1. UNCHANGED <<sent, got>>
    BY <1>5 DEF Server, Observe, cvars
  <2> SUFFICES ASSUME ~errored, ~closing, Aligned, InStream, ~Failing,
                      ~errored', ~closing', ~Failing'
               PROVE  InStream'
    BY <1>4, <2>1
  <2>2. op \notin ClosingOps /\ (pc \in FPcs => fcall \in {"wait_data", "payload"})
    BY <1>0 DEF CallShape
  <2>3. pc # "ret"
    BY <1>5, <2>2 DEF Failing, FPcs
  <2>4. CASE FStep /\ UNCHANGED wvars
    BY <1>0, <2>1, <2>4, FStepStream
  <2>5. ASSUME NEW r, Finish(r)
        PROVE  r = "Ok" /\ pc' = "idle"
    BY <2>5, Zenon DEF Finish
  <2>6. CASE WriteSends \/ FlushDone \/ InnerCloses \/ InnerAborts
    <3>1. pc' = "idle" /\ UNCHANGED <<inbox, reader>>
      BY <2>5, <2>6
      DEF WriteSends, Send, FlushDone, InnerCloses, InnerAborts, Shut, tvars
    <3> QED BY <1>1, <2>1, <2>3, <3>1
  <2>7. CASE HandshakeWaits
    BY <1>0, <2>2, <2>7 DEF HandshakeWaits, CallShape
  <2>8. CASE WsSocketFails
    <3>1. pc = "flush" /\ op # "flush" => op \in ClosingOps
      BY <1>0 DEF CallShape
    <3>2. Finish("Socket")
      BY <2>2, <2>8, <3>1 DEF WsSocketFails
    <3> QED BY <2>5, <3>2
  <2> QED
    BY <1>5, <2>3, <2>4, <2>6, <2>7, <2>8
    DEF Server, ServerStep, WStep, WaitReturns, ReadGoesOn, ReadReturns, HandshakeFlushes,
        HandshakeSucceeds, HandshakeFails
<1>6. CASE App
  <2>1. UNCHANGED <<sent, got>>
    BY <1>6 DEF App, cvars
  <2> SUFFICES ASSUME InStream, ~closing'
               PROVE  InStream'
    BY <1>4, <2>1
  <2>2. ASSUME NEW o, HandshakeCall(o)
        PROVE  FALSE
    BY <2>2, Zenon DEF HandshakeCall
  <2>3. pc = "idle" /\ UNCHANGED <<inbox, reader>>
    BY <1>6
    DEF App, AppReads, AppOther, AppCloses, WaitMessageCall, ReadCall, WriteCall, CloseCall,
        CloseHandshakeCall, HandshakeCall, AbortCall, Begin, Reply, fvars, tvars
  <2>4. pc' # "ret"
    BY <1>6, <2>2, <2>3
    DEF App, AppReads, AppOther, AppCloses, WaitMessageCall, ReadCall, WriteCall, CloseCall,
        CloseHandshakeCall, AbortCall, Reply, fvars, Enter
  <2> QED BY <1>1, <2>1, <2>3, <2>4
<1>7. CASE AppDrops
  <2>1. UNCHANGED <<sent, got>>
    BY <1>7 DEF AppDrops, cvars
  <2>2. pc # "ret" /\ pc' = "idle" /\ UNCHANGED <<inbox, reader>>
    BY <1>7 DEF AppDrops, Cancel, Harmless, Interrupt, WsInterrupt, tvars
  <2> QED BY <1>1, <1>4, <2>1, <2>2
<1>8. CASE UNCHANGED cnvars
  <2>1. UNCHANGED <<sent, got, inbox, reader, pc, fcall, nread>>
    BY <1>8 DEF cnvars, vars, tvars, fvars, cvars
  <2>2. Received' = Received /\ Announcing' = Announcing
    BY <2>1 DEF Received, Announcing, Unshown
  <2>3. InStream => InStream'
    BY <2>1, <2>2, WireStands DEF InStream
  <2> QED BY <1>4, <2>1, <2>3
<1> QED BY <1>2, <1>3, <1>5, <1>6, <1>7, <1>8 DEF CNext

\* The connection implements MessageStream: the application receives the messages
\* of the client whole, in order and once, with their types, across fragments,
\* control frames, buffers of any size, failures and dropped calls.
THEOREM ConnectionDelivers ==
  ASSUME CountableSizes
  PROVE  CSpec => DeliversMessages
<1>1. CInit => FramingKeptInv
  BY DEF CInit, Init, TInit, FInit, FramingKeptInv, InboxWhole, Aligned, Due
<1>2. CInit => ReadingInv
  <2> SUFFICES ASSUME CInit
               PROVE  ReadingInv
    OBVIOUS
  <2>1. ~closing /\ ~eof
    BY Zenon DEF CInit, Init, TInit
  <2> QED BY <2>1 DEF CInit, Init, FInit, ReadingInv, ReadingNow, FPcs
<1>3. CInit => StreamInv
  <2> SUFFICES ASSUME CInit
               PROVE  StreamInv
    OBVIOUS
  <2>1. /\ sent = <<>> /\ got = <<>> /\ inbox = <<>> /\ reader = None /\ pc = "idle"
        /\ Len(inbox) = 0
    BY DEF CInit, Init, TInit, FInit
  <2>2. sent \in Seq(Message) /\ got \in Seq(Message) /\ Received = sent /\ ~Announcing
    BY <2>1 DEF Received, Announcing
  <2>3. PICK steps : steps = [i \in 0 .. 0 |-> sent]
    OBVIOUS
  <2>4. steps \in [0 .. Len(inbox) -> Seq(Message)] /\ steps[0] = sent
    BY <2>1, <2>2, <2>3
  <2>5. \A i \in 0 .. Len(inbox) : steps[i] = sent
    BY <2>1, <2>3
  <2>6. Leads(steps)
    BY <2>1, <2>2, <2>4, <2>5, BegunItself DEF Leads
  <2>7. OnTheWire
    BY <2>4, <2>6 DEF OnTheWire
  <2> QED BY <2>1, <2>2, <2>7 DEF StreamInv, InStream
<1>4. CInit => Abstract!StreamInit
  BY DEF CInit, Abstract!StreamInit
<1> QED
  BY <1>1, <1>2, <1>3, <1>4, Connected, ConnectionFraming, StepReading, StepStream, PTL
  DEF CSpec, DeliversMessages, Abstract!StreamSpec

=============================================================================
