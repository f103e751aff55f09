------------------------ MODULE FrameControllerProofs ------------------------
(***************************************************************************)
(* Proofs about FrameController and FrameReader, for every set of peer      *)
(* frames, every bound and every width of usize, with and without faults.   *)
(***************************************************************************)
EXTENDS FrameController, FiniteSetTheorems, TLAPS

-----------------------------------------------------------------------------
(* The transport keeps its types. *)

\* The peer's frames are frames, and so is what a header read yields.
LEMMA HeadersAreFrames ==
  ASSUME TTypeOK, NEW f \in NextHeaders
  PROVE  f \in Frame
BY TransportAssumption DEF NextHeaders, TTypeOK

\* What any step of the system does to the transport.
TransportStep ==
  \/ \E f \in Frame : Transmit(f)
  \/ EndOfStream
  \/ \E f \in NextHeaders : RecvHeader(f)
  \/ \E k \in Nat : Consume(k)
  \/ HeaderCut
  \/ PayloadCut
  \/ \E f \in OutFrame : Send(f)
  \/ SendCut
  \/ \E how \in {"closed", "aborted"} : Shut(how)
  \/ UNCHANGED tvars

\* Every operation of the transport keeps its variables in their types.
LEMMA TransportTypes ==
  ASSUME TTypeOK, TransportStep
  PROVE  TTypeOK'
<1> USE DEF TTypeOK
<1>1. CASE \E f \in Frame : Transmit(f)
  BY <1>1 DEF Transmit
<1>2. CASE EndOfStream
  <2>1. CASE UNCHANGED <<inbox, rest>>
    BY <1>2, <2>1 DEF EndOfStream
  <2>2. CASE inbox # <<>> /\ UNCHANGED rest /\ inbox' # inbox
    <3>1. PICK k \in 0 .. inbox[Len(inbox)].avail - 1 :
             inbox' = [inbox EXCEPT ![Len(inbox)].avail = k]
      BY <1>2, <2>2 DEF EndOfStream
    <3>2. Len(inbox) \in DOMAIN inbox /\ inbox[Len(inbox)] \in Frame
      BY <2>2
    <3>3. [inbox[Len(inbox)] EXCEPT !.avail = k] \in Frame
      BY <3>2, k \in Nat DEF Frame
    <3>4. inbox' = [inbox EXCEPT ![Len(inbox)] = [inbox[Len(inbox)] EXCEPT !.avail = k]]
      BY <3>1
    <3>5. inbox' \in Seq(Frame)
      BY <3>2, <3>3, <3>4
    <3> QED BY <1>2, <2>2, <3>5 DEF EndOfStream
  <2>3. CASE UNCHANGED inbox /\ rest' # rest
    BY <1>2, <2>3 DEF EndOfStream
  <2> QED BY <1>2, <2>1, <2>2, <2>3 DEF EndOfStream
<1>3. CASE \E f \in NextHeaders : RecvHeader(f)
  <2>1. PICK f \in NextHeaders : RecvHeader(f)
    BY <1>3
  <2>2. f \in Frame
    BY HeadersAreFrames
  <2>3. rest' \in Nat /\ rcvd' \in Seq(Frame)
    BY <2>1, <2>2 DEF RecvHeader, Frame
  <2>4. inbox' \in Seq(Frame)
    <3>1. CASE Garbled
      BY <2>1, <3>1 DEF RecvHeader
    <3>2. CASE ~Garbled
      BY <2>1, <3>2 DEF RecvHeader, NextHeaders
    <3> QED BY <3>1, <3>2
  <2> QED BY <2>1, <2>3, <2>4 DEF RecvHeader, Garbled
<1>4. CASE \E k \in Nat : Consume(k)
  BY <1>4 DEF Consume
<1>5. CASE HeaderCut
  <2>1. inbox' \in Seq(Frame) /\ rest' \in Nat
    <3>1. \/ inbox' = inbox /\ rest' = rest
          \/ inbox' = <<>> /\ rest' = 0
      BY <1>5, Zenon DEF HeaderCut
    <3>2. CASE inbox' = inbox /\ rest' = rest
      BY <3>2
    <3>3. CASE inbox' = <<>> /\ rest' = 0
      BY <3>3
    <3> QED BY <3>1, <3>2, <3>3, Zenon
  <2>2. lost' \in BOOLEAN
    BY <1>5, Zenon DEF HeaderCut
  <2> QED BY <1>5, <2>1, <2>2 DEF HeaderCut
<1>6. CASE PayloadCut
  BY <1>6 DEF PayloadCut
<1>7. CASE \E f \in OutFrame : Send(f)
  BY <1>7 DEF Send
<1>8. CASE SendCut
  BY <1>8 DEF SendCut
<1>9. CASE \E how \in {"closed", "aborted"} : Shut(how)
  BY <1>9 DEF Shut
<1>10. CASE UNCHANGED tvars
  BY <1>10 DEF tvars
<1> QED BY <1>1, <1>2, <1>3, <1>4, <1>5, <1>6, <1>7, <1>8, <1>9, <1>10 DEF TransportStep

-----------------------------------------------------------------------------
(* The steps of FrameController and FrameReader keep the types. *)

\* What a suspended call holds: a reader to read from, a header to echo.
FShape ==
  /\ pc \in {"payload", "hdr", "echo_recv", "echo_send", "ret"} /\ fcall = "payload"
        => reader \in Reader
  /\ pc = "payload" => fcall = "payload"
  /\ pc = "send" => fcall \in {"send_ping", "send_close"}
  /\ pc = "ret" /\ fcall = "wait_data" /\ fret = "Ok" => reader \in Reader
  /\ pc \in {"echo_recv", "echo_send"} => fhdr \in Frame /\ fhdr.type \in {"Ping", "Close"}

\* `as usize` of a length is a length.
LEMMA LenAsUsizeNat ==
  ASSUME NEW n \in Nat
  PROVE  LenAsUsize(n) \in Nat
BY TransportAssumption DEF LenAsUsize

\* The dispatch of process_control_frames on a header, and what its callers do.
LEMMA ReceiveHeaderTypes ==
  ASSUME TTypeOK, FTypeOK, FShape, ReceiveHeader, UNCHANGED errored
  PROVE  TTypeOK' /\ FTypeOK' /\ pc' \in FPcs
<1>1. PICK f \in NextHeaders :
        /\ RecvHeader(f)
        /\ IF Malformed(f)
             THEN Return("InvalidFrame") /\ KeepFlags /\ UNCHANGED reader
             ELSE OnData(f) \/ OnClose(f) \/ OnPing(f) \/ OnPong(f) \/ OversizedControl(f)
  BY DEF ReceiveHeader
<1>2. f \in Frame
  BY HeadersAreFrames
<1>3. TTypeOK'
  BY <1>1, TransportTypes DEF TransportStep
<1>4. UNCHANGED <<fcall, buflen>> /\ pc = "hdr"
  BY DEF ReceiveHeader
<1> USE DEF FTypeOK, FPcs, FrameReadErrors
<1>5. CASE Return("InvalidFrame") /\ KeepFlags /\ UNCHANGED reader
  BY <1>3, <1>4, <1>5 DEF Return, KeepFlags
<1>6. CASE OnData(f)
  <2>1. CASE fcall = "wait_data" /\ f.type # "Continue"
    <3>1. NewReader(f) \in Reader
      BY <1>2, <1>6, <2>1, LenAsUsizeNat DEF NewReader, Reader, Frame, OnData
    <3>2. reader' = NewReader(f) /\ Return("Ok") /\ KeepFlags
      BY <1>6, <2>1 DEF OnData
    <3> QED BY <1>3, <1>4, <3>1, <3>2 DEF Return, KeepFlags
  <2>2. CASE fcall = "payload" /\ f.type = "Continue"
    <3>1. reader \in Reader
      BY <1>4, <2>2 DEF FShape
    <3>2. NextFragment(reader, f) \in Reader
      BY <1>2, <3>1, LenAsUsizeNat DEF NextFragment, Reader, Frame
    <3>3. /\ reader' = NextFragment(reader, f) /\ pc' = "payload"
          /\ KeepFlags /\ UNCHANGED <<fhdr, fret, nread>>
      BY <1>6, <2>2 DEF OnData
    <3> QED BY <1>3, <1>4, <3>2, <3>3 DEF KeepFlags
  <2>3. CASE fcall = "process"
    BY <1>3, <1>4, <1>6, <2>3 DEF OnData, Return, KeepFlags
  <2>4. CASE /\ ~(fcall = "wait_data" /\ f.type # "Continue")
             /\ ~(fcall = "payload" /\ f.type = "Continue")
             /\ fcall # "process"
    <3>1. Return("InvalidFrame") /\ UNCHANGED reader /\ KeepFlags
      BY <1>6, <2>4 DEF OnData
    <3> QED BY <1>5, <3>1
  <2> QED BY <2>1, <2>2, <2>3, <2>4
<1>7. CASE OnClose(f)
  <2>1. CASE is_wait_for_close_response
    <3>1. is_wait_for_pong' \in BOOLEAN /\ is_wait_for_close_response' \in BOOLEAN
      BY <1>7, <2>1, Zenon DEF OnClose, ClosedByPeer
    <3>2. Return("ClosedByPeer") /\ UNCHANGED reader
      BY <1>7, <2>1, Zenon DEF OnClose, ClosedByPeer
    <3> QED BY <1>3, <1>4, <3>1, <3>2 DEF Return
  <2>2. CASE ~is_wait_for_close_response
    BY <1>2, <1>3, <1>4, <1>7, <2>2 DEF OnClose, KeepFlags
  <2> QED BY <2>1, <2>2
<1>8. CASE OnPing(f)
  BY <1>2, <1>3, <1>4, <1>8 DEF OnPing, KeepFlags
<1>9. CASE OnPong(f)
  <2>0. is_wait_for_pong' \in BOOLEAN
    BY <1>9, Zenon DEF OnPong
  <2>1. CASE is_wait_for_pong
    <3>1. UNCHANGED <<is_wait_for_close_response, reader, fhdr, fret, nread>> /\ pc' = "hdr"
      BY <1>9, <2>1, Zenon DEF OnPong
    <3> QED BY <1>3, <1>4, <2>0, <3>1
  <2>2. CASE ~is_wait_for_pong
    <3>1. UNCHANGED <<is_wait_for_close_response, reader>> /\ Return("InvalidControlFrame")
      BY <1>9, <2>2, Zenon DEF OnPong
    <3> QED BY <1>3, <1>4, <2>0, <3>1 DEF Return
  <2> QED BY <2>1, <2>2
<1>10. CASE OversizedControl(f)
  BY <1>3, <1>4, <1>10 DEF OversizedControl, Return, KeepFlags
<1> QED BY <1>1, <1>5, <1>6, <1>7, <1>8, <1>9, <1>10

\* Every step of frame_controller.rs keeps the types.
LEMMA FStepTypes ==
  ASSUME TTypeOK, FTypeOK, FShape, FStep
  PROVE  TTypeOK' /\ FTypeOK' /\ pc' \in FPcs
<1>0. UNCHANGED errored
  BY DEF FStep
<1>1. CASE ReceiveHeader
  BY <1>0, <1>1, ReceiveHeaderTypes
<1> USE DEF FTypeOK, FPcs, FrameReadErrors, KeepFlags
<1>2. CASE HeaderEof
  BY <1>0, <1>2, TransportTypes DEF TransportStep, HeaderEof, Return
<1>3. CASE SendBackRecv
  <2>1. fhdr \in Frame
    BY <1>3 DEF SendBackRecv, FShape
  <2>2. TTypeOK'
    BY <1>3, <2>1, TransportTypes DEF TransportStep, SendBackRecv, Frame
  <2> QED BY <1>0, <1>3, <2>2 DEF SendBackRecv
<1>4. CASE SendBackRecvFails
  BY <1>0, <1>4, TransportTypes DEF TransportStep, SendBackRecvFails, Return
<1>5. CASE SendBackSend
  <2>1. fhdr \in Frame
    BY <1>5 DEF SendBackSend, FShape
  <2>2. SendBackReply(fhdr) \in OutFrame
    BY <2>1 DEF SendBackReply, OutFrame, FrameTypes, Frame
  <2>3. TTypeOK'
    BY <1>5, <2>2, TransportTypes DEF TransportStep, SendBackSend
  <2>4. CASE fhdr.type = "Ping"
    BY <1>0, <1>5, <2>3, <2>4 DEF SendBackSend
  <2>5. CASE fhdr.type # "Ping"
    <3>1. /\ Return("ClosedByPeer")
          /\ UNCHANGED <<is_wait_for_close_response, reader, fcall, buflen>>
      BY <1>5, <2>5, Zenon DEF SendBackSend, ClosedByPeer
    <3>2. is_wait_for_pong' \in BOOLEAN
      BY <1>5, <2>5, Zenon DEF SendBackSend, ClosedByPeer
    <3> QED BY <1>0, <2>3, <3>1, <3>2 DEF Return
  <2> QED BY <2>4, <2>5
<1>6. CASE PayloadRead
  <2>1. reader \in Reader
    BY <1>6 DEF PayloadRead, FShape
  <2>2. PICK n \in ToRead : /\ Consume(n)
                            /\ reader' = [reader EXCEPT !.payload_len = @ - n]
                            /\ ReturnCount(n)
    BY <1>6 DEF PayloadRead
  <2>3. n \in Nat /\ reader.payload_len - n \in Nat
    BY <2>1 DEF ToRead, Reader
  <2>4. reader' \in Reader
    BY <2>1, <2>2, <2>3 DEF Reader
  <2>5. TTypeOK'
    BY <2>2, <2>3, TransportTypes DEF TransportStep
  <2> QED BY <1>0, <2>2, <2>3, <2>4, <2>5 DEF ReturnCount
<1>7. CASE PayloadEof
  BY <1>0, <1>7, TransportTypes DEF TransportStep, PayloadEof, ReturnCount
<1>8. CASE PayloadNothing
  BY <1>0, <1>8, TransportTypes DEF TransportStep, PayloadNothing, ReturnCount
<1>9. CASE PayloadNextFragment
  BY <1>0, <1>9, TransportTypes DEF TransportStep, PayloadNextFragment
<1>10. CASE SendFrame
  <2>1. /\ [type |-> "Ping", len |-> 0] \in OutFrame
        /\ [type |-> "Close", len |-> 2] \in OutFrame
    BY DEF OutFrame, FrameTypes
  <2>2. TTypeOK'
    BY <1>10, <2>1, TransportTypes DEF TransportStep, SendFrame
  <2>3. is_wait_for_pong' \in BOOLEAN /\ is_wait_for_close_response' \in BOOLEAN
    BY <1>10, Zenon DEF SendFrame
  <2>4. Return("Ok") /\ UNCHANGED <<reader, fcall, buflen>>
    BY <1>10 DEF SendFrame
  <2> QED BY <1>0, <2>2, <2>3, <2>4 DEF Return
<1>11. CASE SocketFails
  <2>1. TTypeOK'
    BY <1>11, TransportTypes DEF TransportStep, SocketFails, Interrupt
  <2> QED BY <1>0, <1>11, <2>1 DEF SocketFails, Return
<1> QED BY <1>1, <1>2, <1>3, <1>4, <1>5, <1>6, <1>7, <1>8, <1>9, <1>10, <1>11 DEF FStep
-----------------------------------------------------------------------------
(* A suspended call holds what its next step needs. *)

\* The reader and the header that the steps of frame_controller.rs rely on.
LEMMA FStepShape ==
  ASSUME TTypeOK, FTypeOK, FShape, FStep
  PROVE  FShape'
<1>0. reader' \in Reader \cup {None}
  BY FStepTypes DEF FTypeOK
<1>1. CASE ReceiveHeader
  <2>1. PICK f \in NextHeaders :
          /\ RecvHeader(f)
          /\ IF Malformed(f)
               THEN Return("InvalidFrame") /\ KeepFlags /\ UNCHANGED reader
               ELSE OnData(f) \/ OnClose(f) \/ OnPing(f) \/ OnPong(f) \/ OversizedControl(f)
    BY <1>1 DEF ReceiveHeader
  <2>2. UNCHANGED fcall /\ pc = "hdr" /\ f \in Frame
    BY <1>1, HeadersAreFrames DEF ReceiveHeader
  <2>3. CASE Return("InvalidFrame") /\ UNCHANGED reader
    BY <1>0, <2>2, <2>3 DEF Return, FShape
  <2>4. CASE OnData(f)
    <3>1. fcall = "payload" => reader' \in Reader
      <4> SUFFICES ASSUME fcall = "payload"
                   PROVE  reader' \in Reader
        OBVIOUS
      <4>1. reader \in Reader
        BY <2>2 DEF FShape
      <4>2. reader' = NextFragment(reader, f) \/ reader' = reader
        BY <2>4 DEF OnData
      <4> QED BY <2>2, <4>1, <4>2, LenAsUsizeNat DEF NextFragment, Reader, Frame
    <3>2. pc' = "ret" \/ (pc' = "payload" /\ fcall = "payload")
      BY <2>4 DEF OnData, Return
    <3>3. fcall = "wait_data" /\ pc' = "ret" /\ fret' = "Ok" => reader' \in Reader
      <4> SUFFICES ASSUME fcall = "wait_data", fret' = "Ok"
                   PROVE  reader' \in Reader
        OBVIOUS
      <4>1. reader' = NewReader(f) /\ f.type # "Continue"
        BY <2>4 DEF OnData, Return
      <4> QED BY <2>2, <2>4, <4>1, LenAsUsizeNat DEF NewReader, Reader, Frame, OnData
    <3> QED BY <1>0, <2>2, <3>1, <3>2, <3>3 DEF FShape
  <2>5. CASE OnClose(f) \/ OnPing(f)
    <3>1. (pc' = "ret" /\ fret' # "Ok") \/ (pc' = "echo_recv" /\ fhdr' = f)
      BY <2>5 DEF OnClose, OnPing, ClosedByPeer, Return
    <3>2. UNCHANGED reader /\ f.type \in {"Ping", "Close"}
      BY <2>5 DEF OnClose, OnPing
    <3> QED BY <1>0, <2>2, <3>1, <3>2 DEF FShape
  <2>6. CASE OnPong(f) \/ OversizedControl(f)
    <3>1. pc' \in {"ret", "hdr"} /\ (pc' = "ret" => fret' # "Ok") /\ UNCHANGED reader
      BY <2>6 DEF OnPong, OversizedControl, Return
    <3> QED BY <1>0, <2>2, <3>1 DEF FShape
  <2> QED BY <2>1, <2>3, <2>4, <2>5, <2>6
<1>2. CASE HeaderEof \/ SendBackRecvFails \/ SocketFails
  <2>1. /\ pc' = "ret" /\ fret' # "Ok" /\ UNCHANGED <<reader, fcall>>
        /\ pc \in {"hdr", "echo_recv", "echo_send", "send", "payload"}
    BY <1>2 DEF HeaderEof, SendBackRecvFails, SocketFails, Interrupt, Return
  <2> QED BY <1>0, <2>1 DEF FShape
<1>3. CASE SendBackRecv
  BY <1>0, <1>3 DEF SendBackRecv, FShape
<1>4. CASE SendBackSend
  <2>1. /\ pc = "echo_send" /\ pc' \in {"hdr", "ret"} /\ UNCHANGED <<reader, fcall>>
        /\ pc' = "ret" => fret' # "Ok"
    BY <1>4 DEF SendBackSend, ClosedByPeer, Return
  <2> QED BY <1>0, <2>1 DEF FShape
<1>5. CASE PayloadRead
  <2>1. reader \in Reader /\ fcall = "payload"
    BY <1>5 DEF PayloadRead, FShape
  <2>2. PICK n \in ToRead : reader' = [reader EXCEPT !.payload_len = @ - n] /\ ReturnCount(n)
    BY <1>5 DEF PayloadRead
  <2>3. n \in Nat /\ reader.payload_len - n \in Nat
    BY <2>1 DEF ToRead, Reader, FTypeOK
  <2>4. reader' \in Reader
    BY <2>1, <2>2, <2>3 DEF Reader
  <2> QED BY <1>0, <2>1, <2>2, <2>4 DEF FShape, ReturnCount
<1>6. CASE PayloadEof \/ PayloadNothing
  BY <1>0, <1>6 DEF PayloadEof, PayloadNothing, ReturnCount, FShape
<1>7. CASE PayloadNextFragment
  BY <1>0, <1>7 DEF PayloadNextFragment, FShape
<1>8. CASE SendFrame
  <2>1. pc' = "ret" /\ UNCHANGED <<reader, fcall>>
    BY <1>8 DEF SendFrame, Return
  <2>2. fcall \in {"send_ping", "send_close"}
    BY <1>8 DEF SendFrame, FShape
  <2> QED BY <1>0, <2>1, <2>2 DEF FShape
<1> QED BY <1>1, <1>2, <1>3, <1>4, <1>5, <1>6, <1>7, <1>8 DEF FStep
\* Every step of frame_controller.rs does to the transport one of the things listed.
LEMMA FStepTransport ==
  ASSUME TTypeOK, FTypeOK, FShape, FStep
  PROVE  TransportStep
<1>1. CASE SendBackRecv
  BY <1>1 DEF SendBackRecv, FShape, Frame, TransportStep
<1>2. CASE SendBackSend
  <2>1. fhdr \in Frame
    BY <1>2 DEF SendBackSend, FShape
  <2>2. SendBackReply(fhdr) \in OutFrame
    BY <2>1 DEF SendBackReply, OutFrame, FrameTypes, Frame
  <2> QED BY <1>2, <2>2 DEF SendBackSend, TransportStep
<1>3. CASE PayloadRead
  <2>1. reader \in Reader
    BY <1>3 DEF PayloadRead, FShape
  <2>2. \E n \in ToRead : Consume(n)
    BY <1>3 DEF PayloadRead
  <2>3. ToRead \subseteq Nat
    BY <2>1 DEF ToRead, Reader, FTypeOK
  <2> QED BY <2>2, <2>3 DEF TransportStep
<1>4. CASE SendFrame
  <2>1. /\ [type |-> "Ping", len |-> 0] \in OutFrame
        /\ [type |-> "Close", len |-> 2] \in OutFrame
    BY DEF OutFrame, FrameTypes
  <2> QED BY <1>4, <2>1 DEF SendFrame, TransportStep
<1>5. CASE ReceiveHeader
  BY <1>5 DEF ReceiveHeader, TransportStep
<1>6. CASE SocketFails
  BY <1>6 DEF SocketFails, Interrupt, TransportStep
<1> QED
  BY <1>1, <1>2, <1>3, <1>4, <1>5, <1>6
  DEF FStep, HeaderEof, SendBackRecvFails, PayloadEof, PayloadNothing,
      PayloadNextFragment, TransportStep

\* frame_controller.rs only takes frames off the wire.
LEMMA FStepShrinks ==
  ASSUME TTypeOK, FStep
  PROVE  Len(inbox') <= Len(inbox)
<1>1. inbox' = inbox \/ inbox' = <<>> \/ (inbox # <<>> /\ inbox' = Tail(inbox))
  BY DEF FStep, ReceiveHeader, RecvHeader, NextHeaders, HeaderEof, SendBackRecv,
         SendBackRecvFails, SendBackSend, PayloadRead, PayloadEof, PayloadNothing,
         PayloadNextFragment, SendFrame, SocketFails, Interrupt, HeaderCut, PayloadCut,
         SendCut, Consume, Send, tvars
<1> QED BY <1>1 DEF TTypeOK

-----------------------------------------------------------------------------
(* The position in the inbound stream. *)

\* The payload bytes that the functions still have to read: of the control frame
\* send_back echoes, or of the fragment the reader stands in.
Due ==
  IF pc = "echo_recv" THEN fhdr.len
  ELSE IF reader = None THEN 0 ELSE reader.payload_len

\* Frames on the wire are whole, except the last one after the end of the stream,
\* and of a length that usize can count.
InboxWhole ==
  \A i \in 1 .. Len(inbox) :
    /\ inbox[i].len < UsizeMod
    /\ inbox[i].avail <= inbox[i].len
    /\ inbox[i].avail < inbox[i].len => eof /\ i = Len(inbox)

\* OnPong reads no payload, so a Pong must have none.
PongsEmpty == \A i \in 1 .. Len(inbox) : inbox[i].type = "Pong" => inbox[i].len = 0

\* The bytes left of the frame are those the functions will read (fewer only
\* where the stream ends).  process_control_frames leaves a data frame unread.
Aligned ==
  /\ ~lost
  /\ pc \in {"hdr", "echo_recv", "echo_send"} => reader = None \/ reader.payload_len = 0
  /\ ~(pc = "ret" /\ fcall = "process") =>
        rest <= Due /\ (rest < Due => eof /\ inbox = <<>>)

\* The caller is being told of a failure.
Failing == pc = "ret" /\ fret # "Ok"

\* Framing is kept until a call fails.
FramingInv == InboxWhole /\ PongsEmpty /\ (errored \/ Failing \/ Aligned)

\* What the transport does to the frames on the wire.
LEMMA InboxMoves ==
  ASSUME TTypeOK, TransportStep
  PROVE  /\ eof => eof'
         /\ \/ inbox' = inbox
            \/ inbox' = <<>>
            \/ inbox # <<>> /\ inbox' = Tail(inbox)
            \/ \E f \in Frame : Transmit(f)
            \/ /\ inbox # <<>> /\ eof'
               /\ \E k \in 0 .. inbox[Len(inbox)].avail - 1 :
                     inbox' = [inbox EXCEPT ![Len(inbox)].avail = k]
<1>1. CASE \E f \in Frame : Transmit(f)
  BY <1>1 DEF Transmit
<1>2. CASE EndOfStream
  BY <1>2, Zenon DEF EndOfStream
<1>3. CASE \E f \in NextHeaders : RecvHeader(f)
  BY <1>3 DEF RecvHeader, NextHeaders
<1>4. CASE ~(\E f \in Frame : Transmit(f)) /\ ~EndOfStream /\ ~(\E f \in NextHeaders : RecvHeader(f))
  BY <1>4 DEF TransportStep, Consume, HeaderCut, PayloadCut, Send, SendCut, Shut, tvars
<1> QED BY <1>1, <1>2, <1>3, <1>4

\* What becomes of each frame on the wire: cut short, moved up, or unchanged.
LEMMA InboxFrames ==
  ASSUME TTypeOK, TransportStep, NEW i \in 1 .. Len(inbox')
  PROVE  \/ \E f \in Frame : Transmit(f) /\ ~eof /\ inbox'[i] = f /\ i = Len(inbox')
         \/ \E j \in 1 .. Len(inbox) :
              /\ inbox'[i].len = inbox[j].len /\ inbox'[i].type = inbox[j].type
              /\ \/ inbox'[i].avail = inbox[j].avail /\ (j = Len(inbox) => i = Len(inbox') \/ ~eof)
                 \/ inbox'[i].avail < inbox[j].avail /\ i = Len(inbox') /\ eof'
<1> USE DEF TTypeOK
<1>1. CASE inbox' = inbox
  BY <1>1
<1>2. CASE inbox' = <<>>
  BY <1>2
<1>3. CASE inbox # <<>> /\ inbox' = Tail(inbox)
  <2>1. i + 1 \in 1 .. Len(inbox) /\ inbox'[i] = inbox[i + 1] /\ Len(inbox') = Len(inbox) - 1
    BY <1>3
  <2> QED BY <2>1
<1>4. CASE \E f \in Frame : Transmit(f)
  <2>1. PICK f \in Frame : Transmit(f)
    BY <1>4
  <2>2. inbox' = Append(inbox, f) /\ ~eof
    BY <2>1 DEF Transmit
  <2>3. CASE i = Len(inbox) + 1
    BY <2>1, <2>2, <2>3
  <2>4. CASE i \in 1 .. Len(inbox)
    BY <2>2, <2>4
  <2> QED BY <2>2, <2>3, <2>4
<1>5. CASE /\ inbox # <<>> /\ eof'
           /\ \E k \in 0 .. inbox[Len(inbox)].avail - 1 :
                 inbox' = [inbox EXCEPT ![Len(inbox)].avail = k]
  <2>1. PICK k \in 0 .. inbox[Len(inbox)].avail - 1 :
           inbox' = [inbox EXCEPT ![Len(inbox)].avail = k]
    BY <1>5
  <2>2. Len(inbox) \in 1 .. Len(inbox) /\ inbox[Len(inbox)] \in Frame
    BY <1>5
  <2>3. /\ Len(inbox') = Len(inbox)
        /\ \A j \in 1 .. Len(inbox) : j # Len(inbox) => inbox'[j] = inbox[j]
        /\ inbox'[Len(inbox)] = [inbox[Len(inbox)] EXCEPT !.avail = k]
    <3> DEFINE cut == [inbox[Len(inbox)] EXCEPT !.avail = k]
    <3>1. inbox' = [inbox EXCEPT ![Len(inbox)] = cut]
      BY <2>1
    <3> HIDE DEF cut
    <3>2. /\ Len(inbox') = Len(inbox)
          /\ \A j \in 1 .. Len(inbox) : j # Len(inbox) => inbox'[j] = inbox[j]
          /\ inbox'[Len(inbox)] = cut
      BY <2>2, <3>1
    <3> QED BY <3>2 DEF cut
  <2>4. /\ inbox'[Len(inbox)].avail = k
        /\ inbox'[Len(inbox)].len = inbox[Len(inbox)].len
        /\ inbox'[Len(inbox)].type = inbox[Len(inbox)].type
    BY <2>2, <2>3 DEF Frame
  <2>5. inbox[Len(inbox)].avail \in Nat /\ k < inbox[Len(inbox)].avail
    BY <2>2 DEF Frame
  <2>6. CASE i = Len(inbox)
    BY <1>5, <2>2, <2>3, <2>4, <2>5, <2>6
  <2>7. CASE i # Len(inbox)
    BY <2>3, <2>7
  <2> QED BY <2>6, <2>7
<1> QED BY <1>1, <1>2, <1>3, <1>4, <1>5, InboxMoves

\* Nothing but the end of the stream cuts a frame on the wire.
LEMMA InboxStaysWhole ==
  ASSUME TTypeOK, TTypeOK', TransportStep, InboxWhole,
         \A f \in Frame : Transmit(f) => f.len < UsizeMod /\ f.avail = f.len
  PROVE  InboxWhole'
<1> SUFFICES ASSUME NEW i \in 1 .. Len(inbox')
             PROVE  /\ inbox'[i].len < UsizeMod
                    /\ inbox'[i].avail <= inbox'[i].len
                    /\ inbox'[i].avail < inbox'[i].len => eof' /\ i = Len(inbox')
  BY DEF InboxWhole
<1>1. eof => eof'
  BY InboxMoves
<1>2. inbox'[i] \in Frame
  BY DEF TTypeOK
<1>3. CASE \E f \in Frame : Transmit(f) /\ ~eof /\ inbox'[i] = f
  BY <1>3 DEF Frame
<1>4. ASSUME NEW j \in 1 .. Len(inbox),
             inbox'[i].len = inbox[j].len,
             \/ inbox'[i].avail = inbox[j].avail /\ (j = Len(inbox) => i = Len(inbox') \/ ~eof)
             \/ inbox'[i].avail < inbox[j].avail /\ i = Len(inbox') /\ eof'
      PROVE  /\ inbox'[i].len < UsizeMod
             /\ inbox'[i].avail <= inbox'[i].len
             /\ inbox'[i].avail < inbox'[i].len => eof' /\ i = Len(inbox')
  <2>1. inbox[j] \in Frame
    BY DEF TTypeOK
  <2>2. /\ inbox[j].len < UsizeMod
        /\ inbox[j].avail <= inbox[j].len
        /\ inbox[j].avail < inbox[j].len => eof /\ j = Len(inbox)
    BY DEF InboxWhole
  <2> QED BY <1>1, <1>2, <1>4, <2>1, <2>2, TransportAssumption DEF Frame
<1> QED BY <1>3, <1>4, InboxFrames

\* The type and the length of a frame on the wire never change.
LEMMA PongsStayEmpty ==
  ASSUME TTypeOK, TransportStep, PongsEmpty,
         \A f \in Frame : Transmit(f) => (f.type = "Pong" => f.len = 0)
  PROVE  PongsEmpty'
BY InboxFrames DEF PongsEmpty

\* A header read at a frame boundary is the next frame of the wire, whose payload
\* then lies ahead.
LEMMA HeaderAtBoundary ==
  ASSUME TTypeOK, InboxWhole, ~lost, rest = 0, NEW f, RecvHeader(f)
  PROVE  /\ f \in Frame /\ ~lost' /\ UNCHANGED eof
         /\ rest' = f.avail /\ f.len < UsizeMod /\ LenAsUsize(f.len) = f.len
         /\ f.avail <= f.len /\ (f.avail < f.len => eof /\ inbox' = <<>>)
         /\ Len(inbox) > 0 /\ f = inbox[1]
<1>1. ~Garbled
  BY DEF Garbled
<1>2. Len(inbox) > 0 /\ f = inbox[1] /\ inbox' = Tail(inbox) /\ rest' = f.avail /\ UNCHANGED eof
  BY <1>1 DEF RecvHeader, NextHeaders, TTypeOK
<1>3. ~lost'
  BY <1>1, Zenon DEF RecvHeader
<1>4. 1 \in 1 .. Len(inbox) /\ f \in Frame
  BY <1>2 DEF TTypeOK
<1>5. /\ f.len < UsizeMod /\ f.avail <= f.len
      /\ f.avail < f.len => eof /\ Len(inbox) = 1
  BY <1>2, <1>4 DEF InboxWhole
<1>6. LenAsUsize(f.len) = f.len
  BY <1>4, <1>5, TransportAssumption DEF LenAsUsize, Frame
<1>7. Len(inbox) = 1 => inbox' = <<>>
  BY <1>2 DEF TTypeOK
<1> QED BY <1>2, <1>3, <1>4, <1>5, <1>6, <1>7

\* Reading what is due never runs past the end of the frame.
LEMMA ConsumeDue ==
  ASSUME TTypeOK, ~lost, NEW d \in Nat, NEW n \in 0 .. d, Consume(n),
         rest <= d, rest < d => eof /\ inbox = <<>>
  PROVE  /\ ~lost' /\ rest' = rest - n /\ n <= rest
         /\ UNCHANGED <<eof, inbox>>
<1>1. n <= rest
  BY DEF Consume, TTypeOK
<1>2. ~(n > rest)
  BY <1>1 DEF TTypeOK
<1>3. ~lost'
  BY <1>2, Zenon DEF Consume
<1> QED BY <1>1, <1>3 DEF Consume, TTypeOK

\* Each step of frame_controller.rs keeps the position, or fails.
LEMMA FStepAligned ==
  ASSUME TTypeOK, FTypeOK, FShape, FStep, InboxWhole, Aligned,
         is_wait_for_pong => PongsEmpty
  PROVE  Failing' \/ Aligned'
<1> USE NoneAssumption
<1>0. ~lost /\ rest \in Nat /\ reader \in Reader \cup {None}
  BY DEF Aligned, TTypeOK, FTypeOK
<1>1. CASE ReceiveHeader
  <2>1. PICK f \in NextHeaders :
          /\ RecvHeader(f)
          /\ IF Malformed(f)
               THEN Return("InvalidFrame") /\ KeepFlags /\ UNCHANGED reader
               ELSE OnData(f) \/ OnClose(f) \/ OnPing(f) \/ OnPong(f) \/ OversizedControl(f)
    BY <1>1 DEF ReceiveHeader
  <2>2. /\ pc = "hdr" /\ UNCHANGED fcall /\ rest = 0
        /\ reader = None \/ reader.payload_len = 0
    BY <1>0, <1>1 DEF ReceiveHeader, Aligned, Due
  <2>3. /\ f \in Frame /\ ~lost' /\ UNCHANGED eof
        /\ rest' = f.avail /\ f.len < UsizeMod /\ LenAsUsize(f.len) = f.len
        /\ f.avail <= f.len /\ (f.avail < f.len => eof /\ inbox' = <<>>)
        /\ Len(inbox) > 0 /\ f = inbox[1]
    BY <1>0, <2>1, <2>2, HeaderAtBoundary
  <2>4. f.len \in Nat /\ f.avail \in Nat
    BY <2>3 DEF Frame
  <2>5. CASE Return("InvalidFrame") \/ OversizedControl(f)
    BY <2>5 DEF Return, OversizedControl, Failing
  <2>6. CASE OnData(f)
    <3>1. CASE fcall = "wait_data" /\ f.type # "Continue"
      <4>1. pc' = "ret" /\ reader' = NewReader(f)
        BY <2>6, <3>1 DEF OnData, Return
      <4>2. NewReader(f) \in Reader /\ NewReader(f).payload_len = f.len
        BY <2>3, <2>6, <3>1 DEF NewReader, Reader, Frame, OnData
      <4>3. Due' = f.len
        BY <4>1, <4>2 DEF Due
      <4> QED BY <2>3, <2>4, <4>1, <4>3 DEF Aligned
    <3>2. CASE fcall = "payload" /\ f.type = "Continue"
      <4>1. pc' = "payload" /\ reader' = NextFragment(reader, f)
        BY <2>6, <3>2 DEF OnData
      <4>2. reader \in Reader
        BY <2>2, <3>2 DEF FShape
      <4>3. NextFragment(reader, f) \in Reader /\ NextFragment(reader, f).payload_len = f.len
        BY <2>3, <4>2 DEF NextFragment, Reader, Frame
      <4>4. Due' = f.len
        BY <4>1, <4>3 DEF Due
      <4> QED BY <2>3, <2>4, <4>1, <4>4 DEF Aligned
    <3>3. CASE fcall = "process"
      <4>1. pc' = "ret" /\ fcall' = "process"
        BY <2>2, <2>6, <3>3 DEF OnData, Return
      <4> QED BY <2>3, <4>1 DEF Aligned
    <3>4. CASE /\ ~(fcall = "wait_data" /\ f.type # "Continue")
               /\ ~(fcall = "payload" /\ f.type = "Continue")
               /\ fcall # "process"
      BY <2>6, <3>4 DEF OnData, Return, Failing
    <3> QED BY <3>1, <3>2, <3>3, <3>4
  <2>7. CASE OnClose(f) \/ OnPing(f)
    <3>1. UNCHANGED reader /\ (Failing' \/ (pc' = "echo_recv" /\ fhdr' = f))
      BY <2>7 DEF OnClose, OnPing, ClosedByPeer, Return, Failing
    <3>2. pc' = "echo_recv" /\ fhdr' = f => Due' = f.len
      BY DEF Due
    <3> QED BY <2>2, <2>3, <2>4, <3>1, <3>2 DEF Aligned
  <2>8. CASE OnPong(f)
    <3>1. CASE is_wait_for_pong
      <4>1. f.len = 0
        BY <2>3, <2>8, <3>1 DEF PongsEmpty, OnPong, TTypeOK
      <4>2. pc' = "hdr" /\ UNCHANGED reader
        BY <2>8, <3>1 DEF OnPong
      <4>3. Due' = 0
        BY <2>2, <4>2 DEF Due
      <4> QED BY <2>2, <2>3, <2>4, <4>1, <4>2, <4>3 DEF Aligned
    <3>2. CASE ~is_wait_for_pong
      BY <2>8, <3>2 DEF OnPong, Return, Failing
    <3> QED BY <3>1, <3>2
  <2> QED BY <2>1, <2>5, <2>6, <2>7, <2>8
<1>2. CASE HeaderEof \/ SendBackRecvFails \/ SocketFails
  BY <1>2 DEF HeaderEof, SendBackRecvFails, SocketFails, Return, Failing
<1>3. CASE SendBackRecv
  <2>1. /\ pc = "echo_recv" /\ fhdr \in Frame /\ Due = fhdr.len
        /\ pc' = "echo_send" /\ UNCHANGED <<reader, fhdr>> /\ Consume(fhdr.len)
    BY <1>3 DEF SendBackRecv, FShape, Due
  <2>2. rest <= fhdr.len /\ (rest < fhdr.len => eof /\ inbox = <<>>)
    BY <2>1 DEF Aligned
  <2>3. fhdr.len \in Nat
    BY <2>1 DEF Frame
  <2>4. ~lost' /\ rest' = 0
    BY <1>0, <2>1, <2>2, <2>3, ConsumeDue
  <2>5. reader = None \/ reader.payload_len = 0
    BY <2>1 DEF Aligned
  <2>6. Due' = 0
    BY <2>1, <2>5 DEF Due
  <2> QED BY <2>1, <2>4, <2>5, <2>6 DEF Aligned
<1>4. CASE SendBackSend
  <2>1. /\ pc = "echo_send" /\ UNCHANGED <<reader, rest, lost, eof, inbox>>
        /\ pc' = "hdr" \/ Failing'
    BY <1>4 DEF SendBackSend, Send, ClosedByPeer, Return, Failing
  <2> QED BY <1>0, <2>1 DEF Aligned, Due
<1>5. CASE PayloadRead
  <2>1. reader \in Reader /\ fcall = "payload" /\ pc = "payload"
    BY <1>5 DEF PayloadRead, FShape
  <2>2. PICK n \in ToRead : /\ Consume(n)
                            /\ reader' = [reader EXCEPT !.payload_len = @ - n]
                            /\ ReturnCount(n)
    BY <1>5 DEF PayloadRead
  <2>3. reader.payload_len \in Nat /\ n \in 0 .. reader.payload_len
    BY <2>1 DEF ToRead, Reader, FTypeOK
  <2>4. Due = reader.payload_len /\ rest <= Due /\ (rest < Due => eof /\ inbox = <<>>)
    BY <2>1 DEF Due, Aligned
  <2>5. ~lost' /\ rest' = rest - n /\ n <= rest /\ UNCHANGED <<eof, inbox>>
    BY <1>0, <2>2, <2>3, <2>4, ConsumeDue
  <2>6. reader' \in Reader /\ reader'.payload_len = reader.payload_len - n
    BY <2>1, <2>2, <2>3 DEF Reader
  <2>7. pc' = "ret" /\ fcall' = "payload"
    BY <2>1, <2>2 DEF ReturnCount
  <2>8. Due' = Due - n
    BY <2>4, <2>6, <2>7 DEF Due
  <2> QED BY <1>0, <2>3, <2>4, <2>5, <2>7, <2>8 DEF Aligned
<1>6. CASE PayloadEof \/ PayloadNothing \/ PayloadNextFragment
  <2>1. /\ pc = "payload" /\ UNCHANGED <<reader, fcall, tvars>>
        /\ pc' = "ret" \/ (pc' = "hdr" /\ reader.payload_len = 0)
    BY <1>6 DEF PayloadEof, PayloadNothing, PayloadNextFragment, ReturnCount
  <2> QED BY <1>0, <2>1 DEF Aligned, Due, tvars, FShape
<1>7. CASE SendFrame
  <2>1. /\ pc = "send" /\ pc' = "ret" /\ UNCHANGED <<reader, fcall, rest, lost, eof, inbox>>
    BY <1>7 DEF SendFrame, Send, Return
  <2> QED BY <1>0, <2>1 DEF Aligned, Due, FShape
<1> QED BY <1>1, <1>2, <1>3, <1>4, <1>5, <1>6, <1>7 DEF FStep

\* What is due is a number of bytes.
LEMMA DueNat ==
  ASSUME FTypeOK, FShape
  PROVE  Due \in Nat
BY DEF Due, FTypeOK, FShape, Frame, Reader

\* So does the peer: the end of the stream may only cut off what is due.
LEMMA PeerAligned ==
  ASSUME TTypeOK, FTypeOK, FShape, Aligned, UNCHANGED fvars,
         (\E f \in Frame : Transmit(f)) \/ EndOfStream
  PROVE  Aligned'
<1>1. UNCHANGED <<pc, reader, fcall, fhdr>> /\ Due' = Due
  BY DEF fvars, Due
<1>2. CASE \E f \in Frame : Transmit(f)
  BY <1>1, <1>2 DEF Transmit, Aligned
<1>3. CASE EndOfStream
  <2>1. /\ UNCHANGED lost /\ eof'
        /\ \/ UNCHANGED <<inbox, rest>>
           \/ UNCHANGED rest /\ inbox # <<>>
           \/ inbox = <<>> /\ inbox' = <<>> /\ rest' \in 0 .. rest - 1
    BY <1>3, Zenon DEF EndOfStream
  <2>2. ~(pc = "ret" /\ fcall = "process") =>
          rest' <= Due /\ (rest' < Due => inbox' = <<>>)
    <3> SUFFICES ASSUME ~(pc = "ret" /\ fcall = "process")
                 PROVE  rest' <= Due /\ (rest' < Due => inbox' = <<>>)
      OBVIOUS
    <3>1. rest <= Due /\ (rest < Due => inbox = <<>>)
      BY DEF Aligned
    <3> QED BY <2>1, <3>1, DueNat DEF TTypeOK
  <2> QED BY <1>1, <2>1, <2>2 DEF Aligned
<1> QED BY <1>2, <1>3

-----------------------------------------------------------------------------
(* The balance of control frames. *)

\* A call sends its frame only while none of its kind is outstanding.
SendsFresh ==
  pc = "send" =>
    /\ fcall = "send_ping" => ~is_wait_for_pong
    /\ fcall = "send_close" => ~is_wait_for_close_response

\* 1 while a Close that was received is still being answered.
Echoing == Pending(pc \in {"echo_recv", "echo_send"} /\ fhdr.type = "Close")

Balance ==
  /\ CountOut("Ping") + Echoing
       <= CountIn("Pong") + CountIn("Close") + Pending(is_wait_for_pong)
  /\ CountOut("Close") + Echoing <= CountIn("Close") + Pending(is_wait_for_close_response)

\* A frame more is counted under its own type.
LEMMA CountAppend ==
  ASSUME NEW S, NEW s \in Seq(S), NEW f \in S, NEW t
  PROVE  /\ Count(t, s) \in Nat
         /\ Count(t, Append(s, f)) = Count(t, s) + Pending(f.type = t)
<1> DEFINE idx == {i \in DOMAIN s : s[i].type = t}
           new == {i \in DOMAIN Append(s, f) : Append(s, f)[i].type = t}
<1>1. IsFiniteSet(1 .. Len(s)) /\ idx \subseteq 1 .. Len(s)
  BY FS_Interval
<1>2. IsFiniteSet(idx)
  BY <1>1, FS_Subset
<1>3. Cardinality(idx) \in Nat
  BY <1>2, FS_CardinalityType
<1>4. /\ DOMAIN Append(s, f) = 1 .. Len(s) + 1
      /\ \A i \in DOMAIN s : Append(s, f)[i] = s[i]
      /\ Append(s, f)[Len(s) + 1] = f
      /\ DOMAIN s = 1 .. Len(s) /\ Len(s) \in Nat
  OBVIOUS
<1>5. CASE f.type = t
  <2>1. new = idx \cup {Len(s) + 1}
    BY <1>4, <1>5
  <2>2. Len(s) + 1 \notin idx
    BY <1>4
  <2>3. Cardinality(new) = Cardinality(idx) + 1
    BY <1>2, <2>1, <2>2, FS_AddElement
  <2> QED BY <1>3, <1>5, <2>3 DEF Count, Pending
<1>6. CASE f.type # t
  <2>1. new = idx
    BY <1>4, <1>6
  <2>2. Count(t, Append(s, f)) = Count(t, s) /\ Count(t, s) \in Nat
    BY <1>3, <2>1 DEF Count
  <2>3. Pending(f.type = t) = 0
    BY <1>6 DEF Pending
  <2> QED BY <2>2, <2>3
<1> QED BY <1>5, <1>6

\* Every frame written or header read adds to its own count.
LEMMA CountSteps ==
  ASSUME TTypeOK
  PROVE  /\ \A t : CountOut(t) \in Nat /\ CountIn(t) \in Nat
         /\ \A t : \A f \in OutFrame : Send(f) => CountOut(t)' = CountOut(t) + Pending(f.type = t)
         /\ \A t : \A f \in NextHeaders :
              RecvHeader(f) => CountIn(t)' = CountIn(t) + Pending(f.type = t)
<1>1. outbox \in Seq(OutFrame) /\ rcvd \in Seq(Frame) /\ \A f \in NextHeaders : f \in Frame
  BY HeadersAreFrames DEF TTypeOK
<1>2. ASSUME NEW t
      PROVE  CountOut(t) \in Nat /\ CountIn(t) \in Nat
  <2>1. [type |-> "Ping", len |-> 0] \in OutFrame
    BY DEF OutFrame, FrameTypes
  <2>2. [type |-> "Ping", fin |-> TRUE, len |-> 0, avail |-> 0] \in Frame
    BY DEF Frame, FrameTypes
  <2> QED BY <1>1, <2>1, <2>2, CountAppend DEF CountOut, CountIn
<1>3. ASSUME NEW f \in OutFrame, NEW t, Send(f)
      PROVE  CountOut(t)' = CountOut(t) + Pending(f.type = t)
  BY <1>1, <1>3, CountAppend DEF CountOut, Send
<1>4. ASSUME NEW f \in NextHeaders, NEW t, RecvHeader(f)
      PROVE  CountIn(t)' = CountIn(t) + Pending(f.type = t)
  BY <1>1, <1>4, CountAppend DEF CountIn, RecvHeader
<1> QED BY <1>2, <1>3, <1>4

\* No step of frame_controller.rs sends a Ping or a Close that is not due.
LEMMA FStepBalance ==
  ASSUME TTypeOK, FTypeOK, FShape, SendsFresh, Balance, FStep
  PROVE  Balance'
<1> USE DEF Pending
<1>1. /\ CountOut("Ping") \in Nat /\ CountOut("Close") \in Nat
      /\ CountIn("Pong") \in Nat /\ CountIn("Close") \in Nat
  BY CountSteps
<1>2. ASSUME UNCHANGED <<outbox, rcvd>>, KeepFlags,
             pc' \notin {"echo_recv", "echo_send"} \/ (pc = "echo_recv" /\ UNCHANGED fhdr)
      PROVE  Balance'
  <2>1. Echoing' <= Echoing /\ Echoing \in {0, 1} /\ Echoing' \in {0, 1}
    BY <1>2 DEF Echoing
  <2>2. /\ CountOut("Ping")' = CountOut("Ping") /\ CountOut("Close")' = CountOut("Close")
        /\ CountIn("Pong")' = CountIn("Pong") /\ CountIn("Close")' = CountIn("Close")
    BY <1>2 DEF CountOut, CountIn
  <2> QED BY <1>1, <1>2, <2>1, <2>2 DEF Balance, KeepFlags
<1>3. CASE ReceiveHeader
  <2>1. PICK f \in NextHeaders :
          /\ RecvHeader(f)
          /\ IF Malformed(f)
               THEN Return("InvalidFrame") /\ KeepFlags /\ UNCHANGED reader
               ELSE OnData(f) \/ OnClose(f) \/ OnPing(f) \/ OnPong(f) \/ OversizedControl(f)
    BY <1>3 DEF ReceiveHeader
  <2>2. /\ CountIn("Close")' = CountIn("Close") + Pending(f.type = "Close")
        /\ CountIn("Pong")' = CountIn("Pong") + Pending(f.type = "Pong")
        /\ CountOut("Ping")' = CountOut("Ping") /\ CountOut("Close")' = CountOut("Close")
    BY <2>1, CountSteps DEF CountOut, RecvHeader
  <2>3. Echoing = 0
    BY <1>3 DEF ReceiveHeader, Echoing
  <2>4. CASE \/ Return("InvalidFrame") /\ KeepFlags
             \/ OnData(f) \/ OversizedControl(f) \/ OnPing(f)
    <3>1. KeepFlags
      BY <2>4 DEF OnData, OversizedControl, OnPing
    <3>2. pc' \in {"ret", "payload"} \/ (pc' = "echo_recv" /\ fhdr'.type = "Ping")
      BY <2>4 DEF OnData, OversizedControl, OnPing, Return
    <3>3. Echoing' = 0
      BY <3>2 DEF Echoing
    <3> QED BY <1>1, <2>2, <2>3, <3>1, <3>3 DEF Balance, KeepFlags
  <2>5. CASE OnClose(f)
    <3>1. f.type = "Close"
      BY <2>5 DEF OnClose
    <3>2. CASE is_wait_for_close_response
      <4>1. pc' = "ret" /\ ~is_wait_for_pong' /\ ~is_wait_for_close_response'
        BY <2>5, <3>2, Zenon DEF OnClose, ClosedByPeer, Return
      <4>2. Echoing' = 0
        BY <4>1 DEF Echoing
      <4> QED BY <1>1, <2>2, <2>3, <3>1, <3>2, <4>1, <4>2 DEF Balance
    <3>3. CASE ~is_wait_for_close_response
      <4>1. KeepFlags
        BY <2>5, <3>3 DEF OnClose
      <4>2. Echoing' \in {0, 1}
        BY DEF Echoing
      <4> QED BY <1>1, <2>2, <2>3, <3>1, <4>1, <4>2 DEF Balance, KeepFlags
    <3> QED BY <3>2, <3>3
  <2>6. CASE OnPong(f)
    <3>1. f.type = "Pong" /\ pc' \in {"hdr", "ret"} /\ UNCHANGED is_wait_for_close_response
      BY <2>6 DEF OnPong, Return
    <3>2. ~is_wait_for_pong'
      BY <2>6, Zenon DEF OnPong
    <3>3. Echoing' = 0
      BY <3>1 DEF Echoing
    <3> QED BY <1>1, <2>2, <2>3, <3>1, <3>2, <3>3 DEF Balance
  <2> QED BY <2>1, <2>4, <2>5, <2>6
<1>4. CASE SendBackRecv
  <2>1. UNCHANGED <<outbox, rcvd, fhdr>> /\ KeepFlags /\ pc = "echo_recv"
    BY <1>4 DEF SendBackRecv, Consume
  <2> QED BY <1>2, <2>1
<1>5. CASE SendBackSend
  <2>1. pc = "echo_send" /\ fhdr \in Frame /\ fhdr.type \in {"Ping", "Close"}
    BY <1>5 DEF SendBackSend, FShape
  <2>2. SendBackReply(fhdr) \in OutFrame
    BY <2>1 DEF SendBackReply, OutFrame, FrameTypes, Frame
  <2>3. SendBackReply(fhdr).type = IF fhdr.type = "Ping" THEN "Pong" ELSE "Close"
    BY DEF SendBackReply
  <2>4. /\ CountOut("Close")' = CountOut("Close") + Pending(SendBackReply(fhdr).type = "Close")
        /\ CountOut("Ping")' = CountOut("Ping") + Pending(SendBackReply(fhdr).type = "Ping")
        /\ CountIn("Pong")' = CountIn("Pong") /\ CountIn("Close")' = CountIn("Close")
    BY <1>5, <2>2, CountSteps DEF SendBackSend, Send, CountIn
  <2>5. pc' \in {"hdr", "ret"}
    BY <1>5 DEF SendBackSend, ClosedByPeer, Return
  <2>6. Echoing' = 0
    BY <2>5 DEF Echoing
  <2>7. CASE fhdr.type = "Ping"
    <3>1. KeepFlags /\ Echoing = 0
      BY <1>5, <2>7 DEF SendBackSend, Echoing
    <3> QED BY <1>1, <2>3, <2>4, <2>6, <2>7, <3>1 DEF Balance, KeepFlags
  <2>8. CASE fhdr.type = "Close"
    <3>1. ~is_wait_for_pong' /\ UNCHANGED is_wait_for_close_response
      BY <1>5, <2>8, Zenon DEF SendBackSend, ClosedByPeer
    <3>2. Echoing = 1
      BY <2>1, <2>8 DEF Echoing
    <3> QED BY <1>1, <2>3, <2>4, <2>6, <2>8, <3>1, <3>2 DEF Balance
  <2> QED BY <2>1, <2>7, <2>8
<1>6. CASE PayloadRead \/ PayloadEof \/ PayloadNothing \/ PayloadNextFragment
  <2>1. UNCHANGED <<outbox, rcvd>> /\ KeepFlags /\ pc' \in {"ret", "hdr"}
    BY <1>6 DEF PayloadRead, PayloadEof, PayloadNothing, PayloadNextFragment, ReturnCount,
                Consume, tvars
  <2> QED BY <1>2, <2>1
<1>7. CASE HeaderEof \/ SendBackRecvFails \/ SocketFails
  <2>1. UNCHANGED <<outbox, rcvd>> /\ KeepFlags /\ pc' = "ret"
    BY <1>7 DEF HeaderEof, SendBackRecvFails, SocketFails, Return, Interrupt, HeaderCut,
                PayloadCut, SendCut, tvars
  <2> QED BY <1>2, <2>1
<1>8. CASE SendFrame
  <2>1. Echoing' = 0 /\ Echoing = 0 /\ pc = "send"
    BY <1>8 DEF SendFrame, Return, Echoing
  <2>2. /\ [type |-> "Ping", len |-> 0] \in OutFrame
        /\ [type |-> "Close", len |-> 2] \in OutFrame
    BY DEF OutFrame, FrameTypes
  <2>3. UNCHANGED rcvd
    BY <1>8 DEF SendFrame, Send
  <2>4. CountIn("Pong")' = CountIn("Pong") /\ CountIn("Close")' = CountIn("Close")
    BY <2>3 DEF CountIn
  <2>5. CASE fcall = "send_ping"
    <3>1. is_wait_for_pong' /\ UNCHANGED is_wait_for_close_response
      BY <1>8, <2>5, Zenon DEF SendFrame
    <3>2. Send([type |-> "Ping", len |-> 0])
      BY <1>8, <2>5 DEF SendFrame
    <3>3. CountOut("Ping")' = CountOut("Ping") + 1 /\ CountOut("Close")' = CountOut("Close")
      BY <1>1, <2>2, <3>2, CountSteps
    <3>4. ~is_wait_for_pong
      BY <2>1, <2>5 DEF SendsFresh
    <3> QED BY <1>1, <2>1, <2>4, <3>1, <3>3, <3>4 DEF Balance
  <2>6. CASE fcall = "send_close"
    <3>1. is_wait_for_close_response' /\ UNCHANGED is_wait_for_pong
      BY <1>8, <2>6, Zenon DEF SendFrame
    <3>2. Send([type |-> "Close", len |-> 2])
      BY <1>8, <2>6 DEF SendFrame
    <3>3. CountOut("Close")' = CountOut("Close") + 1 /\ CountOut("Ping")' = CountOut("Ping")
      BY <1>1, <2>2, <3>2, CountSteps
    <3>4. ~is_wait_for_close_response
      BY <2>1, <2>6 DEF SendsFresh
    <3> QED BY <1>1, <2>1, <2>4, <3>1, <3>3, <3>4 DEF Balance
  <2> QED BY <2>1, <2>5, <2>6 DEF FShape
<1> QED BY <1>3, <1>4, <1>5, <1>6, <1>7, <1>8 DEF FStep

-----------------------------------------------------------------------------
(* The theorems. *)

FInv == FControllerTypeOK /\ FShape /\ SendsFresh /\ Balance

\* What the caller does keeps the types and what a suspended call holds.
LEMMA CallerTypes ==
  ASSUME FControllerTypeOK, FShape, Call \/ CallDone
  PROVE  FControllerTypeOK' /\ FShape'
<1> USE DEF FControllerTypeOK
<1>1. TTypeOK'
  BY TransportTypes DEF TransportStep, Call, CallDone
<1>2. CASE Call
  <2>1. /\ pc' \in FPcs /\ fcall' \in FCalls /\ fret' \in {"Ok", None} /\ buflen' \in Nat
    BY <1>2, CallerAssumption
    DEF Call, CallWaitData, CallProcess, CallPayload, CallSendPing, CallSendClose, Enter,
        EnterSend, SendPingEntry, SendCloseEntry, FPcs, FCalls, FTypeOK
  <2>2. UNCHANGED <<is_wait_for_pong, is_wait_for_close_response, reader, fhdr, nread, errored>>
    BY <1>2 DEF Call
  <2>3. FTypeOK'
    BY <2>1, <2>2 DEF FTypeOK
  <2>4. FShape'
    BY <1>2
    DEF Call, CallWaitData, CallProcess, CallPayload, CallSendPing, CallSendClose, Enter,
        EnterSend, SendPingEntry, SendCloseEntry, FShape, FTypeOK
  <2> QED BY <1>1, <2>1, <2>3, <2>4
<1>3. CASE CallDone
  <2>1. errored' \in BOOLEAN
    BY <1>3, Zenon DEF CallDone
  <2>2. FTypeOK' /\ pc' = "idle"
    BY <1>3, <2>1 DEF CallDone, Forget, FTypeOK
  <2> QED BY <1>1, <2>2 DEF FShape
<1> QED BY <1>2, <1>3

\* FInv holds initially and every step keeps it.
LEMMA FInductive ==
  /\ FCInit => FInv
  /\ FInv /\ [FNext]_fcvars => FInv'
<1>1. ASSUME FCInit
      PROVE  FInv
  <2>1. lost \in BOOLEAN /\ eof \in BOOLEAN
    BY <1>1, Zenon DEF FCInit, TInit
  <2>2. TTypeOK
    BY <1>1, <2>1 DEF FCInit, TInit, TTypeOK
  <2>3. FTypeOK /\ pc = "idle"
    BY <1>1 DEF FCInit, FInit, FTypeOK
  <2>4. \A t : CountOut(t) = 0 /\ CountIn(t) = 0
    <3>1. \A t : {i \in DOMAIN outbox : outbox[i].type = t} = {}
      BY <1>1 DEF FCInit, TInit
    <3>2. \A t : {i \in DOMAIN rcvd : rcvd[i].type = t} = {}
      BY <1>1 DEF FCInit, TInit
    <3> QED BY <3>1, <3>2, FS_EmptySet DEF CountOut, CountIn, Count
  <2>5. ~is_wait_for_pong /\ ~is_wait_for_close_response
    BY <1>1, Zenon DEF FCInit, FInit
  <2>6. Balance
    BY <2>3, <2>4, <2>5 DEF Balance, Echoing, Pending
  <2> QED BY <2>2, <2>3, <2>6 DEF FInv, FControllerTypeOK, FShape, SendsFresh
<1>2. ASSUME FInv, [FNext]_fcvars
      PROVE  FInv'
  <2> USE DEF FInv, FControllerTypeOK
  <2>1. CASE FStep
    <3>1. TTypeOK' /\ FTypeOK' /\ pc' \in FPcs /\ FShape' /\ Balance'
      BY <1>2, <2>1, FStepTypes, FStepShape, FStepBalance
    <3>2. pc' # "send"
      BY <2>1
      DEF FStep, ReceiveHeader, OnData, OnClose, OnPing, OnPong, OversizedControl,
          ClosedByPeer, HeaderEof, SendBackRecv, SendBackRecvFails, SendBackSend,
          PayloadRead, PayloadEof, PayloadNothing, PayloadNextFragment, SendFrame,
          SocketFails, Return, ReturnCount
    <3> QED BY <3>1, <3>2 DEF SendsFresh
  <2>2. ASSUME UNCHANGED <<outbox, rcvd, is_wait_for_pong, is_wait_for_close_response>>,
               Echoing' <= Echoing, Echoing' \in {0, 1}, Echoing \in {0, 1}
        PROVE  Balance'
    <3>1. \A t : CountOut(t) \in Nat /\ CountIn(t) \in Nat
      BY <1>2, CountSteps
    <3>2. \A t : CountOut(t)' = CountOut(t) /\ CountIn(t)' = CountIn(t)
      BY <2>2 DEF CountOut, CountIn
    <3> QED BY <1>2, <2>2, <3>1, <3>2 DEF Balance, Pending
  <2>3. Echoing \in {0, 1} /\ Echoing' \in {0, 1}
    BY DEF Echoing, Pending
  <2>4. CASE Call
    <3>1. UNCHANGED <<is_wait_for_pong, is_wait_for_close_response, outbox, rcvd>>
      BY <2>4 DEF Call, tvars
    <3>2. pc' \notin {"echo_recv", "echo_send"}
      BY <2>4
      DEF Call, CallWaitData, CallProcess, CallPayload, CallSendPing, CallSendClose, Enter,
          EnterSend, SendPingEntry, SendCloseEntry
    <3>3. Echoing' <= Echoing
      BY <3>2 DEF Echoing, Pending
    <3>4. SendsFresh'
      BY <2>4, <3>1
      DEF Call, CallWaitData, CallProcess, CallPayload, CallSendPing, CallSendClose, Enter,
          EnterSend, SendPingEntry, SendCloseEntry, SendsFresh
    <3> QED BY <1>2, <2>2, <2>3, <2>4, <3>1, <3>3, <3>4, CallerTypes
  <2>5. CASE CallDone
    <3>1. /\ UNCHANGED <<is_wait_for_pong, is_wait_for_close_response, outbox, rcvd>>
          /\ pc' = "idle"
      BY <2>5 DEF CallDone, tvars
    <3>2. Echoing' <= Echoing /\ SendsFresh'
      BY <3>1 DEF Echoing, Pending, SendsFresh
    <3> QED BY <1>2, <2>2, <2>3, <2>5, <3>1, <3>2, CallerTypes
  <2>6. CASE PeerSends \/ PeerEnds \/ UNCHANGED fcvars
    <3>1. UNCHANGED fvars /\ TTypeOK'
      BY <1>2, <2>6, TransportTypes, TransportAssumption
      DEF TransportStep, PeerSends, PeerEnds, fcvars
    <3>2. UNCHANGED <<outbox, rcvd>>
      BY <2>6 DEF PeerSends, PeerEnds, Transmit, EndOfStream, fcvars, tvars
    <3>3. FTypeOK' /\ pc' = pc /\ FShape' /\ SendsFresh' /\ Echoing' = Echoing
      BY <1>2, <3>1 DEF fvars, FTypeOK, FShape, SendsFresh, Echoing
    <3>4. UNCHANGED <<is_wait_for_pong, is_wait_for_close_response>>
      BY <3>1 DEF fvars
    <3> QED BY <1>2, <2>2, <2>3, <3>1, <3>2, <3>3, <3>4
  <2> QED BY <1>2, <2>1, <2>4, <2>5, <2>6 DEF FNext
<1> QED BY <1>1, <1>2

\* frame_controller.rs never leaves its types, whatever the peer sends.
THEOREM ControllerTypes == FSpec => []FControllerTypeOK
<1>1. FInv => FControllerTypeOK
  BY DEF FInv
<1> QED BY <1>1, FInductive, PTL DEF FSpec

\* send_ping never sends a second Ping before the first one is answered: the
\* flag is cleared only by a Pong received or by a Close received and answered.
THEOREM PingsAreAnswered == FSpec => []OnePingOutstanding
<1>1. FInv => OnePingOutstanding
  <2> SUFFICES ASSUME FInv
               PROVE  OnePingOutstanding
    OBVIOUS
  <2>1. \A t : CountOut(t) \in Nat /\ CountIn(t) \in Nat
    BY CountSteps DEF FInv, FControllerTypeOK
  <2>2. Echoing \in {0, 1}
    BY DEF Echoing, Pending
  <2> QED BY <2>1, <2>2 DEF FInv, Balance, OnePingOutstanding, Pending
<1> QED BY <1>1, FInductive, PTL DEF FSpec

\* Every Close sent answers one Close received or is the one awaiting its answer,
\* also when the Closes of both sides cross.
THEOREM ClosesAreBalanced == FSpec => []ClosesBalance
<1>1. FInv => ClosesBalance
  <2> SUFFICES ASSUME FInv
               PROVE  ClosesBalance
    OBVIOUS
  <2>1. \A t : CountOut(t) \in Nat /\ CountIn(t) \in Nat
    BY CountSteps DEF FInv, FControllerTypeOK
  <2>2. Echoing \in {0, 1}
    BY DEF Echoing, Pending
  <2> QED BY <2>1, <2>2 DEF FInv, Balance, ClosesBalance, Pending
<1> QED BY <1>1, FInductive, PTL DEF FSpec

\* The peers for which the position is kept: their frames are shorter than usize
\* can count (always so where usize has 64 bits) and their Pongs, which answer an
\* empty Ping, are empty.
CountablePeer ==
  \A f \in PeerFrames : f.len < UsizeMod /\ (f.type = "Pong" => f.len = 0)

\* As long as no call has failed every header is read where a frame begins,
\* across fragments, control frames between them and buffers of any size.
THEOREM PositionKept ==
  ASSUME CountablePeer
  PROVE  FSpec => []FramingKept
<1> USE DEF FControllerTypeOK
<1>1. FCInit => FramingInv
  BY DEF FCInit, TInit, FInit, FramingInv, InboxWhole, PongsEmpty, Aligned, Due
<1>2. ASSUME FInv, FramingInv, [FNext]_fcvars
      PROVE  FramingInv'
  <2>0. FControllerTypeOK /\ FShape
    BY <1>2 DEF FInv
  <2>1. FInv'
    BY <1>2, FInductive
  <2>2. TransportStep
    BY <1>2, <2>0, FStepTransport, TransportAssumption
    DEF FNext, TransportStep, Call, CallDone, PeerSends, PeerEnds, fcvars
  <2>3. ASSUME NEW f \in Frame, Transmit(f)
        PROVE  f \in PeerFrames
    <3>1. inbox' = Append(inbox, f) /\ inbox \in Seq(Frame) /\ ~eof
      BY <2>0, <2>3 DEF Transmit, TTypeOK
    <3>2. CASE \E g \in PeerFrames : Transmit(g)
      <4>1. PICK g \in PeerFrames : inbox' = Append(inbox, g)
        BY <3>2 DEF Transmit
      <4>2. g \in Frame
        BY TransportAssumption
      <4>3. Append(inbox, f)[Len(inbox) + 1] = f /\ Append(inbox, g)[Len(inbox) + 1] = g
        BY <3>1, <4>2
      <4> QED BY <3>1, <4>1, <4>3
    <3>3. CASE FStep
      BY <2>0, <3>1, <3>3, FStepShrinks
    <3>4. CASE PeerEnds
      BY <2>3, <3>4 DEF PeerEnds, EndOfStream, Transmit
    <3>5. CASE Call \/ CallDone \/ UNCHANGED fcvars
      BY <3>1, <3>5 DEF Call, CallDone, fcvars, tvars
    <3> QED BY <1>2, <3>2, <3>3, <3>4, <3>5 DEF FNext, PeerSends
  <2>4. \A f \in Frame : Transmit(f) =>
           f.len < UsizeMod /\ f.avail = f.len /\ (f.type = "Pong" => f.len = 0)
    BY <2>3, TransportAssumption DEF CountablePeer
  <2>5. InboxWhole' /\ PongsEmpty'
    BY <1>2, <2>0, <2>1, <2>2, <2>4, InboxStaysWhole, PongsStayEmpty DEF FramingInv, FInv
  <2>6. errored => errored'
    BY <1>2, Zenon DEF FNext, FStep, Call, CallDone, PeerSends, PeerEnds, fvars, fcvars
  <2>7. CASE errored
    BY <2>5, <2>6, <2>7 DEF FramingInv
  <2>8. CASE FStep /\ ~errored
    <3>1. ~Failing
      BY <2>8
      DEF FStep, ReceiveHeader, HeaderEof, SendBackRecv, SendBackRecvFails, SendBackSend,
          PayloadRead, PayloadEof, PayloadNothing, PayloadNextFragment, SendFrame,
          SocketFails, Interrupt, Failing
    <3> QED BY <1>2, <2>0, <2>5, <2>8, <3>1, FStepAligned DEF FramingInv
  <2>9. CASE Call /\ ~errored
    <3>1. Aligned /\ pc = "idle" /\ UNCHANGED <<reader, tvars>>
      BY <1>2, <2>9 DEF Call, FramingInv, Failing
    <3>2. CASE CallWaitData \/ CallProcess
      BY <2>0, <2>5, <3>1, <3>2
      DEF CallWaitData, CallProcess, Enter, FramingInv, Aligned, Due, tvars
    <3>3. CASE CallPayload \/ CallSendPing \/ CallSendClose
      <4>1. pc' \in {"payload", "send", "ret"} /\ fcall' # "process"
        BY <3>3 DEF CallPayload, CallSendPing, CallSendClose, Enter, EnterSend,
                    SendPingEntry, SendCloseEntry
      <4> QED BY <2>5, <3>1, <4>1 DEF FramingInv, Aligned, Due, tvars
    <3> QED BY <2>9, <3>2, <3>3 DEF Call
  <2>10. CASE CallDone /\ ~errored
    <3>1. CASE fret # "Ok" \/ fcall = "process"
      <4>1. errored'
        BY <2>10, <3>1, Zenon DEF CallDone
      <4> QED BY <2>5, <4>1 DEF FramingInv
    <3>2. CASE fret = "Ok" /\ fcall # "process"
      <4>1. Aligned /\ pc = "ret" /\ pc' = "idle" /\ UNCHANGED tvars
        BY <1>2, <2>10, <3>2 DEF FramingInv, Failing, CallDone
      <4>2. /\ rest <= Due /\ (rest < Due => eof /\ inbox = <<>>)
            /\ Due = IF reader = None THEN 0 ELSE reader.payload_len
        BY <3>2, <4>1 DEF Aligned, Due
      <4>3. CASE fcall = "payload" /\ IsFinished(reader)
        <5>1. reader' = None /\ reader \in Reader /\ reader.payload_len = 0
          BY <2>0, <2>10, <3>2, <4>1, <4>3 DEF CallDone, IsFinished, FShape
        <5>2. Due = 0 /\ Due' = 0
          BY <4>1, <4>2, <5>1, NoneAssumption DEF Due
        <5> QED BY <2>5, <4>1, <4>2, <5>2 DEF FramingInv, Aligned, tvars
      <4>4. CASE ~(fcall = "payload" /\ IsFinished(reader))
        <5>1. reader' = reader
          BY <2>10, <4>4 DEF CallDone
        <5>2. Due' = Due
          BY <4>1, <4>2, <5>1 DEF Due
        <5> QED BY <2>5, <4>1, <4>2, <5>2 DEF FramingInv, Aligned, tvars
      <4> QED BY <4>3, <4>4
    <3> QED BY <3>1, <3>2
  <2>11. CASE (PeerSends \/ PeerEnds) /\ ~errored
    <3>1. UNCHANGED fvars /\ ((\E f \in Frame : Transmit(f)) \/ EndOfStream)
      BY <2>11, TransportAssumption DEF PeerSends, PeerEnds
    <3>2. Failing => Failing'
      BY <3>1 DEF fvars, Failing
    <3> QED BY <1>2, <2>0, <2>5, <2>11, <3>1, <3>2, PeerAligned DEF FramingInv
  <2>12. CASE UNCHANGED fcvars
    BY <1>2, <2>5, <2>12 DEF fcvars, fvars, tvars, FramingInv, Failing, Aligned, Due
  <2> QED BY <1>2, <2>7, <2>8, <2>9, <2>10, <2>11, <2>12 DEF FNext
<1>3. FramingInv => FramingKept
  BY DEF FramingInv, FramingKept, Aligned, Failing
<1> QED BY <1>1, <1>2, <1>3, FInductive, PTL DEF FSpec
=============================================================================
