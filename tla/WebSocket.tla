------------------------------ MODULE WebSocket ------------------------------
(***************************************************************************)
(* web_socket/mod.rs: the WebSocket<S> a request handler holds.  An         *)
(* application makes one call at a time (every method takes &mut self), in  *)
(* any order, with any buffer, and may drop the future of a call at any     *)
(* await.  The peer is arbitrary here; WsConnection composes this module    *)
(* with a client that follows the protocol.                                 *)
(***************************************************************************)
EXTENDS FrameController

CONSTANT Cancels      \* may the application drop a pending call?

ASSUME CancelsAssumption == Cancels \in BOOLEAN

VARIABLES
  send_frame_type,
  socket_state,
  op,        \* the method in progress, or None
  ret,       \* its result: the last one while idle
  closing    \* history: close_handshake() or close() has been called

wvars == <<send_frame_type, socket_state, op, ret, closing>>

vars == <<tvars, fvars, wvars>>

SocketStates == {"Ready", "WsClosed", "Closed"}

MessageTypes == {"Text", "Binary"}

Ops == {"wait_message", "read", "write", "flush", "close_handshake", "close", "abort"}

ASSUME OpsAssumption == None \notin Ops

Results == {"Ok", "ConnectionReset", "InvalidFrame", "Socket"}

WPcs == FPcs \cup {"idle", "write", "flush", "inner_close", "inner_abort"}

Init ==
  /\ TInit /\ FInit
  /\ send_frame_type = "Binary"
  /\ socket_state = "Ready"
  /\ op = None
  /\ ret = None
  /\ closing = FALSE

-----------------------------------------------------------------------------
(* How a method begins and ends. *)

\* Mutant: the frame error is handed to the application as it is.
ToWsErrorUnmapped(e) == e

\* From<FrameReadError> for WebSocketError
ToWsError(e) ==
  CASE e = "ClosedByPeer" -> "ConnectionReset"
    [] e = "Socket" -> "Socket"
    [] OTHER -> "InvalidFrame"

Begin(o) ==
  /\ pc = "idle"
  /\ op' = o
  /\ ret' = None
  /\ UNCHANGED <<is_wait_for_pong, is_wait_for_close_response, reader, fhdr, nread,
                 errored, send_frame_type, socket_state, tvars>>

\* A method that returns r at once and changes nothing.
Reply(r) ==
  /\ pc = "idle"
  /\ ret' = r
  /\ UNCHANGED <<tvars, fvars, send_frame_type, socket_state, op, closing>>

Finish(r) ==
  /\ pc' = "idle"
  /\ op' = None
  /\ ret' = r
  /\ errored' = (errored \/ r # "Ok")
  /\ Forget
  /\ UNCHANGED <<is_wait_for_pong, is_wait_for_close_response, fhdr, send_frame_type,
                 closing>>

Ready == socket_state = "Ready"

-----------------------------------------------------------------------------
(* wait_message and read. *)

WaitMessageCall ==
  \/ ~Ready /\ Reply("ConnectionReset")
  \/ Ready /\ reader # None /\ Reply("Ok")
  \/ /\ Ready /\ reader = None
     /\ Begin("wait_message") /\ Enter("wait_data", "hdr")
     /\ UNCHANGED <<buflen, closing>>

ReadCall(b) ==
  \/ ~Ready /\ Reply("ConnectionReset")
  \/ /\ Ready
     /\ Begin("read") /\ buflen' = b
     /\ IF reader = None THEN Enter("wait_data", "hdr") ELSE Enter("payload", "payload")
     /\ UNCHANGED closing

\* Mutant: every failure of wait_data_frame is taken for a Close.
StateAfterAnyError(e) == IF e # "Ok" THEN "WsClosed" ELSE socket_state

\* A Close met by wait_data_frame is remembered in socket_state.
StateAfterWait(e) == IF e = "ClosedByPeer" THEN "WsClosed" ELSE socket_state

\* wait_data_frame failed, or it served wait_message.
WaitReturns ==
  /\ pc = "ret" /\ fcall = "wait_data"
  /\ op = "wait_message" \/ fret # "Ok"
  /\ socket_state' = StateAfterWait(fret)
  /\ Finish(IF fret = "Ok" THEN "Ok" ELSE ToWsError(fret))
  /\ UNCHANGED <<reader, tvars>>

\* read goes on with the payload of the frame it waited for.
ReadGoesOn ==
  /\ pc = "ret" /\ op = "read" /\ fcall = "wait_data" /\ fret = "Ok"
  /\ Enter("payload", "payload")
  /\ UNCHANGED <<is_wait_for_pong, is_wait_for_close_response, reader, fhdr, nread,
                 buflen, errored, wvars, tvars>>

\* receive_frame_payload returned; a Close it met is not remembered.
ReadReturns ==
  /\ pc = "ret" /\ fcall = "payload"
  /\ reader' = IF fret = "Ok" /\ IsFinished(reader) THEN None ELSE reader
  /\ Finish(IF fret = "Ok" THEN "Ok" ELSE ToWsError(fret))
  /\ UNCHANGED <<socket_state, tvars>>

-----------------------------------------------------------------------------
(* write, flush and the readiness probes. *)

WriteCall(b) ==
  \/ ~Ready /\ Reply("ConnectionReset")
  \/ /\ Ready /\ Len(outbox) < MaxOut
     /\ Begin("write") /\ Enter(None, "write") /\ buflen' = b
     /\ UNCHANGED closing

WriteSends ==
  /\ pc = "write"
  /\ Send([type |-> send_frame_type, len |-> buflen])
  /\ Finish("Ok")
  /\ UNCHANGED <<reader, socket_state>>

FlushCall ==
  \/ ~Ready /\ Reply("ConnectionReset")
  \/ /\ Ready
     /\ Begin("flush") /\ Enter(None, "flush")
     /\ UNCHANGED <<buflen, closing>>

FlushDone ==
  /\ pc = "flush" /\ op = "flush" /\ inner = "open"
  /\ Finish("Ok")
  /\ UNCHANGED <<reader, socket_state, tvars>>

\* read_ready and write_ready ask the socket without waiting.
ReadyProbe ==
  \/ ~Ready /\ Reply("ConnectionReset")
  \/ Ready /\ inner = "open" /\ Reply("Ok")
  \/ Ready /\ MayFail /\ Reply("Socket")

SetSendFrameType(t) ==
  /\ pc = "idle"
  /\ send_frame_type' = t
  /\ UNCHANGED <<tvars, fvars, socket_state, op, ret, closing>>

-----------------------------------------------------------------------------
(* close_handshake, close and abort. *)

\* close_handshake does not look at socket_state; close does.
HandshakeCall(o) ==
  /\ Len(outbox) < MaxOut
  /\ Begin(o)
  /\ EnterSend("send_close", SendCloseEntry)
  /\ closing' = TRUE
  /\ UNCHANGED buflen

CloseHandshakeCall == HandshakeCall("close_handshake")

CloseCall ==
  \/ socket_state = "Closed" /\ Reply("Ok")
  \/ socket_state # "Closed" /\ HandshakeCall("close")

AbortCall ==
  \/ socket_state = "Closed" /\ Reply("Ok")
  \/ /\ socket_state # "Closed"
     /\ Begin("abort") /\ Enter(None, "inner_abort")
     /\ UNCHANGED <<buflen, closing>>

\* The method goes on at another await.
GoOn(call, at) ==
  /\ Enter(call, at)
  /\ UNCHANGED <<is_wait_for_pong, is_wait_for_close_response, reader, fhdr, nread,
                 buflen, errored, send_frame_type, op, closing>>

HandshakeFlushes ==
  /\ pc = "ret" /\ fcall = "send_close" /\ fret = "Ok"
  /\ GoOn("send_close", "flush")
  /\ UNCHANGED <<ret, socket_state, tvars>>

HandshakeWaits ==
  /\ pc = "flush" /\ op # "flush" /\ inner = "open"
  /\ GoOn("process", "hdr")
  /\ UNCHANGED <<ret, socket_state, tvars>>

\* Mutants: the end of the handshake is not remembered; a data frame is accepted
\* for the Close response.
HandshakeSucceedsForgotten ==
  /\ pc = "ret" /\ fcall = "process" /\ fret = "ClosedByPeer"
  /\ IF op = "close" THEN GoOn(None, "inner_close") /\ UNCHANGED ret
                     ELSE Finish("Ok") /\ UNCHANGED reader
  /\ UNCHANGED <<socket_state, tvars>>

HandshakeSucceedsOnData ==
  /\ pc = "ret" /\ fcall = "process" /\ fret \in {"ClosedByPeer", "Ok"}
  /\ socket_state' = "WsClosed"
  /\ IF op = "close" THEN GoOn(None, "inner_close") /\ UNCHANGED ret
                     ELSE Finish("Ok") /\ UNCHANGED reader
  /\ UNCHANGED tvars

\* The Close response arrived: close() goes on to close the socket.
HandshakeSucceeds ==
  /\ pc = "ret" /\ fcall = "process" /\ fret = "ClosedByPeer"
  /\ socket_state' = "WsClosed"
  /\ IF op = "close" THEN GoOn(None, "inner_close") /\ UNCHANGED ret
                     ELSE Finish("Ok") /\ UNCHANGED reader
  /\ UNCHANGED tvars

\* Mutants: the state is set to Closed before the socket is aborted; the state is
\* set back so that the application may try again.
HandshakeFailureClosesEarly(e) ==
  /\ IF op = "close" THEN GoOn(None, "inner_abort") /\ ret' = e
                     ELSE Finish(e) /\ UNCHANGED reader
  /\ socket_state' = "Closed"

HandshakeFailureResets(e) ==
  /\ IF op = "close" THEN GoOn(None, "inner_abort") /\ ret' = e
                     ELSE Finish(e) /\ UNCHANGED reader
  /\ socket_state' = "Ready"

\* close_handshake ends with the error e; close() then aborts the socket and
\* keeps e for its caller.
HandshakeFailure(e) ==
  /\ IF op = "close" THEN GoOn(None, "inner_abort") /\ ret' = e
                     ELSE Finish(e) /\ UNCHANGED reader
  /\ UNCHANGED socket_state

\* send_close failed, or something else than a Close was received.
HandshakeFails ==
  /\ pc = "ret"
  /\ \/ fcall = "send_close" /\ fret # "Ok"
     \/ fcall = "process" /\ fret # "ClosedByPeer"
  /\ HandshakeFailure(ToWsError(fret))
  /\ UNCHANGED tvars

InnerCloses ==
  /\ pc = "inner_close"
  /\ Shut("closed")
  /\ socket_state' = "Closed"
  /\ Finish("Ok")
  /\ UNCHANGED reader

InnerAborts ==
  /\ pc = "inner_abort"
  /\ Shut("aborted")
  /\ socket_state' = "Closed"
  /\ Finish(IF op = "close" THEN ret ELSE "Ok")
  /\ UNCHANGED reader

-----------------------------------------------------------------------------
(* Failing and abandoned calls. *)

WsInterrupt ==
  \/ pc = "write" /\ SendCut
  \/ pc \in {"flush", "inner_close", "inner_abort"} /\ UNCHANGED tvars

\* Mutant: the error of the socket is dropped.
WsSocketFailsSilently ==
  /\ MayFail
  /\ WsInterrupt
  /\ Finish("Ok") /\ UNCHANGED <<reader, socket_state>>

WsSocketFails ==
  /\ MayFail
  /\ WsInterrupt
  /\ IF pc = "flush" /\ op # "flush"
       THEN HandshakeFailure("Socket")
       ELSE Finish("Socket") /\ UNCHANGED <<reader, socket_state>>

\* Dropping a call leaves no trace when it had read and written nothing and no
\* control frame or handshake was left unfinished.
Harmless ==
  /\ UNCHANGED tvars
  /\ pc \notin {"echo_recv", "echo_send"}
  /\ op \notin {"close_handshake", "close"}

\* The future of the running call is dropped while it waits for the socket.
Cancel ==
  /\ Cancels
  /\ Interrupt \/ WsInterrupt
  /\ pc' = "idle"
  /\ op' = None
  /\ ret' = None
  /\ fhdr' = None
  /\ errored' = (errored \/ ~Harmless)
  /\ Forget
  /\ UNCHANGED <<is_wait_for_pong, is_wait_for_close_response, reader,
                 send_frame_type, socket_state, closing>>

-----------------------------------------------------------------------------

AppCall ==
  \/ WaitMessageCall
  \/ \E b \in BufSizes : ReadCall(b) \/ WriteCall(b)
  \/ FlushCall
  \/ ReadyProbe
  \/ \E t \in MessageTypes : SetSendFrameType(t)
  \/ CloseHandshakeCall
  \/ CloseCall
  \/ AbortCall

WStep ==
  \/ WaitReturns \/ ReadGoesOn \/ ReadReturns
  \/ WriteSends \/ FlushDone
  \/ HandshakeFlushes \/ HandshakeWaits \/ HandshakeSucceeds \/ HandshakeFails
  \/ InnerCloses \/ InnerAborts
  \/ WsSocketFails

ServerStep == WStep \/ (FStep /\ UNCHANGED wvars)

PeerStep == (PeerSends \/ PeerEnds) /\ UNCHANGED wvars

Next == ServerStep \/ AppCall \/ Cancel \/ PeerStep

Spec == Init /\ [][Next]_vars

-----------------------------------------------------------------------------
(* Properties. *)

\* Every variable keeps its type.
TypeOK ==
  /\ TTypeOK /\ FTypeOK
  /\ pc \in WPcs
  /\ send_frame_type \in MessageTypes
  /\ socket_state \in SocketStates
  /\ op \in Ops \cup {None}
  /\ ret \in Results \cup {None}
  /\ closing \in BOOLEAN

CloseSent == \E i \in 1 .. Len(outbox) : outbox[i].type = "Close"

CloseReceived == \E i \in 1 .. Len(rcvd) : rcvd[i].type = "Close"

\* WsClosed means "the close handshake is done": a Close frame went out and a
\* Close frame came in, whichever side began and whatever failed in between.
HandshakeBothWays ==
  socket_state = "WsClosed" => CloseSent /\ CloseReceived

\* The socket is shut down before the WebSocket calls itself Closed.
ClosedIsShut == socket_state = "Closed" => inner # "open"

\* While the application has seen no failure and has not begun to close, a
\* header is only ever parsed where a frame begins: wait_message, read with any
\* buffer, control frames between fragments and dropped calls keep the position.
FramingKeptUnlessClosing ==
  lost => errored \/ closing \/ (pc = "ret" /\ fret # "Ok")

\* Bytes follow an unfinished frame only after the application was told of (or
\* itself caused) the interruption.
TornIsReported == outstate = "torn" => errored

\* The positions of the Pings send_back can answer and of the Pongs sent.
Pings == {i \in DOMAIN rcvd : rcvd[i].type = "Ping" /\ rcvd[i].len <= MaxControlPayload}
Pongs == {j \in DOMAIN outbox : outbox[j].type = "Pong"}

\* The Pings whose turn is over: not the one whose header was read last while
\* send_back is serving it.
Served ==
  IF pc \in {"echo_recv", "echo_send"} /\ fhdr.type = "Ping" THEN Pings \ {Len(rcvd)}
                                                           ELSE Pings

\* answer pairs every served Ping with a Pong of its length, in order, and leaves
\* no Pong over.
Answers(answer) ==
  /\ \A i \in Served : outbox[answer[i]].len = rcvd[i].len
  /\ \A i, k \in Served : i < k => answer[i] < answer[k]
  /\ \A j \in Pongs : \E i \in Served : answer[i] = j

\* Every Ping received is answered by one Pong with its length, in order, as
\* long as no call failed; at most the one being served is unanswered.
PongsEchoPings ==
  LET failing == pc = "inner_abort" \/ (pc = "ret" /\ fret # "Ok")
  IN  ~errored /\ ~failing => \E answer \in [Served -> Pongs] : Answers(answer)

\* A data frame was written behind a Close frame.
DataAfterClose ==
  \E i, j \in 1 .. Len(outbox) :
    i < j /\ outbox[i].type = "Close" /\ outbox[j].type \in MessageTypes

\* No data frame follows a Close frame unless the application saw the handshake
\* fail (or saw the reset) and wrote nevertheless.
SilentAfterClose == DataAfterClose => errored

Rank(s) == CASE s = "Ready" -> 0 [] s = "WsClosed" -> 1 [] s = "Closed" -> 2

\* socket_state only advances, although close_handshake() may be called in any
\* state and does not look at it.
StateOnlyAdvances == [][Rank(socket_state') >= Rank(socket_state)]_vars

\* The comment on SocketState::WsClosed: when the peer's Close has been reported
\* as ConnectionReset the WebSocket is not Ready any more, whichever call met it.
CloseIsRemembered == pc = "idle" /\ ret = "ConnectionReset" => ~Ready
=============================================================================
