------------------------------ MODULE Transport ------------------------------
(***************************************************************************)
(* What lies under the WebSocket code: the connected socket `S` and the     *)
(* framing functions of the crate edge_ws (FrameHeader::recv, recv_payload, *)
(* send, send_payload).  Neither is part of this repository; both are       *)
(* modelled from how web_socket/frame_controller.rs and web_socket/mod.rs   *)
(* use them.                                                                *)
(*                                                                          *)
(* The inbound byte stream is cut into frames.  A frame is its header and   *)
(* a number of payload bytes; only the counts of bytes matter.  The reader  *)
(* is at a frame boundary, or `rest` payload bytes of the frame whose header*)
(* was read last are still unread.  When a header is parsed out of payload  *)
(* bytes, or payload is taken from header bytes, framing is lost: from then *)
(* on any header may be read.                                               *)
(***************************************************************************)
EXTENDS Integers, Sequences

CONSTANTS
  None,               \* absent value (Option::None)
  UsizeMod,           \* 2^w for the target's usize
  MaxControlPayload,  \* MAX_CONTROL_FRAME_PAYLOAD_LEN
  PeerFrames,         \* the frames an arbitrary peer (or garbage) may present
  MaxFrames,          \* bound: headers received in a behaviour
  MaxInFlight,        \* bound: frames sent by the peer and not yet received
  Faults              \* may socket operations fail while the socket is open?

FrameTypes == {"Text", "Binary", "Continue", "Ping", "Pong", "Close", "Bad"}

\* avail < len only for a frame cut short by the end of the stream.  The type
\* "Bad" stands for a header that edge_ws rejects (a reserved opcode).
Frame == [type : FrameTypes, fin : BOOLEAN, len : Nat, avail : Nat]

OutFrame == [type : FrameTypes, len : Nat]

ASSUME TransportAssumption ==
  /\ UsizeMod \in Nat \ {0}
  /\ MaxControlPayload \in Nat
  /\ MaxFrames \in Nat
  /\ MaxInFlight \in Nat
  /\ Faults \in BOOLEAN
  /\ PeerFrames \subseteq Frame
  /\ \A f \in PeerFrames : f.avail = f.len

VARIABLES
  inbox,     \* frames the peer has sent and the server has not begun to read
  rest,      \* unread payload bytes of the frame being read
  lost,      \* framing of the inbound stream is lost
  eof,       \* the peer will send nothing more
  rcvd,      \* history: the headers read so far
  outbox,    \* history: the complete frames written so far
  outstate,  \* "clean"; "partial": ends inside a frame; "torn": more followed
  inner      \* the socket: "open", "closed" (shut down) or "aborted"

tvars == <<inbox, rest, lost, eof, rcvd, outbox, outstate, inner>>

TTypeOK ==
  /\ inbox \in Seq(Frame)
  /\ rest \in Nat
  /\ lost \in BOOLEAN
  /\ eof \in BOOLEAN
  /\ rcvd \in Seq(Frame)
  /\ outbox \in Seq(OutFrame)
  /\ outstate \in {"clean", "partial", "torn"}
  /\ inner \in {"open", "closed", "aborted"}

TInit ==
  /\ inbox = <<>>
  /\ rest = 0
  /\ lost = FALSE
  /\ eof = FALSE
  /\ rcvd = <<>>
  /\ outbox = <<>>
  /\ outstate = "clean"
  /\ inner = "open"

-----------------------------------------------------------------------------
(* The peer's end of the inbound stream. *)

\* The peer puts one more frame on the wire.
Transmit(f) ==
  /\ ~eof /\ ~lost
  /\ Len(inbox) < MaxInFlight
  /\ Len(rcvd) + Len(inbox) < MaxFrames
  /\ inbox' = Append(inbox, f)
  /\ UNCHANGED <<rest, lost, eof, rcvd, outbox, outstate, inner>>

\* The stream ends, perhaps in the middle of the last frame.
EndOfStream ==
  /\ ~eof
  /\ eof' = TRUE
  /\ \/ UNCHANGED <<inbox, rest>>
     \/ /\ inbox # <<>>
        /\ \E k \in 0 .. inbox[Len(inbox)].avail - 1 :
              inbox' = [inbox EXCEPT ![Len(inbox)].avail = k]
        /\ UNCHANGED rest
     \/ /\ inbox = <<>> /\ ~lost
        /\ \E k \in 0 .. rest - 1 : rest' = k
        /\ UNCHANGED inbox
  /\ UNCHANGED <<lost, rcvd, outbox, outstate, inner>>

-----------------------------------------------------------------------------
(* Reading. *)

Garbled == lost \/ rest > 0

\* The headers that a read at the current position may yield.
NextHeaders ==
  IF Garbled THEN IF Len(rcvd) < MaxFrames THEN PeerFrames ELSE {}
  ELSE IF inbox = <<>> THEN {} ELSE {Head(inbox)}

\* edge_ws FrameHeader::recv consumes the header f.
RecvHeader(f) ==
  /\ inner = "open"
  /\ f \in NextHeaders
  /\ lost' = Garbled
  /\ rest' = IF Garbled THEN 0 ELSE f.avail
  /\ inbox' = IF Garbled THEN <<>> ELSE Tail(inbox)
  /\ rcvd' = Append(rcvd, f)
  /\ UNCHANGED <<eof, outbox, outstate, inner>>

\* FrameHeader::recv finds the end of the stream instead of a whole header.
AtEof ==
  /\ inner = "open" /\ eof
  /\ lost \/ inbox = <<>>

\* Up to n bytes are read by one socket.read, or all of n by recv_payload:
\* k bytes are consumed.
Consume(k) ==
  /\ inner = "open"
  /\ lost \/ k <= rest \/ inbox # <<>>
  /\ lost' = (lost \/ k > rest)
  /\ rest' = IF lost \/ k > rest THEN 0 ELSE rest - k
  /\ inbox' = IF k > rest THEN <<>> ELSE inbox
  /\ UNCHANGED <<eof, rcvd, outbox, outstate, inner>>

\* A header read gives up after some bytes of a header, or after none.
HeaderCut ==
  /\ \/ UNCHANGED <<inbox, lost, rest>>
     \/ /\ inner = "open"
        /\ Garbled \/ inbox # <<>>
        /\ lost' = TRUE /\ rest' = 0 /\ inbox' = <<>>
  /\ UNCHANGED <<eof, rcvd, outbox, outstate, inner>>

\* recv_payload gives up after some of the payload, or after none.
PayloadCut ==
  /\ \E k \in 0 .. rest : rest' = IF inner = "open" THEN k ELSE rest
  /\ UNCHANGED <<inbox, lost, eof, rcvd, outbox, outstate, inner>>

-----------------------------------------------------------------------------
(* Writing: FrameHeader::send followed by send_payload, both write_all. *)

Send(f) ==
  /\ inner = "open"
  /\ outbox' = Append(outbox, f)
  /\ outstate' = IF outstate = "clean" THEN "clean" ELSE "torn"
  /\ UNCHANGED <<inbox, rest, lost, eof, rcvd, inner>>

\* A write gives up after some bytes of the frame, or after none.
SendCut ==
  /\ \/ UNCHANGED outstate
     \/ /\ inner = "open"
        /\ outstate' = IF outstate = "clean" THEN "partial" ELSE "torn"
  /\ UNCHANGED <<inbox, rest, lost, eof, rcvd, outbox, inner>>

\* When a socket operation may fail.
MayFail == Faults \/ inner # "open"

\* SocketShutdown::close(Both) and abort of the inner socket.
Shut(how) ==
  /\ inner' = IF inner = "open" THEN how ELSE inner
  /\ UNCHANGED <<inbox, rest, lost, eof, rcvd, outbox, outstate>>
=============================================================================
