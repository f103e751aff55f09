--------------------------- MODULE FrameController ---------------------------
(***************************************************************************)
(* web_socket/frame_controller.rs: FrameController (control frames, the     *)
(* close and ping flags) and FrameReader (the payload of a fragmented       *)
(* message).  Each async function runs one step per await; `pc` says at     *)
(* which await it is suspended and `fcall` which function the caller called.*)
(***************************************************************************)
EXTENDS Transport, FiniteSets

CONSTANTS
  BufSizes,   \* lengths of the buffers passed to reads
  MaxOut      \* bound: calls that send a frame start only below this many frames

ASSUME CallerAssumption == BufSizes \subseteq Nat /\ MaxOut \in Nat

VARIABLES
  is_wait_for_pong,
  is_wait_for_close_response,
  reader,   \* the FrameReader the caller holds, or None
  pc,       \* the await the running operation is suspended at; "idle", "ret"
  fcall,    \* the FrameController / FrameReader function in progress
  fhdr,     \* header of the control frame being echoed by send_back, or None
  fret,     \* result of the function when pc = "ret"
  nread,    \* byte count of an Ok from receive_frame_payload
  buflen,   \* length of the caller's buffer
  errored   \* history: the caller was told of a failure, or gave up a call

fvars == <<is_wait_for_pong, is_wait_for_close_response, reader, pc, fcall,
           fhdr, fret, nread, buflen, errored>>

Reader == [payload_len : Nat, is_final : BOOLEAN,
           frame_type : {"Text", "Binary"}]

ASSUME NoneAssumption == None \notin Reader

FrameReadErrors == {"ClosedByPeer", "InvalidFrame", "InvalidControlFrame", "Socket"}

FPcs == {"hdr", "echo_recv", "echo_send", "payload", "send", "ret"}

FCalls == {"process", "wait_data", "payload", "send_ping", "send_close"}

FTypeOK ==
  /\ is_wait_for_pong \in BOOLEAN
  /\ is_wait_for_close_response \in BOOLEAN
  /\ reader \in Reader \cup {None}
  /\ fcall \in FCalls \cup {None}
  /\ fhdr \in Frame \cup {None}
  /\ fret \in FrameReadErrors \cup {"Ok", None}
  /\ nread \in Nat
  /\ buflen \in Nat
  /\ errored \in BOOLEAN

FInit ==
  /\ is_wait_for_pong = FALSE
  /\ is_wait_for_close_response = FALSE
  /\ reader = None
  /\ pc = "idle"
  /\ fcall = None
  /\ fhdr = None
  /\ fret = None
  /\ nread = 0
  /\ buflen = 0
  /\ errored = FALSE

-----------------------------------------------------------------------------
(* Helpers. *)

\* `payload_len as usize`
LenAsUsize(n) == n % UsizeMod

\* The conversion comes first, so the comparison can never be true.
check_payload_len(f) == ~(LenAsUsize(f.len) > UsizeMod - 1)

check_control_frame_payload_len(f) == ~(LenAsUsize(f.len) > MaxControlPayload)

\* Mutants: only one of the two conditions is tested.
IsFinishedByFin(r) == r.is_final
IsFinishedByLength(r) == r.payload_len = 0

\* FrameReader::is_finished
IsFinished(r) == r.payload_len = 0 /\ r.is_final

\* A function is entered at one of its awaits.
Enter(call, at) ==
  /\ pc' = at
  /\ fcall' = call
  /\ fret' = None

Return(result) ==
  /\ pc' = "ret"
  /\ fret' = result
  /\ fhdr' = None
  /\ nread' = 0

\* Nothing of a finished call is left but its effects.
Forget == fcall' = None /\ fret' = None /\ nread' = 0 /\ buflen' = 0

KeepFlags == UNCHANGED <<is_wait_for_pong, is_wait_for_close_response>>

-----------------------------------------------------------------------------
(* process_control_frames and its callers, on the header f just received. *)

\* wait_data_frame: the first frame of a message.
NewReader(f) ==
  [payload_len |-> LenAsUsize(f.len), is_final |-> f.fin, frame_type |-> f.type]

\* Mutants: one of the two fields is not taken over from the new fragment.
NextFragmentKeepsLen(r, f) == [r EXCEPT !.is_final = f.fin]
NextFragmentKeepsFin(r, f) == [r EXCEPT !.payload_len = LenAsUsize(f.len)]

\* receive_frame_payload: a continuation of the message being read.
NextFragment(r, f) ==
  [r EXCEPT !.payload_len = LenAsUsize(f.len), !.is_final = f.fin]

\* A data frame ends process_control_frames; the caller inspects it.
OnData(f) ==
  /\ f.type \in {"Text", "Binary", "Continue"}
  /\ KeepFlags
  /\ CASE fcall = "wait_data" /\ f.type # "Continue" ->
            reader' = NewReader(f) /\ Return("Ok")
       [] fcall = "payload" /\ f.type = "Continue" ->
            /\ reader' = NextFragment(reader, f)
            /\ pc' = "payload"
            /\ UNCHANGED <<fhdr, fret, nread>>
       [] fcall = "process" -> Return("Ok") /\ UNCHANGED reader
       [] OTHER -> Return("InvalidFrame") /\ UNCHANGED reader

\* Close arm, once the Close is answered or needs no answer.
ClosedByPeer ==
  /\ is_wait_for_pong' = FALSE
  /\ Return("ClosedByPeer")

\* Mutant: the expected Close response is swallowed like an expected Pong.
OnCloseWaitsOn(f) ==
  /\ f.type = "Close" /\ check_control_frame_payload_len(f)
  /\ IF is_wait_for_close_response
       THEN pc' = "hdr" /\ is_wait_for_close_response' = FALSE /\ UNCHANGED fhdr
       ELSE pc' = "echo_recv" /\ fhdr' = f /\ UNCHANGED is_wait_for_close_response
  /\ UNCHANGED <<is_wait_for_pong, fret, nread, reader>>

OnClose(f) ==
  /\ f.type = "Close" /\ check_control_frame_payload_len(f)
  /\ IF is_wait_for_close_response
       THEN ClosedByPeer /\ is_wait_for_close_response' = FALSE
       ELSE pc' = "echo_recv" /\ fhdr' = f /\ KeepFlags /\ UNCHANGED <<fret, nread>>
  /\ UNCHANGED reader

\* Mutant: a Ping is skipped instead of being answered.
OnPingIgnored(f) ==
  /\ f.type = "Ping" /\ check_control_frame_payload_len(f)
  /\ pc' = "hdr"
  /\ KeepFlags
  /\ UNCHANGED <<reader, fhdr, fret, nread>>

OnPing(f) ==
  /\ f.type = "Ping" /\ check_control_frame_payload_len(f)
  /\ pc' = "echo_recv" /\ fhdr' = f
  /\ KeepFlags
  /\ UNCHANGED <<reader, fret, nread>>

OnPong(f) ==
  /\ f.type = "Pong" /\ check_control_frame_payload_len(f)
  /\ is_wait_for_pong' = FALSE
  /\ IF is_wait_for_pong
       THEN pc' = "hdr" /\ UNCHANGED <<fhdr, fret, nread>>
       ELSE Return("InvalidControlFrame")
  /\ UNCHANGED <<is_wait_for_close_response, reader>>

OversizedControl(f) ==
  /\ f.type \in {"Close", "Ping", "Pong"} /\ ~check_control_frame_payload_len(f)
  /\ Return("InvalidControlFrame")
  /\ KeepFlags /\ UNCHANGED reader

\* receive_the_header: edge_ws or check_payload_len refuses the header.
Malformed(f) == f.type = "Bad" \/ ~check_payload_len(f)

ReceiveHeader ==
  /\ pc = "hdr"
  /\ \E f \in NextHeaders :
        /\ RecvHeader(f)
        /\ IF Malformed(f)
             THEN Return("InvalidFrame") /\ KeepFlags /\ UNCHANGED reader
             ELSE OnData(f) \/ OnClose(f) \/ OnPing(f) \/ OnPong(f) \/ OversizedControl(f)
  /\ UNCHANGED <<fcall, buflen>>

\* The stream ends where a header should be: a frame error that is not Io.
HeaderEof ==
  /\ pc = "hdr" /\ AtEof
  /\ Return("InvalidFrame")
  /\ KeepFlags
  /\ UNCHANGED <<reader, fcall, buflen, tvars>>

-----------------------------------------------------------------------------
(* send_back: read the payload of the control frame, write it back. *)

\* recv_payload compares the full length with the 125-byte buffer.
EchoFits == fhdr.len <= MaxControlPayload

SendBackRecv ==
  /\ pc = "echo_recv" /\ EchoFits
  /\ Consume(fhdr.len)
  /\ pc' = "echo_send"
  /\ KeepFlags
  /\ UNCHANGED <<reader, fcall, fhdr, fret, nread, buflen>>

SendBackRecvFails ==
  /\ pc = "echo_recv"
  /\ ~EchoFits \/ (AtEof /\ (lost \/ fhdr.len > rest))
  /\ Return("InvalidFrame")
  /\ KeepFlags
  /\ UNCHANGED <<reader, fcall, buflen, tvars>>

\* Mutant: the reply does not carry the payload back.
SendBackReplyEmpty(f) ==
  [type |-> IF f.type = "Ping" THEN "Pong" ELSE "Close", len |-> 0]

SendBackReply(f) ==
  [type |-> IF f.type = "Ping" THEN "Pong" ELSE "Close", len |-> f.len]

SendBackSend ==
  /\ pc = "echo_send"
  /\ Send(SendBackReply(fhdr))
  /\ IF fhdr.type = "Ping"
       THEN pc' = "hdr" /\ fhdr' = None /\ KeepFlags /\ UNCHANGED <<fret, nread>>
       ELSE ClosedByPeer /\ UNCHANGED is_wait_for_close_response
  /\ UNCHANGED <<reader, fcall, buflen>>

-----------------------------------------------------------------------------
(* receive_frame_payload. *)

\* Ok(n) returned to the caller.
ReturnCount(n) ==
  /\ pc' = "ret" /\ fret' = "Ok" /\ nread' = n /\ fhdr' = None
  /\ KeepFlags /\ UNCHANGED <<fcall, buflen>>

\* Mutant: the read is not limited to what is left of the fragment.
ToReadUnlimited == 1 .. buflen

\* How many bytes one socket.read may return.
ToRead == 1 .. (IF buflen < reader.payload_len THEN buflen ELSE reader.payload_len)

PayloadRead ==
  /\ pc = "payload" /\ buflen > 0 /\ reader.payload_len > 0
  /\ \E n \in ToRead :
        /\ Consume(n)
        /\ reader' = [reader EXCEPT !.payload_len = @ - n]
        /\ ReturnCount(n)

\* read() returns 0: "Unexpected EOF reached", reported as Ok(0).
PayloadEof ==
  /\ pc = "payload" /\ buflen > 0 /\ reader.payload_len > 0
  /\ AtEof /\ rest = 0
  /\ ReturnCount(0)
  /\ UNCHANGED <<reader, tvars>>

\* An empty buffer, or nothing left of the message.
PayloadNothing ==
  /\ pc = "payload"
  /\ buflen = 0 \/ IsFinished(reader)
  /\ ReturnCount(0)
  /\ UNCHANGED <<reader, tvars>>

\* The fragment is exhausted: wait for the next one.
PayloadNextFragment ==
  /\ pc = "payload"
  /\ buflen > 0 /\ reader.payload_len = 0 /\ ~reader.is_final
  /\ pc' = "hdr"
  /\ KeepFlags
  /\ UNCHANGED <<reader, fcall, fhdr, fret, nread, buflen, tvars>>

-----------------------------------------------------------------------------
(* send_ping and send_close. *)

SendFrame ==
  /\ pc = "send"
  /\ IF fcall = "send_ping"
       THEN /\ Send([type |-> "Ping", len |-> 0])
            /\ is_wait_for_pong' = TRUE /\ UNCHANGED is_wait_for_close_response
       ELSE /\ Send([type |-> "Close", len |-> 2])
            /\ is_wait_for_close_response' = TRUE /\ UNCHANGED is_wait_for_pong
  /\ Return("Ok")
  /\ UNCHANGED <<reader, fcall, buflen>>

\* Mutants: the early return is missing.
SendPingEntryAlways == "send"
SendCloseEntryAlways == "send"

\* The early return: the frame was sent before and is still unanswered.
SendPingEntry == IF is_wait_for_pong THEN "ret" ELSE "send"
SendCloseEntry == IF is_wait_for_close_response THEN "ret" ELSE "send"

EnterSend(call, at) ==
  /\ pc' = at
  /\ fcall' = call
  /\ fret' = IF at = "ret" THEN "Ok" ELSE None

-----------------------------------------------------------------------------
(* A socket operation gives up part way.  Whether the error is returned or  *)
(* the future is dropped, this is what it may leave behind.                 *)
Interrupt ==
  \/ pc = "hdr" /\ HeaderCut
  \/ pc = "echo_recv" /\ PayloadCut
  \/ pc \in {"echo_send", "send"} /\ SendCut
  \/ pc = "payload" /\ buflen > 0 /\ reader.payload_len > 0 /\ UNCHANGED tvars

SocketFails ==
  /\ MayFail
  /\ Interrupt
  /\ Return("Socket")
  /\ KeepFlags
  /\ UNCHANGED <<reader, fcall, buflen>>

FStep ==
  /\ \/ ReceiveHeader \/ HeaderEof
     \/ SendBackRecv \/ SendBackRecvFails \/ SendBackSend
     \/ PayloadRead \/ PayloadEof \/ PayloadNothing \/ PayloadNextFragment
     \/ SendFrame
     \/ SocketFails
  /\ UNCHANGED errored

-----------------------------------------------------------------------------
(* The component on its own, driven by a caller that uses it as it is meant *)
(* to be used: one call at a time, each message read to its end before the  *)
(* next call of wait_data_frame or process_control_frames.  Only this       *)
(* driver calls send_ping: in the crate it is `#[allow(dead_code)]`.        *)

PeerSends == \E f \in PeerFrames : Transmit(f) /\ UNCHANGED fvars

PeerEnds == EndOfStream /\ UNCHANGED fvars

CallWaitData == reader = None /\ Enter("wait_data", "hdr") /\ UNCHANGED buflen

CallProcess == reader = None /\ Enter("process", "hdr") /\ UNCHANGED buflen

CallPayload ==
  /\ reader # None
  /\ \E b \in BufSizes : buflen' = b
  /\ Enter("payload", "payload")

CallSendPing ==
  /\ Len(outbox) < MaxOut
  /\ EnterSend("send_ping", SendPingEntry) /\ UNCHANGED buflen

CallSendClose ==
  /\ Len(outbox) < MaxOut
  /\ EnterSend("send_close", SendCloseEntry) /\ UNCHANGED buflen

Call ==
  /\ pc = "idle"
  /\ CallWaitData \/ CallProcess \/ CallPayload \/ CallSendPing \/ CallSendClose
  /\ UNCHANGED <<is_wait_for_pong, is_wait_for_close_response, reader, fhdr,
                 nread, errored, tvars>>

\* The caller takes the result and drops a reader that is finished.  A data
\* header out of process_control_frames is as unwelcome as an error, and so is
\* an end of stream inside a message.
CallDone ==
  /\ pc = "ret"
  /\ pc' = "idle"
  /\ errored' = (errored \/ fret # "Ok" \/ fcall = "process")
  /\ reader' = IF fcall = "payload" /\ fret = "Ok" /\ IsFinished(reader)
                 THEN None ELSE reader
  /\ Forget
  /\ UNCHANGED <<is_wait_for_pong, is_wait_for_close_response, fhdr, tvars>>

FNext == FStep \/ Call \/ CallDone \/ PeerSends \/ PeerEnds

fcvars == <<tvars, fvars>>

FCInit == TInit /\ FInit

FSpec == FCInit /\ [][FNext]_fcvars

-----------------------------------------------------------------------------
(* Properties. *)

\* Every variable of the component keeps its type.
FControllerTypeOK == TTypeOK /\ FTypeOK /\ pc \in FPcs \cup {"idle"}

\* How many frames of type t a history holds.
Count(t, frames) == Cardinality({i \in DOMAIN frames : frames[i].type = t})
CountOut(t) == Count(t, outbox)
CountIn(t) == Count(t, rcvd)
Pending(flag) == IF flag THEN 1 ELSE 0

\* No second Ping goes out before the first is answered (or the connection is
\* closed): send_ping's early return and the flag process_control_frames clears.
OnePingOutstanding ==
  CountOut("Ping") <= CountIn("Pong") + CountIn("Close") + Pending(is_wait_for_pong)

\* Every Close the endpoint sends is either the answer to one Close received or
\* the one Close whose answer it awaits: Closes that cross are not answered twice.
ClosesBalance ==
  CountOut("Close") <= CountIn("Close") + Pending(is_wait_for_close_response)

\* As long as no call has failed the next header is read where a frame begins:
\* every payload is consumed by the function that met its header.
FramingKept == lost => errored \/ (pc = "ret" /\ fret # "Ok")

\* receive_frame_payload's Note: Ok(0) for a non-empty buffer means that the
\* message is complete.
ZeroMeansComplete ==
  (pc = "ret" /\ fcall = "payload" /\ fret = "Ok" /\ nread = 0 /\ buflen > 0)
    => IsFinished(reader)

\* What check_payload_len is there for: a frame whose length does not fit usize
\* is refused, it never becomes a reader of the truncated length.
OversizeRefused ==
  (pc = "ret" /\ fcall = "wait_data" /\ fret = "Ok")
    => rcvd[Len(rcvd)].len < UsizeMod
=============================================================================
