----------------------------- MODULE MaskedReader ----------------------------
(***************************************************************************)
(* FrameReader::receive_frame_payload together with the PayloadMasker it    *)
(* owns: which chunks the masker is given when a message of several frames  *)
(* is read with the application's buffers and with what socket.read         *)
(* returns.  Control frames and errors, which do not touch the masker, are  *)
(* the business of FrameController.                                         *)
(***************************************************************************)
EXTENDS PayloadMasker

CONSTANTS
  FrameLens,   \* payload lengths of the peer's frames
  BufLens,     \* lengths of the application's buffers
  ReadUnit     \* socket.read returns a multiple of this, or the rest of the frame

ASSUME ReaderAssumption ==
  FrameLens \subseteq Nat /\ BufLens \subseteq Nat /\ ReadUnit \in Nat \ {0}

VARIABLES
  payload_len, is_final,
  masker,      \* the Option<PayloadMasker> is Some
  frame_len    \* history: payload length of the current frame

rvars == <<payload_len, is_final, masker, frame_len>>

mrvars == <<mvars, rvars>>

\* No message is being read: the last one is finished.
MRInit ==
  /\ MInit
  /\ payload_len = 0 /\ frame_len = 0
  /\ is_final = TRUE
  /\ masker = FALSE

\* What both kinds of data header set.
TakeHeader(len, fin, keyed) ==
  /\ payload_len' = len /\ frame_len' = len
  /\ is_final' = fin
  /\ masker' = keyed

\* wait_data_frame: the first frame of a message.
FirstFrame(len, fin, keyed) ==
  /\ payload_len = 0 /\ is_final
  /\ TakeHeader(len, fin, keyed)
  /\ NewMasker

\* Mutant: the masker of the first fragment is used for the whole message.
NextFrameKeepsMasker(len, fin, keyed) ==
  /\ payload_len = 0 /\ ~is_final
  /\ TakeHeader(len, fin, masker)
  /\ IF masker THEN pos' = 0 /\ start' = 0 /\ applied' = [i \in 0 .. -1 |-> 0] /\ UNCHANGED offset
               ELSE NewMasker

\* A continuation has a mask key of its own.
NextFrame(len, fin, keyed) ==
  /\ payload_len = 0 /\ ~is_final
  /\ TakeHeader(len, fin, keyed)
  /\ NewMasker

ToRead(b) == IF b < payload_len THEN b ELSE payload_len

\* What socket.read may return for a buffer of b bytes.
ActuallyRead(b) == {n \in 1 .. ToRead(b) : n % ReadUnit = 0 \/ n = payload_len}

\* Mutant: all of payload_buf is masked, not only the bytes that were read.
MaskedChunkWhole(b, n) == ToRead(b)

MaskedChunk(b, n) == n

receive_frame_payload(b, n, addr) ==
  /\ payload_len' = payload_len - n
  /\ IF masker THEN mask_chank(addr, MaskedChunk(b, n)) ELSE UNCHANGED mvars
  /\ UNCHANGED <<is_final, masker, frame_len>>

MRNext ==
  \/ \E len \in FrameLens, fin, keyed \in BOOLEAN :
       FirstFrame(len, fin, keyed) \/ NextFrame(len, fin, keyed)
  \/ \E b \in BufLens : \E n \in ActuallyRead(b), addr \in 0 .. WordSize - 1 :
       receive_frame_payload(b, n, addr)

MRSpec == MRInit /\ [][MRNext]_mrvars

-----------------------------------------------------------------------------
(* Properties. *)

\* Of a masked frame every payload byte passes through the masker exactly once:
\* what is not masked yet is what is still to be read.
EachByteOnce == masker => pos + payload_len = frame_len

Disciplined4 == INSTANCE PayloadMasker WITH
  ChunkLens <- 0 .. MaxPos, Disciplined <- TRUE,
  WordSize <- WordSize, MaxPos <- MaxPos,
  offset <- offset, pos <- pos, start <- start, applied <- applied

\* If buffers and reads are multiples of four bytes, the reader is the disciplined
\* caller for which the masker is proved correct: across fragments, empty frames
\* and unmasked frames it never hands on a chunk in the middle of a key period.
ReaderIsDisciplined == Disciplined4!MSpec
=============================================================================
