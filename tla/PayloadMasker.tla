---------------------------- MODULE PayloadMasker ----------------------------
(***************************************************************************)
(* web_socket/masker.rs: applying a 4-byte mask key to the payload of one   *)
(* frame, which arrives in chunks.  A byte is masked by XOR with one byte   *)
(* of the key, so all that matters is WHICH byte of the key: the model      *)
(* records key indexes, never data.  RFC 6455 wants key index p % 4 for     *)
(* the payload byte at position p.                                          *)
(***************************************************************************)
EXTENDS Integers

CONSTANTS
  WordSize,      \* size_of::<usize>() on the target: 4 or 8
  ChunkLens,     \* lengths of the chunks the caller passes
  MaxPos,        \* bound: payload bytes of a frame
  Disciplined    \* TRUE: only the last chunk of a frame has a length that is
                 \* not a multiple of 4; FALSE: chunks of any length

ASSUME MaskerAssumption ==
  /\ WordSize \in {4, 8}
  /\ ChunkLens \subseteq Nat
  /\ MaxPos \in Nat
  /\ Disciplined \in BOOLEAN

VARIABLES
  offset,   \* PayloadMasker.offset
  pos,      \* payload bytes of the frame masked so far
  start,    \* the value of pos before the last chunk
  applied   \* byte of the last chunk -> index of the key byte it was XORed with

mvars == <<offset, pos, start, applied>>

-----------------------------------------------------------------------------
(* align_to_mut::<usize> of a chunk of n bytes at address addr. *)

Prefix(addr, n) ==
  LET gap == (WordSize - (addr % WordSize)) % WordSize
  IN  IF gap > n THEN n ELSE gap

\* size_of_val(aligned)
Aligned(addr, n) == ((n - Prefix(addr, n)) \div WordSize) * WordSize

-----------------------------------------------------------------------------

\* next_mask_byte / mask_byte: the key index for the i-th byte after offset o.
MaskByte(o, i) == (o + i) % 4

\* Mutants: no wrap-around; the rotation goes the other way.
RotateUnwrapped(j, n) == j + n
RotateBack(j, n) == (4 + j - (n % 4)) % 4

\* rotate: byte j of the rotated mask is byte (j + n) % 4 of the key.
Rotate(j, n) == (j + n) % 4

\* populate_to_usize repeats the 32-bit mask: byte j of an aligned word.
WordByte(j, n) == Rotate(j % 4, n)

\* Mutant: the bytes of the unaligned prefix are not counted.
OffsetWithoutPrefix(o, p, al) == al

\* The offset mask_chank_impl leaves for the suffix: an assignment of the bytes
\* of THIS chunk, whatever the offset was.
OffsetAfterAligned(o, p, al) == p + al

\* mask_chank_impl (mask_chank and mask_chank_simd only differ in unrolling).
ChunkKey(o, addr, n) ==
  LET p == Prefix(addr, n)
      al == Aligned(addr, n)
      suffixOffset == OffsetAfterAligned(o, p, al)
  IN  [i \in 0 .. n - 1 |->
         IF i < p THEN MaskByte(o, i)
         ELSE IF i < p + al THEN WordByte((i - p) % WordSize, o + p)
         ELSE MaskByte(suffixOffset, i - (p + al))]

ChunkOffset(o, addr, n) ==
  LET p == Prefix(addr, n)
      al == Aligned(addr, n)
  IN  OffsetAfterAligned(o, p, al) + (n - (p + al))

Advance(n) == start' = pos /\ pos' = pos + n

\* The next chunk the caller may pass.
MayMask(n) ==
  /\ pos + n <= MaxPos
  /\ Disciplined => pos % 4 = 0

mask_chank(addr, n) ==
  /\ MayMask(n)
  /\ applied' = ChunkKey(offset, addr, n)
  /\ offset' = ChunkOffset(offset, addr, n)
  /\ Advance(n)

mask_small_chank(n) ==
  /\ MayMask(n)
  /\ applied' = [i \in 0 .. n - 1 |-> MaskByte(offset, i)]
  /\ offset' = offset + n
  /\ Advance(n)

\* PayloadMasker::new, for the next frame.
NewMasker ==
  /\ offset' = 0 /\ pos' = 0 /\ start' = 0
  /\ applied' = [i \in 0 .. -1 |-> 0]

MInit ==
  /\ offset = 0 /\ pos = 0 /\ start = 0
  /\ applied = [i \in 0 .. -1 |-> 0]

MNext ==
  \/ \E n \in ChunkLens : mask_small_chank(n)
  \/ \E n \in ChunkLens, addr \in 0 .. WordSize - 1 : mask_chank(addr, n)
  \/ NewMasker

MSpec == MInit /\ [][MNext]_mvars

-----------------------------------------------------------------------------
(* Properties. *)

\* Types; applied covers the last chunk exactly.
MTypeOK ==
  /\ offset \in Nat /\ pos \in Nat /\ start \in Nat /\ start <= pos
  /\ applied \in [0 .. (pos - start) - 1 -> 0 .. 3]

\* Every byte is masked with the byte of the key that belongs to its position in
\* the payload, wherever the buffer lies in memory.
MaskedByPosition ==
  \A i \in 0 .. (pos - start) - 1 : applied[i] = (start + i) % 4

\* offset is worth as much as the position: the next byte gets the right key byte.
OffsetTracksPos == offset % 4 = pos % 4
=============================================================================
