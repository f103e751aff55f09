------------------------- MODULE MaskedReaderProofs --------------------------
(***************************************************************************)
(* Proofs about MaskedReader: whatever the frames, the buffers and the      *)
(* reads, each byte of a masked frame passes through the masker once; and   *)
(* if buffers and reads are multiples of four bytes, the reader is the      *)
(* disciplined caller of PayloadMaskerProofs and unmasks by position.       *)
(***************************************************************************)
EXTENDS MaskedReader, PayloadMaskerProofs

\* Buffers and reads are multiples of the length of the mask key.
FourAligned ==
  /\ \A b \in BufLens : b % 4 = 0
  /\ ReadUnit % 4 = 0

LEMMA MultipleOfMultiple ==
  ASSUME NEW n \in Nat, NEW d \in Nat \ {0}, d % 4 = 0, n % d = 0
  PROVE  n % 4 = 0
<1>1. PICK k \in Nat : d = 4 * k
  <2>1. d \div 4 \in Nat /\ d = 4 * (d \div 4)
    OBVIOUS
  <2>2. QED
    BY <2>1
<1>2. PICK q \in Nat : n = d * q
  <2>1. n \div d \in Nat /\ n = d * (n \div d)
    OBVIOUS
  <2>2. QED
    BY <2>1
<1>3. k * q \in Nat /\ n = 4 * (k * q)
  BY <1>1, <1>2
<1>4. QED
  BY <1>3

\* Types of one chunk, at any offset and address and of any length.
LEMMA ChunkTypes ==
  ASSUME NEW o \in Nat, NEW n \in Nat, NEW addr \in 0 .. WordSize - 1
  PROVE  /\ ChunkKey(o, addr, n) \in [0 .. n - 1 -> 0 .. 3]
         /\ ChunkOffset(o, addr, n) = n
<1> DEFINE p == Prefix(addr, n)
           al == Aligned(addr, n)
<1>1. p \in Nat /\ al \in Nat /\ p + al <= n
  BY SplitBounds
<1>2. ASSUME NEW i \in 0 .. n - 1
      PROVE  ChunkKey(o, addr, n)[i] \in 0 .. 3
  <2> HIDE DEF p, al
  <2>1. ChunkKey(o, addr, n)[i] =
          IF i < p THEN MaskByte(o, i)
          ELSE IF i < p + al THEN WordByte((i - p) % WordSize, o + p)
          ELSE MaskByte(p + al, i - (p + al))
    BY DEF ChunkKey, OffsetAfterAligned, p, al
  <2>2. CASE i < p
    BY <1>1, <2>1, <2>2 DEF MaskByte
  <2>3. CASE ~(i < p) /\ i < p + al
    <3>1. WordByte((i - p) % WordSize, o + p) = (o + i) % 4
      BY <1>1, <2>3, WordIsBytewise
    <3>2. QED
      BY <1>1, <2>1, <2>3, <3>1
  <2>4. CASE ~(i < p) /\ ~(i < p + al)
    BY <1>1, <2>1, <2>4 DEF MaskByte
  <2>5. QED
    BY <2>2, <2>3, <2>4
<1>3. ChunkKey(o, addr, n) = [i \in 0 .. n - 1 |-> ChunkKey(o, addr, n)[i]]
  BY DEF ChunkKey
<1>4. ChunkOffset(o, addr, n) = n
  <2> HIDE DEF p, al
  <2>1. ChunkOffset(o, addr, n) = (p + al) + (n - (p + al))
    BY DEF ChunkOffset, OffsetAfterAligned, p, al
  <2>2. QED
    BY <1>1, <2>1
<1>5. QED
  BY <1>2, <1>3, <1>4

-----------------------------------------------------------------------------

\* What holds of any reader.
RInv ==
  /\ MTypeOK
  /\ payload_len \in Nat /\ frame_len \in Nat
  /\ is_final \in BOOLEAN /\ masker \in BOOLEAN
  /\ EachByteOnce

\* What a read hands to the masker.
LEMMA ReadBounds ==
  ASSUME RInv, NEW b \in BufLens, NEW n \in ActuallyRead(b)
  PROVE  /\ n \in Nat /\ n >= 1 /\ n <= payload_len
         /\ FourAligned => n % 4 = 0 \/ n = payload_len
<1>1. b \in Nat /\ ReadUnit \in Nat \ {0}
  BY ReaderAssumption
<1>2. /\ n \in Nat /\ n >= 1 /\ n <= payload_len
      /\ n % ReadUnit = 0 \/ n = payload_len
  BY <1>1 DEF ActuallyRead, ToRead, RInv
<1>3. QED
  BY <1>1, <1>2, MultipleOfMultiple DEF FourAligned

LEMMA RInductive == RInv /\ [MRNext]_mrvars => RInv'
<1> SUFFICES ASSUME RInv, [MRNext]_mrvars
             PROVE  RInv'
  OBVIOUS
<1>1. ASSUME NEW len \in FrameLens, NEW fin \in BOOLEAN, NEW keyed \in BOOLEAN,
             FirstFrame(len, fin, keyed) \/ NextFrame(len, fin, keyed)
      PROVE  RInv'
  <2>1. NewMasker /\ TakeHeader(len, fin, keyed) /\ len \in Nat
    BY <1>1, ReaderAssumption DEF FirstFrame, NextFrame
  <2>2. MTypeOK'
    BY <2>1 DEF NewMasker, MTypeOK
  <2>3. payload_len' = len /\ frame_len' = len /\ pos' = 0
    BY <2>1 DEF TakeHeader, NewMasker
  <2>4. is_final' \in BOOLEAN /\ masker' \in BOOLEAN
    BY <2>1, Zenon DEF TakeHeader
  <2>5. EachByteOnce'
    BY <2>1, <2>3 DEF EachByteOnce
  <2>6. QED
    BY <2>1, <2>2, <2>3, <2>4, <2>5 DEF RInv
<1>2. ASSUME NEW b \in BufLens, NEW n \in ActuallyRead(b), NEW addr \in 0 .. WordSize - 1,
             receive_frame_payload(b, n, addr)
      PROVE  RInv'
  <2>1. n \in Nat /\ n <= payload_len /\ payload_len \in Nat
    BY ReadBounds DEF RInv
  <2>2. payload_len' = payload_len - n /\ UNCHANGED <<is_final, masker, frame_len>>
    BY <1>2 DEF receive_frame_payload
  <2>3. CASE masker
    <3>1. mask_chank(addr, n)
      BY <1>2, <2>3 DEF receive_frame_payload, MaskedChunk
    <3>2. /\ applied' \in [0 .. n - 1 -> 0 .. 3] /\ offset' = n
          /\ start' = pos /\ pos' = pos + n
      BY <2>1, <3>1, ChunkTypes DEF mask_chank, Advance, RInv, MTypeOK
    <3>3. MTypeOK'
      BY <2>1, <3>2 DEF RInv, MTypeOK
    <3>4. EachByteOnce'
      BY <2>1, <2>2, <2>3, <3>2 DEF RInv, MTypeOK, EachByteOnce
    <3>5. QED
      BY <2>1, <2>2, <3>3, <3>4 DEF RInv
  <2>4. CASE ~masker
    <3>1. UNCHANGED mvars
      BY <1>2, <2>4 DEF receive_frame_payload
    <3>2. QED
      BY <2>1, <2>2, <2>4, <3>1 DEF RInv, MTypeOK, EachByteOnce, mvars
  <2>5. QED
    BY <2>3, <2>4
<1>3. CASE UNCHANGED mrvars
  BY <1>3 DEF mrvars, mvars, rvars, RInv, MTypeOK, EachByteOnce
<1>4. QED
  BY <1>1, <1>2, <1>3 DEF MRNext

LEMMA RInitial == MRInit => RInv
<1> SUFFICES ASSUME MRInit
             PROVE  RInv
  OBVIOUS
<1>1. MTypeOK
  BY DEF MRInit, MInit, MTypeOK
<1>2. payload_len \in Nat /\ frame_len \in Nat /\ EachByteOnce
  BY DEF MRInit, MInit, EachByteOnce
<1>3. is_final \in BOOLEAN /\ masker \in BOOLEAN
  BY Zenon DEF MRInit
<1>4. QED
  BY <1>1, <1>2, <1>3 DEF RInv

LEMMA RInvariant == MRSpec => []RInv
BY RInitial, RInductive, PTL DEF MRSpec

\* For all frames, buffers and reads: the indexes the masker records are indexes of the
\* key, for exactly the bytes of the last chunk.
THEOREM ReaderTypes == MRSpec => []MTypeOK
<1>1. RInv => MTypeOK
  BY DEF RInv
<1>2. QED
  BY <1>1, RInvariant, PTL

\* For all frames, buffers and reads: what receive_frame_payload has masked and what it
\* has still to read are together the masked frame.
THEOREM BytesMaskedOnce == MRSpec => []EachByteOnce
<1>1. RInv => EachByteOnce
  BY DEF RInv
<1>2. QED
  BY <1>1, RInvariant, PTL

-----------------------------------------------------------------------------

\* What holds of a reader with buffers and reads of 4k bytes: between two chunks of a
\* frame the position is at the start of a key period.
DInv ==
  /\ RInv
  /\ masker /\ payload_len > 0 => pos % 4 = 0
  /\ MaskedByPosition
  /\ OffsetTracksPos

LEMMA DInitial == MRInit => DInv
BY RInitial DEF MRInit, MInit, DInv, MaskedByPosition, OffsetTracksPos

\* A chunk that starts at a key period is masked by position.
LEMMA ChunkByPosition ==
  ASSUME MTypeOK, OffsetTracksPos, pos % 4 = 0, NEW n \in Nat,
         NEW addr \in 0 .. WordSize - 1, mask_chank(addr, n)
  PROVE  MaskedByPosition' /\ OffsetTracksPos'
<1>1. pos \in Nat /\ offset \in Nat /\ offset % 4 = 0
  BY DEF MTypeOK, OffsetTracksPos
<1>2. /\ applied' = ChunkKey(offset, addr, n)
      /\ offset' = ChunkOffset(offset, addr, n)
      /\ pos' = pos + n /\ start' = pos /\ pos' - start' = n
  BY <1>1 DEF mask_chank, Advance
<1>3. (\A i \in 0 .. n - 1 : applied'[i] = i % 4) /\ offset' = n
  BY <1>1, <1>2, ChunkCorrect
<1>4. OffsetTracksPos'
  BY <1>1, <1>2, <1>3 DEF OffsetTracksPos
<1>5. MaskedByPosition'
  <2> SUFFICES ASSUME NEW i \in 0 .. n - 1
               PROVE  applied'[i] = (pos + i) % 4
    BY <1>2 DEF MaskedByPosition
  <2>1. QED
    BY <1>1, <1>3
<1>6. QED
  BY <1>4, <1>5

LEMMA DInductive ==
  ASSUME FourAligned
  PROVE  DInv /\ [MRNext]_mrvars => DInv'
<1> SUFFICES ASSUME DInv, [MRNext]_mrvars
             PROVE  DInv'
  OBVIOUS
<1>0. RInv'
  BY RInductive DEF DInv
<1>1. ASSUME NEW len \in FrameLens, NEW fin \in BOOLEAN, NEW keyed \in BOOLEAN,
             FirstFrame(len, fin, keyed) \/ NextFrame(len, fin, keyed)
      PROVE  DInv'
  <2>1. NewMasker
    BY <1>1 DEF FirstFrame, NextFrame
  <2>2. QED
    BY <1>0, <2>1 DEF NewMasker, DInv, MaskedByPosition, OffsetTracksPos
<1>2. ASSUME NEW b \in BufLens, NEW n \in ActuallyRead(b), NEW addr \in 0 .. WordSize - 1,
             receive_frame_payload(b, n, addr)
      PROVE  DInv'
  <2>1. /\ n \in Nat /\ n >= 1 /\ n <= payload_len /\ payload_len \in Nat
        /\ n % 4 = 0 \/ n = payload_len
    BY ReadBounds DEF DInv, RInv
  <2>2. payload_len' = payload_len - n /\ UNCHANGED <<is_final, masker, frame_len>>
    BY <1>2 DEF receive_frame_payload
  <2>3. CASE masker
    <3>1. mask_chank(addr, n) /\ pos % 4 = 0 /\ pos \in Nat
      BY <1>2, <2>1, <2>3 DEF receive_frame_payload, MaskedChunk, DInv, RInv, MTypeOK
    <3>2. MaskedByPosition' /\ OffsetTracksPos'
      BY <2>1, <3>1, ChunkByPosition DEF DInv, RInv
    <3>3. payload_len' > 0 => pos' % 4 = 0
      BY <2>1, <2>2, <3>1 DEF mask_chank, Advance
    <3>4. QED
      BY <1>0, <3>2, <3>3 DEF DInv
  <2>4. CASE ~masker
    <3>1. UNCHANGED mvars
      BY <1>2, <2>4 DEF receive_frame_payload
    <3>2. QED
      BY <1>0, <2>2, <2>4, <3>1 DEF DInv, MaskedByPosition, OffsetTracksPos, mvars
  <2>5. QED
    BY <2>3, <2>4
<1>3. CASE UNCHANGED mrvars
  BY <1>0, <1>3 DEF mrvars, mvars, rvars, DInv, MaskedByPosition, OffsetTracksPos
<1>4. QED
  BY <1>1, <1>2, <1>3 DEF MRNext

\* With buffers and reads of 4k bytes the payload of every frame is unmasked by position,
\* across fragments with keys of their own, empty frames and unmasked frames.
THEOREM ReaderMasksByPosition ==
  ASSUME FourAligned
  PROVE  MRSpec => []MaskedByPosition
<1>1. DInv => MaskedByPosition
  BY DEF DInv
<1>2. QED
  BY <1>1, DInitial, DInductive, PTL DEF MRSpec

\* ... and the offset PayloadMasker keeps stays equivalent to the position.
THEOREM ReaderOffsetTracksPos ==
  ASSUME FourAligned
  PROVE  MRSpec => []OffsetTracksPos
<1>1. DInv => OffsetTracksPos
  BY DEF DInv
<1>2. QED
  BY <1>1, DInitial, DInductive, PTL DEF MRSpec

\* With buffers and reads of 4k bytes receive_frame_payload is the disciplined caller of
\* the masker: each of its steps is a step of Disciplined4 or leaves the masker alone.
THEOREM ReaderRefinesMasker ==
  ASSUME FourAligned
  PROVE  MRSpec => ReaderIsDisciplined
<1>1. MRInit => Disciplined4!MInit
  BY DEF MRInit, MInit, Disciplined4!MInit
<1>2. DInv /\ [MRNext]_mrvars => [Disciplined4!MNext]_(Disciplined4!mvars)
  <2> SUFFICES ASSUME DInv, [MRNext]_mrvars
               PROVE  [Disciplined4!MNext]_(Disciplined4!mvars)
    OBVIOUS
  <2>1. ASSUME NEW len \in FrameLens, NEW fin \in BOOLEAN, NEW keyed \in BOOLEAN,
               FirstFrame(len, fin, keyed) \/ NextFrame(len, fin, keyed)
        PROVE  Disciplined4!NewMasker
    BY <2>1 DEF FirstFrame, NextFrame, NewMasker, Disciplined4!NewMasker
  <2>2. ASSUME NEW b \in BufLens, NEW n \in ActuallyRead(b), NEW addr \in 0 .. WordSize - 1,
               receive_frame_payload(b, n, addr)
        PROVE  UNCHANGED mvars \/ (n \in 0 .. MaxPos /\ Disciplined4!mask_chank(addr, n))
    <3>1. CASE ~masker
      BY <2>2, <3>1 DEF receive_frame_payload
    <3>2. CASE masker
      <4>1. mask_chank(addr, n)
        BY <2>2, <3>2 DEF receive_frame_payload, MaskedChunk
      <4>2. n \in Nat /\ payload_len > 0 /\ pos \in Nat /\ pos % 4 = 0
        BY <3>2, ReadBounds DEF DInv, RInv, MTypeOK
      <4>3. n \in 0 .. MaxPos /\ Disciplined4!MayMask(n)
        BY <4>1, <4>2, MaskerAssumption DEF mask_chank, MayMask, Disciplined4!MayMask
      <4>4. /\ applied' = Disciplined4!ChunkKey(offset, addr, n)
            /\ offset' = Disciplined4!ChunkOffset(offset, addr, n)
        BY <4>1 DEF mask_chank, ChunkKey, ChunkOffset, Disciplined4!ChunkKey,
                    Disciplined4!ChunkOffset, Prefix, Aligned, Disciplined4!Prefix,
                    Disciplined4!Aligned, MaskByte, Disciplined4!MaskByte, WordByte,
                    Disciplined4!WordByte, Rotate, Disciplined4!Rotate,
                    OffsetAfterAligned, Disciplined4!OffsetAfterAligned
      <4>5. Disciplined4!Advance(n)
        BY <4>1 DEF mask_chank, Advance, Disciplined4!Advance
      <4>6. QED
        BY <4>3, <4>4, <4>5 DEF Disciplined4!mask_chank
    <3>3. QED
      BY <3>1, <3>2
  <2>3. CASE UNCHANGED mrvars
    BY <2>3 DEF mrvars, mvars, Disciplined4!mvars
  <2>4. QED
    BY <2>1, <2>2, <2>3 DEF MRNext, mvars, Disciplined4!mvars, Disciplined4!MNext
<1>3. QED
  BY <1>1, <1>2, DInitial, DInductive, PTL DEF MRSpec, ReaderIsDisciplined, Disciplined4!MSpec
=============================================================================
