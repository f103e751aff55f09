------------------------- MODULE PayloadMaskerProofs -------------------------
(* Proofs about PayloadMasker: for both word sizes, every buffer address and *)
(* every chunk length, a caller that passes chunks of 4k bytes up to the     *)
(* last one gets its payload masked correctly.                               *)
EXTENDS PayloadMasker, TLAPS

\* The split of a chunk: whole words lie between prefix and suffix.
LEMMA SplitBounds ==
  ASSUME NEW n \in Nat, NEW addr \in 0 .. WordSize - 1
  PROVE  /\ Prefix(addr, n) \in 0 .. n
         /\ Aligned(addr, n) \in Nat
         /\ Prefix(addr, n) + Aligned(addr, n) \in 0 .. n
<1>1. CASE WordSize = 4
  BY <1>1 DEF Prefix, Aligned
<1>2. CASE WordSize = 8
  BY <1>2 DEF Prefix, Aligned
<1> QED BY <1>1, <1>2, MaskerAssumption

\* A word of the aligned part is masked like its bytes one by one: the rotated
\* key repeats with a period that divides the word.
LEMMA WordIsBytewise ==
  ASSUME NEW o \in Nat, NEW p \in Nat, NEW i \in Nat, i >= p
  PROVE  WordByte((i - p) % WordSize, o + p) = (o + i) % 4
<1>1. CASE WordSize = 4
  BY <1>1 DEF WordByte, Rotate
<1>2. CASE WordSize = 8
  BY <1>2 DEF WordByte, Rotate
<1> QED BY <1>1, <1>2, MaskerAssumption

\* mask_chank on a masker whose offset is a multiple of 4 masks byte i of the
\* chunk with key byte i % 4, at any address.
LEMMA ChunkCorrect ==
  ASSUME NEW o \in Nat, o % 4 = 0, NEW n \in Nat, NEW addr \in 0 .. WordSize - 1
  PROVE  /\ \A i \in 0 .. n - 1 : ChunkKey(o, addr, n)[i] = i % 4
         /\ ChunkKey(o, addr, n) \in [0 .. n - 1 -> 0 .. 3]
         /\ ChunkOffset(o, addr, n) = n
<1> DEFINE p == Prefix(addr, n)
           al == Aligned(addr, n)
<1>1. p \in Nat /\ al \in Nat /\ p + al <= n
  BY SplitBounds
<1>2. ASSUME NEW i \in 0 .. n - 1
      PROVE  ChunkKey(o, addr, n)[i] = i % 4
  <2>1. i \in Nat
    OBVIOUS
  <2> HIDE DEF p, al
  <2>2. ChunkKey(o, addr, n)[i] =
          IF i < p THEN MaskByte(o, i)
          ELSE IF i < p + al THEN WordByte((i - p) % WordSize, o + p)
          ELSE MaskByte(p + al, i - (p + al))
    BY DEF ChunkKey, OffsetAfterAligned, p, al
  <2>3. CASE i < p
    BY <1>1, <2>1, <2>2, <2>3 DEF MaskByte
  <2>4. CASE ~(i < p) /\ i < p + al
    <3>1. WordByte((i - p) % WordSize, o + p) = (o + i) % 4
      BY <1>1, <2>1, <2>4, WordIsBytewise
    <3> QED BY <1>1, <2>1, <2>2, <2>4, <3>1
  <2>5. CASE ~(i < p) /\ ~(i < p + al)
    BY <1>1, <2>1, <2>2, <2>5 DEF MaskByte
  <2> QED BY <2>3, <2>4, <2>5
<1>3. ChunkKey(o, addr, n) = [i \in 0 .. n - 1 |-> ChunkKey(o, addr, n)[i]]
  BY DEF ChunkKey
<1>4. \A i \in 0 .. n - 1 : ChunkKey(o, addr, n)[i] \in 0 .. 3
  BY <1>2
<1>5. ChunkOffset(o, addr, n) = n
  <2> HIDE DEF p, al
  <2>1. ChunkOffset(o, addr, n) = (p + al) + (n - (p + al))
    BY DEF ChunkOffset, OffsetAfterAligned, p, al
  <2> QED BY <1>1, <2>1
<1> QED BY <1>2, <1>3, <1>4, <1>5

-----------------------------------------------------------------------------

\* The inductive invariant: the offset must stand for the position, or the next
\* chunk goes wrong.
MInv == MTypeOK /\ MaskedByPosition /\ OffsetTracksPos

\* For a disciplined caller every payload byte is masked with the key byte of
\* its position, and the offset masker.rs keeps stays equivalent to the position.
THEOREM MaskingCorrect ==
  ASSUME Disciplined
  PROVE  MSpec => [](MaskedByPosition /\ OffsetTracksPos)
<1>1. MInit => MInv
  BY DEF MInit, MInv, MTypeOK, MaskedByPosition, OffsetTracksPos
<1>2. MInv /\ [MNext]_mvars => MInv'
  <2> SUFFICES ASSUME MInv, [MNext]_mvars
               PROVE  MInv'
    OBVIOUS
  <2> USE DEF MInv
  <2>1. ASSUME NEW n \in ChunkLens, mask_small_chank(n)
        PROVE  MInv'
    <3>1. n \in Nat
      BY MaskerAssumption
    <3>2. pos % 4 = 0 /\ offset % 4 = 0 /\ pos \in Nat /\ offset \in Nat
      BY <2>1 DEF mask_small_chank, MayMask, OffsetTracksPos, MTypeOK
    <3>3. offset' = offset + n /\ pos' = pos + n /\ start' = pos /\ pos' - start' = n
      BY <2>1, <3>1, <3>2 DEF mask_small_chank, Advance
    <3>4. applied' = [i \in 0 .. n - 1 |-> (offset + i) % 4]
      BY <2>1 DEF mask_small_chank, MaskByte
    <3>5. OffsetTracksPos'
      BY <3>1, <3>2, <3>3 DEF OffsetTracksPos
    <3>6. MaskedByPosition'
      <4> SUFFICES ASSUME NEW i \in 0 .. n - 1
                   PROVE  applied'[i] = (pos + i) % 4
        BY <3>3 DEF MaskedByPosition
      <4> QED BY <3>1, <3>2, <3>4
    <3>7. MTypeOK'
      <4>1. \A i \in 0 .. n - 1 : (offset + i) % 4 \in 0 .. 3
        BY <3>1, <3>2
      <4>2. applied' \in [0 .. n - 1 -> 0 .. 3]
        BY <3>4, <4>1
      <4> QED BY <3>1, <3>2, <3>3, <4>2 DEF MTypeOK
    <3> QED BY <3>5, <3>6, <3>7
  <2>2. ASSUME NEW n \in ChunkLens, NEW addr \in 0 .. WordSize - 1, mask_chank(addr, n)
        PROVE  MInv'
    <3>1. n \in Nat
      BY MaskerAssumption
    <3>2. pos % 4 = 0 /\ offset % 4 = 0 /\ pos \in Nat /\ offset \in Nat
      BY <2>2 DEF mask_chank, MayMask, OffsetTracksPos, MTypeOK
    <3>3. /\ applied' = ChunkKey(offset, addr, n)
          /\ offset' = ChunkOffset(offset, addr, n)
          /\ pos' = pos + n /\ start' = pos /\ pos' - start' = n
      BY <2>2, <3>1, <3>2 DEF mask_chank, Advance
    <3>4. /\ \A i \in 0 .. n - 1 : applied'[i] = i % 4
          /\ applied' \in [0 .. n - 1 -> 0 .. 3]
          /\ offset' = n
      BY <3>1, <3>2, <3>3, ChunkCorrect
    <3>5. OffsetTracksPos'
      BY <3>1, <3>2, <3>3, <3>4 DEF OffsetTracksPos
    <3>6. MaskedByPosition'
      <4> SUFFICES ASSUME NEW i \in 0 .. n - 1
                   PROVE  applied'[i] = (pos + i) % 4
        BY <3>3 DEF MaskedByPosition
      <4> QED BY <3>1, <3>2, <3>4
    <3>7. MTypeOK'
      BY <3>1, <3>2, <3>3, <3>4 DEF MTypeOK
    <3> QED BY <3>5, <3>6, <3>7
  <2>3. CASE NewMasker
    BY <2>3 DEF NewMasker, MTypeOK, MaskedByPosition, OffsetTracksPos
  <2>4. CASE UNCHANGED mvars
    BY <2>4 DEF mvars, MTypeOK, MaskedByPosition, OffsetTracksPos
  <2> QED BY <2>1, <2>2, <2>3, <2>4 DEF MNext
<1>3. MInv => MaskedByPosition /\ OffsetTracksPos
  BY DEF MInv
<1> QED BY <1>1, <1>2, <1>3, PTL DEF MSpec
=============================================================================
