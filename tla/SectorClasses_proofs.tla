------------------------ MODULE SectorClasses_proofs ------------------------
(***************************************************************************)
(* Proofs about SectorClasses: the relations between the answers hold for  *)
(* buffers of every size and contents, every window that starts after the  *)
(* date 02 78 9c spells and every limit of the offsets up to 16 bits.      *)
(***************************************************************************)
EXTENDS SectorClasses, OffsetScan_proofs

(***************************************************************************)
(* What a reader of a buffer can tell from one word of it.  Every number   *)
(* that separates the classes is in the next three lemmas.                 *)
(***************************************************************************)

(* A word of an offset table has an empty first byte and precedes both the *)
(* window and the bytes 02 78 9c.                                          *)
LEMMA OffsetWordSmall ==
  ASSUME NEW word \in Nat, ChunkOffset(word) <= MaxOffset
  PROVE  /\ word <= 16777215
         /\ FirstByte(word) = 0
<1>1. MaxOffset \in Nat /\ MaxOffset <= 65535
  BY MaxOffsetAssumption, OffsetWidthAssumption
<1>2. word \div 256 <= 65535
  BY <1>1 DEF ChunkOffset
<1>3. word <= 16777215
  BY <1>2
<1> QED
  BY <1>3 DEF FirstByte

(* The second word of an encoded chunk lies in a narrow range.             *)
LEMMA EncodedWordRange ==
  ASSUME NEW word \in Nat, word - (word % 256) = CompCmfFlg
  PROVE  /\ 41458688 <= word
         /\ word < MinTime
<1>1. word % 256 \in 0 .. 255
  OBVIOUS
<1>2. word = CompCmfFlg + (word % 256)
  BY <1>1 DEF CompCmfFlg
<1> QED
  BY <1>1, <1>2, WindowAssumption DEF CompCmfFlg

(* A timestamp has a nonzero first byte.                                   *)
LEMMA TimestampWordLarge ==
  ASSUME NEW word \in Nat, MinTime <= word
  PROVE  FirstByte(word) # 0
<1>1. 41458688 < word
  BY WindowAssumption DEF CompCmfFlg
<1> QED
  BY <1>1 DEF FirstByte

(***************************************************************************)
(* What a behaviour of the loops of has_offsets keeps: the buffer is one,  *)
(* and one that is accepted has offsets in range.                          *)
(***************************************************************************)
Subject == buffer \in Buffer /\ (Offsets => OffsetsInRange(buffer))

LEMMA SubjectInvariant == Spec => []Subject
<1>1. TypeOK /\ VerdictExact => Subject
  BY DEF TypeOK, VerdictExact, Subject, Offsets, HasOffsets
<1> QED
  BY <1>1, TypeCorrect, VerdictIsHasOffsets, PTL

(* A block has one type: at most one of the three tests of mcarve's loop   *)
(* answers yes, whatever the block holds.                                  *)
THEOREM OneClass == Spec => []AtMostOneClass
<1>1. ASSUME Subject PROVE AtMostOneClass
  <2>1. \A k \in Index : buffer[k] \in Nat
    BY <1>1 DEF Subject, Buffer
  <2>2. Offsets => \A k \in Index : buffer[k] <= 16777215
    BY <1>1, <2>1, OffsetWordSmall DEF Subject, OffsetsInRange
  <2>3. Timestamps => \E k \in Index : 41458943 < buffer[k]
    BY <2>1, WindowAssumption DEF Timestamps, HasTimestamps, CompCmfFlg
  <2>4. EncodedChunk => /\ 1 \in Index
                        /\ 41458688 <= buffer[1] /\ buffer[1] < MinTime
    BY <2>1, EncodedWordRange, SizeAssumption DEF EncodedChunk, HasEncodedChunk, Index
  <2>5. ~(Timestamps /\ Offsets)
    BY <2>1, <2>2, <2>3
  <2>6. ~(Timestamps /\ EncodedChunk)
    BY <2>1, <2>4, WindowAssumption DEF Timestamps, HasTimestamps
  <2>7. ~(Offsets /\ EncodedChunk)
    BY <2>1, <2>2, <2>4
  <2> QED
    BY <2>5, <2>6, <2>7 DEF AtMostOneClass
<1> QED
  BY <1>1, SubjectInvariant, PTL

(* is_mostly_zero counts no word that is zero, and counts every nonzero    *)
(* word of a timestamps block.                                             *)
THEOREM MostlyZeroUndercounts == Spec => []MostlyZeroErrsOneWay
<1>1. ASSUME Subject PROVE MostlyZeroErrsOneWay
  <2> DEFINE Counted == {k \in Index : FirstByte(buffer[k]) # 0}
  <2>1. \A k \in Index : buffer[k] \in Nat
    BY <1>1 DEF Subject, Buffer
  <2>2. IsFiniteSet(NonzeroWords) /\ Cardinality(NonzeroWords) \in Nat
    <3>1. IsFiniteSet(Index)
      BY SizeAssumption, FS_Interval DEF Index
    <3> QED
      BY <3>1, FS_Subset, FS_CardinalityType DEF NonzeroWords
  <2>3. Counted \subseteq NonzeroWords
    <3>1. FirstByte(0) = 0
      BY DEF FirstByte
    <3> QED
      BY <3>1 DEF NonzeroWords
  <2>4. Cardinality(Counted) \in Nat /\ Cardinality(Counted) <= Cardinality(NonzeroWords)
    BY <2>2, <2>3, FS_Subset, FS_CardinalityType
  <2>5. ASSUME Timestamps PROVE Counted = NonzeroWords
    <3>1. \A k \in Index : buffer[k] # 0 => FirstByte(buffer[k]) # 0
      BY <2>1, <2>5, TimestampWordLarge DEF Timestamps, HasTimestamps
    <3> QED
      BY <2>3, <3>1 DEF NonzeroWords
  <2>6. MostlyZero <=> Cardinality(Counted) < MostlyZeroThreshold
    BY DEF MostlyZero, IsMostlyZero
  <2> HIDE DEF Counted
  <2> QED
    BY <2>2, <2>4, <2>5, <2>6 DEF MostlyZeroErrsOneWay, MostlyZeroThreshold
<1> QED
  BY <1>1, SubjectInvariant, PTL
=============================================================================
