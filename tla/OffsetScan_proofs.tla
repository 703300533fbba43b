-------------------------- MODULE OffsetScan_proofs --------------------------
(***************************************************************************)
(* Proofs about has_offsets, for buffers of any size holding any words and *)
(* for any value of the offset limit.                                      *)
(***************************************************************************)
EXTENDS OffsetScan, Sums_proofs

USE SizeAssumption, MaxOffsetAssumption, SubjectsAssumption
-----------------------------------------------------------------------------
(***************************************************************************)
(* What the cumulative check of the second loop amounts to.  A table is    *)
(* compactable if its chunks can be moved down, in the order of their      *)
(* offsets, to sectors where none overlaps another or the header.          *)
(* has_offsets accepts exactly the well-formed tables that are.            *)
(***************************************************************************)
Placements(buf) == [Chunks(buf) -> FirstChunkSector .. MaxOffset]

Compacts(place, buf) ==
  /\ \A k \in Chunks(buf) : place[k] <= ChunkOffset(buf[k])
  /\ \A j, k \in Chunks(buf) :
       ChunkOffset(buf[j]) < ChunkOffset(buf[k])
         => place[j] + ChunkLength(buf[j]) <= place[k]

Compactable(buf) == \E place \in Placements(buf) : Compacts(place, buf)

AcceptsExactlyCompactable ==
  /\ pc = "accepted" => WellFormed(buffer) /\ Compactable(buffer)
  /\ pc = "rejected" => ~(WellFormed(buffer) /\ Compactable(buffer))

(***************************************************************************)
(* The inductive invariant.  First, what the first loop knows of the words *)
(* it has read: the map holds the chunks among them and nothing else.      *)
(***************************************************************************)
Read == 0 .. next - 1
ReadChunks == {k \in Read : ChunkLength(buffer[k]) > 0}

PrefixInRange == \A k \in Read : ChunkOffset(buffer[k]) <= MaxOffset

PrefixNoRepeat ==
  \A j \in ReadChunks : \A k \in Read :
    j < k => ChunkOffset(buffer[j]) # ChunkOffset(buffer[k])

MapHoldsChunks ==
  \A k \in ReadChunks :
    /\ ChunkOffset(buffer[k]) \in DOMAIN chunk_length
    /\ chunk_length[ChunkOffset(buffer[k])] = ChunkLength(buffer[k])

MapHoldsOnlyChunks ==
  \A o \in DOMAIN chunk_length : \E k \in ReadChunks : ChunkOffset(buffer[k]) = o

CountIsChunks == offset_count = Cardinality(ReadChunks)

PrefixInv ==
  /\ PrefixInRange
  /\ PrefixNoRepeat
  /\ MapHoldsChunks
  /\ MapHoldsOnlyChunks
  /\ CountIsChunks

(***************************************************************************)
(* Then, what the second loop knows: it visits the keys in order, the      *)
(* chunks it has visited are compacted below min_allowed_offset, and no    *)
(* placement of the table can put the others any lower.                    *)
(***************************************************************************)
Visited == DOMAIN chunk_length \ unvisited

KeysInOrder == \A o \in Visited, p \in unvisited : o < p

VisitedCompacted ==
  \E place \in [Visited -> FirstChunkSector .. MaxOffset] :
    /\ \A o \in Visited : /\ place[o] <= o
                          /\ place[o] + chunk_length[o] <= min_allowed_offset
    /\ \A o, p \in Visited : o < p => place[o] + chunk_length[o] <= place[p]

NoLowerPlacement ==
  \A place \in Placements(buffer) :
    Compacts(place, buffer) =>
      \A k \in Chunks(buffer) :
        ChunkOffset(buffer[k]) \in unvisited => min_allowed_offset <= place[k]

SweepInv ==
  /\ next = Size
  /\ offset_count >= MinChunks
  /\ min_allowed_offset >= FirstChunkSector
  /\ KeysInOrder
  /\ VisitedCompacted
  /\ NoLowerPlacement

IInv ==
  /\ TypeOK
  /\ pc = "fields" => PrefixInv /\ min_allowed_offset = FirstChunkSector
  /\ pc = "lengths" => PrefixInv /\ SweepInv
  /\ AcceptsExactlyCompactable
-----------------------------------------------------------------------------
(***************************************************************************)
(* The parts of a word are what their names say.                           *)
(***************************************************************************)
LEMMA WordParts ==
  ASSUME NEW w \in Nat
  PROVE  /\ ChunkOffset(w) \in Nat
         /\ ChunkLength(w) \in 0 .. 255
BY DEF ChunkOffset, ChunkLength

(***************************************************************************)
(* The chunks read are finitely many, no more than the words read, and     *)
(* reading the next word adds it to them if it is a chunk.                 *)
(***************************************************************************)
LEMMA ReadChunksFinite ==
  ASSUME TypeOK
  PROVE  /\ IsFiniteSet(ReadChunks)
         /\ Cardinality(ReadChunks) \in Nat
         /\ Cardinality(ReadChunks) <= next
<1>1. next \in Nat
  BY DEF TypeOK
<1>2. IsFiniteSet(Read) /\ Cardinality(Read) = next
  BY <1>1, FS_Interval, SMT DEF Read
<1>3. ReadChunks \in SUBSET Read
  BY DEF ReadChunks
<1>4. QED
  BY <1>1, <1>2, <1>3, FS_Subset, FS_CardinalityType

LEMMA AllRead ==
  ASSUME next = Size
  PROVE  ReadChunks = Chunks(buffer) /\ Read = Index
BY DEF ReadChunks, Read, Chunks, Index

LEMMA NextWord ==
  ASSUME TypeOK, next < Size
  PROVE  /\ next \in Index
         /\ Offset \in Nat
         /\ Length \in 0 .. 255
<1>1. next \in Index /\ buffer[next] \in Nat
  BY DEF TypeOK, Index, Buffer
<1>2. QED
  BY <1>1, WordParts DEF Offset, Length

(***************************************************************************)
(* The call starts in the invariant: no word has been read.                *)
(***************************************************************************)
LEMMA InitIInv == Init => IInv
<1> SUFFICES ASSUME Init PROVE IInv
  OBVIOUS
<1>1. TypeOK
  <2>1. DOMAIN chunk_length = {} /\ chunk_length \in [{} -> 1 .. 255]
    BY DEF Init
  <2>2. buffer \in Buffer
    BY DEF Init, Buffer
  <2>3. QED
    BY <2>1, <2>2 DEF Init, TypeOK, FirstChunkSector
<1>2. Read = {} /\ ReadChunks = {}
  BY DEF Init, Read, ReadChunks
<1>3. PrefixInv
  BY <1>2, FS_EmptySet
     DEF Init, PrefixInv, PrefixInRange, PrefixNoRepeat, MapHoldsChunks,
         MapHoldsOnlyChunks, CountIsChunks
<1>4. QED
  BY <1>1, <1>3 DEF Init, IInv, AcceptsExactlyCompactable
-----------------------------------------------------------------------------
(***************************************************************************)
(* The first loop.  A word it rejects shows the table is not well formed.  *)
(***************************************************************************)
LEMMA RejectedFieldIllFormed ==
  ASSUME IInv, RejectField
  PROVE  ~WellFormed(buffer)
<1>1. TypeOK /\ PrefixInv
  BY DEF IInv, RejectField
<1>2. next \in Index /\ Offset \in Nat
  BY <1>1, NextWord DEF RejectField
<1>3. CASE Offset > MaxOffset
  BY <1>2, <1>3 DEF WellFormed, OffsetsInRange, Offset
<1>4. CASE Offset \in DOMAIN chunk_length
  <2>1. PICK j \in ReadChunks : ChunkOffset(buffer[j]) = Offset
    BY <1>1, <1>4 DEF PrefixInv, MapHoldsOnlyChunks
  <2>2. j \in Chunks(buffer) /\ j < next
    BY <1>1 DEF ReadChunks, Read, Chunks, Index, TypeOK
  <2>3. QED
    BY <1>2, <2>1, <2>2 DEF WellFormed, NoRepeatedOffset, Offset
<1>5. QED
  BY <1>2, <1>3, <1>4 DEF RejectField, Acceptable

LEMMA RejectFieldIInv == IInv /\ RejectField => IInv'
<1> SUFFICES ASSUME IInv, RejectField PROVE IInv'
  OBVIOUS
<1>1. TypeOK'
  BY DEF IInv, RejectField, TypeOK
<1>2. AcceptsExactlyCompactable'
  BY RejectedFieldIllFormed DEF RejectField, AcceptsExactlyCompactable
<1>3. QED
  BY <1>1, <1>2 DEF IInv, RejectField

(***************************************************************************)
(* An entry that passes the checks repeats no chunk before it and is in    *)
(* range, which is what the prefix conditions ask of one word more.        *)
(***************************************************************************)
LEMMA PrefixGrows ==
  ASSUME TypeOK, PrefixInv, next < Size, Acceptable,
         next' = next + 1, buffer' = buffer
  PROVE  /\ PrefixInRange'
         /\ PrefixNoRepeat'
         /\ Read' = Read \cup {next}
<1>1. next \in Nat /\ next \in Index /\ Offset \in Nat
  BY NextWord DEF TypeOK
<1>2. Read' = Read \cup {next}
  BY <1>1 DEF Read
<1>3. PrefixInRange'
  BY <1>2 DEF PrefixInv, PrefixInRange, Acceptable, Offset
<1>4. PrefixNoRepeat'
  <2> SUFFICES ASSUME NEW j \in ReadChunks', NEW k \in Read', j < k
               PROVE  ChunkOffset(buffer[j]) # ChunkOffset(buffer[k])
    BY DEF PrefixNoRepeat
  <2>1. j \in ReadChunks /\ (k \in Read \/ k = next)
    BY <1>1, <1>2 DEF ReadChunks, Read
  <2>2. CASE k \in Read
    BY <2>1, <2>2 DEF PrefixInv, PrefixNoRepeat
  <2>3. CASE k = next
    BY <2>1, <2>3 DEF PrefixInv, MapHoldsChunks, Acceptable, Offset
  <2>4. QED
    BY <2>1, <2>2, <2>3
<1>5. QED
  BY <1>2, <1>3, <1>4

LEMMA SkipEmptyFieldIInv == IInv /\ SkipEmptyField => IInv'
<1> SUFFICES ASSUME IInv, SkipEmptyField PROVE IInv'
  OBVIOUS
<1>1. TypeOK /\ PrefixInv /\ pc = "fields"
  BY DEF IInv, SkipEmptyField
<1>2. PrefixInRange' /\ PrefixNoRepeat' /\ Read' = Read \cup {next}
  BY <1>1, PrefixGrows DEF SkipEmptyField
<1>3. ReadChunks' = ReadChunks
  BY <1>2 DEF ReadChunks, SkipEmptyField, Length
<1>4. TypeOK'
  BY <1>1 DEF SkipEmptyField, TypeOK
<1>5. PrefixInv'
  BY <1>1, <1>2, <1>3
     DEF SkipEmptyField, PrefixInv, MapHoldsChunks, MapHoldsOnlyChunks, CountIsChunks
<1>6. QED
  BY <1>1, <1>4, <1>5 DEF IInv, SkipEmptyField, AcceptsExactlyCompactable

LEMMA RecordFieldIInv == IInv /\ RecordField => IInv'
<1> SUFFICES ASSUME IInv, RecordField PROVE IInv'
  OBVIOUS
<1>1. TypeOK /\ PrefixInv /\ pc = "fields" /\ next < Size /\ Acceptable
  BY DEF IInv, RecordField
<1>2. PrefixInRange' /\ PrefixNoRepeat' /\ Read' = Read \cup {next}
  BY <1>1, PrefixGrows DEF RecordField
<1>3. next \in Index /\ Offset \in 0 .. MaxOffset /\ Length \in 1 .. 255
  BY <1>1, NextWord DEF RecordField, Acceptable
<1>4. ReadChunks' = ReadChunks \cup {next} /\ next \notin ReadChunks
  BY <1>1, <1>2, <1>3 DEF ReadChunks, Read, RecordField, Length, Index
<1>5. /\ DOMAIN chunk_length' = DOMAIN chunk_length \cup {Offset}
      /\ chunk_length'[Offset] = Length
      /\ \A o \in DOMAIN chunk_length : chunk_length'[o] = chunk_length[o]
  BY <1>1 DEF RecordField, Acceptable
<1>6. CountIsChunks'
  <2>1. IsFiniteSet(ReadChunks)
    BY <1>1, ReadChunksFinite
  <2>2. Cardinality(ReadChunks \cup {next}) = Cardinality(ReadChunks) + 1
    BY <1>4, <2>1, FS_AddElement
  <2>3. QED
    BY <1>1, <1>4, <2>2 DEF RecordField, PrefixInv, CountIsChunks
<1>7. TypeOK'
  <2>1. DOMAIN chunk_length' \subseteq 0 .. MaxOffset
    BY <1>1, <1>3, <1>5 DEF TypeOK
  <2>2. chunk_length' \in [DOMAIN chunk_length' -> 1 .. 255]
    <3>1. chunk_length \in [DOMAIN chunk_length -> 1 .. 255]
      BY <1>1 DEF TypeOK
    <3>2. QED
      BY <1>3, <3>1 DEF RecordField
  <2>3. offset_count' \in 0 .. Size
    BY <1>1, <1>3, ReadChunksFinite
       DEF RecordField, PrefixInv, CountIsChunks, TypeOK
  <2>4. QED
    BY <1>1, <1>5, <2>1, <2>2, <2>3 DEF RecordField, TypeOK
<1>8. MapHoldsChunks'
  <2> SUFFICES ASSUME NEW k \in ReadChunks'
               PROVE  /\ ChunkOffset(buffer[k]) \in DOMAIN chunk_length'
                      /\ chunk_length'[ChunkOffset(buffer[k])] = ChunkLength(buffer[k])
    BY DEF MapHoldsChunks, RecordField
  <2>1. CASE k \in ReadChunks
    BY <1>1, <1>5, <2>1 DEF PrefixInv, MapHoldsChunks
  <2>2. CASE k = next
    BY <1>5, <2>2 DEF Offset, Length
  <2>3. QED
    BY <1>4, <2>1, <2>2
<1>9. MapHoldsOnlyChunks'
  <2> SUFFICES ASSUME NEW o \in DOMAIN chunk_length'
               PROVE  \E k \in ReadChunks' : ChunkOffset(buffer[k]) = o
    BY DEF MapHoldsOnlyChunks, RecordField
  <2>1. CASE o \in DOMAIN chunk_length
    BY <1>1, <1>4, <2>1 DEF PrefixInv, MapHoldsOnlyChunks
  <2>2. CASE o = Offset
    BY <1>4, <2>2 DEF Offset
  <2>3. QED
    BY <1>5, <2>1, <2>2
<1>10. QED
  BY <1>1, <1>2, <1>6, <1>7, <1>8, <1>9
     DEF IInv, PrefixInv, RecordField, AcceptsExactlyCompactable

(***************************************************************************)
(* Between the loops.                                                      *)
(***************************************************************************)
LEMMA SparseTableIllFormed ==
  ASSUME IInv, RejectSparseTable
  PROVE  ~WellFormed(buffer)
<1>1. TypeOK /\ PrefixInv
  BY DEF IInv, RejectSparseTable
<1>2. Cardinality(Chunks(buffer)) = offset_count /\ offset_count \in Nat
  BY <1>1, AllRead DEF RejectSparseTable, PrefixInv, CountIsChunks, TypeOK
<1>3. QED
  BY <1>2 DEF RejectSparseTable, WellFormed, MinChunks

LEMMA RejectSparseTableIInv == IInv /\ RejectSparseTable => IInv'
<1> SUFFICES ASSUME IInv, RejectSparseTable PROVE IInv'
  OBVIOUS
<1>1. TypeOK'
  BY DEF IInv, RejectSparseTable, TypeOK
<1>2. AcceptsExactlyCompactable'
  BY SparseTableIllFormed DEF RejectSparseTable, AcceptsExactlyCompactable
<1>3. QED
  BY <1>1, <1>2 DEF IInv, RejectSparseTable

LEMMA EnterLengthLoopIInv == IInv /\ EnterLengthLoop => IInv'
<1> SUFFICES ASSUME IInv, EnterLengthLoop PROVE IInv'
  OBVIOUS
<1>1. /\ TypeOK /\ PrefixInv /\ next = Size /\ offset_count >= MinChunks
      /\ min_allowed_offset = FirstChunkSector
  BY DEF IInv, EnterLengthLoop
<1>2. TypeOK'
  BY <1>1 DEF EnterLengthLoop, TypeOK
<1>3. PrefixInv'
  BY <1>1 DEF EnterLengthLoop, PrefixInv, PrefixInRange, PrefixNoRepeat,
              MapHoldsChunks, MapHoldsOnlyChunks, CountIsChunks, ReadChunks, Read
<1>4. Visited' = {}
  BY DEF EnterLengthLoop, Visited
<1>5. KeysInOrder'
  BY <1>4 DEF KeysInOrder
<1>6. VisitedCompacted'
  <2>1. [o \in {} |-> FirstChunkSector] \in [Visited' -> FirstChunkSector .. MaxOffset]
    BY <1>4
  <2>2. QED
    BY <1>4, <2>1 DEF VisitedCompacted
<1>7. NoLowerPlacement'
  <2> SUFFICES ASSUME NEW place \in Placements(buffer), NEW k \in Chunks(buffer)
               PROVE  FirstChunkSector <= place[k]
    BY <1>1 DEF NoLowerPlacement, EnterLengthLoop
  <2>1. QED
    BY DEF Placements, FirstChunkSector
<1>8. QED
  BY <1>1, <1>2, <1>3, <1>5, <1>6, <1>7
     DEF IInv, SweepInv, EnterLengthLoop, AcceptsExactlyCompactable,
         FirstChunkSector
-----------------------------------------------------------------------------
(***************************************************************************)
(* The second loop.  Every key of the map is the offset of a chunk of the  *)
(* table, with its length, once all words are read.                        *)
(***************************************************************************)
LEMMA KeyIsChunk ==
  ASSUME TypeOK, PrefixInv, next = Size, NEW o \in DOMAIN chunk_length
  PROVE  \E k \in Chunks(buffer) : /\ ChunkOffset(buffer[k]) = o
                                   /\ ChunkLength(buffer[k]) = chunk_length[o]
BY AllRead DEF PrefixInv, MapHoldsOnlyChunks, MapHoldsChunks

LEMMA ChunkIsKey ==
  ASSUME TypeOK, PrefixInv, next = Size, NEW k \in Chunks(buffer)
  PROVE  /\ ChunkOffset(buffer[k]) \in DOMAIN chunk_length
         /\ chunk_length[ChunkOffset(buffer[k])] = ChunkLength(buffer[k])
BY AllRead DEF PrefixInv, MapHoldsChunks

LEMMA PrefixIsWellFormed ==
  ASSUME TypeOK, PrefixInv, next = Size, offset_count >= MinChunks
  PROVE  WellFormed(buffer)
BY AllRead DEF PrefixInv, PrefixInRange, PrefixNoRepeat, CountIsChunks,
               WellFormed, OffsetsInRange, NoRepeatedOffset

LEMMA SweepFacts ==
  ASSUME IInv, pc = "lengths", NEW o \in unvisited
  PROVE  /\ TypeOK /\ PrefixInv /\ SweepInv
         /\ o \in DOMAIN chunk_length
         /\ o \in 0 .. MaxOffset
         /\ chunk_length[o] \in 1 .. 255
         /\ min_allowed_offset \in Nat
BY DEF IInv, TypeOK

(***************************************************************************)
(* A chunk below min_allowed_offset has no sector to go to: every          *)
(* placement puts it at min_allowed_offset or above.                       *)
(***************************************************************************)
LEMMA RejectLengthIInv ==
  ASSUME IInv, NEW o \in unvisited, RejectLength(o)
  PROVE  IInv'
<1>1. /\ TypeOK /\ PrefixInv /\ SweepInv /\ next = Size
      /\ o \in DOMAIN chunk_length /\ o \in 0 .. MaxOffset
      /\ min_allowed_offset \in Nat /\ o < min_allowed_offset
  BY SweepFacts DEF RejectLength, SweepInv
<1>2. PICK k \in Chunks(buffer) : ChunkOffset(buffer[k]) = o
  BY <1>1, KeyIsChunk
<1>3. ~Compactable(buffer)
  <2> SUFFICES ASSUME NEW place \in Placements(buffer), Compacts(place, buffer)
               PROVE  FALSE
    BY DEF Compactable
  <2>1. place[k] <= o /\ place[k] \in Nat
    BY <1>2 DEF Compacts, Placements, FirstChunkSector
  <2>2. min_allowed_offset <= place[k]
    BY <1>1, <1>2 DEF SweepInv, NoLowerPlacement
  <2>3. QED
    BY <1>1, <2>1, <2>2
<1>4. QED
  BY <1>1, <1>3 DEF IInv, RejectLength, TypeOK, AcceptsExactlyCompactable

(***************************************************************************)
(* A chunk that fits is compacted to min_allowed_offset itself.            *)
(***************************************************************************)
LEMMA VisitCompacts ==
  ASSUME IInv, NEW o \in unvisited, VisitLength(o)
  PROVE  VisitedCompacted'
<1>1. /\ TypeOK /\ SweepInv
      /\ o \in DOMAIN chunk_length /\ o \in 0 .. MaxOffset
      /\ chunk_length[o] \in 1 .. 255
      /\ min_allowed_offset \in Nat /\ min_allowed_offset <= o
      /\ FirstChunkSector <= min_allowed_offset
  BY SweepFacts DEF VisitLength, SweepInv
<1>2. PICK place \in [Visited -> FirstChunkSector .. MaxOffset] :
        /\ \A p \in Visited : /\ place[p] <= p
                              /\ place[p] + chunk_length[p] <= min_allowed_offset
        /\ \A p, q \in Visited : p < q => place[p] + chunk_length[p] <= place[q]
  BY <1>1 DEF SweepInv, VisitedCompacted
<1>3. /\ Visited' = Visited \cup {o} /\ o \notin Visited
      /\ \A p \in Visited : p < o /\ p \in Nat /\ chunk_length[p] \in 1 .. 255
  BY <1>1 DEF VisitLength, Visited, SweepInv, KeysInOrder, TypeOK
<1> DEFINE newPlace == [p \in Visited \cup {o} |->
                          IF p = o THEN min_allowed_offset ELSE place[p]]
<1>4. newPlace \in [Visited' -> FirstChunkSector .. MaxOffset]
  BY <1>1, <1>3 DEF FirstChunkSector
<1>5. ASSUME NEW p \in Visited'
      PROVE  /\ newPlace[p] <= p
             /\ newPlace[p] + chunk_length[p] <= min_allowed_offset + chunk_length[o]
  <2>1. CASE p = o
    BY <1>1, <2>1
  <2>2. CASE p \in Visited
    <3>1. newPlace[p] = place[p] /\ place[p] \in Nat
      BY <1>3, <2>2 DEF FirstChunkSector
    <3>2. place[p] <= p /\ place[p] + chunk_length[p] <= min_allowed_offset
      BY <1>2, <2>2
    <3>3. chunk_length[p] \in Nat /\ chunk_length[o] \in Nat
      BY <1>1, <1>3, <2>2
    <3> HIDE DEF newPlace
    <3>4. QED
      BY <1>1, <3>1, <3>2, <3>3
  <2>3. QED
    BY <1>3, <2>1, <2>2
<1>6. ASSUME NEW p \in Visited', NEW q \in Visited', p < q
      PROVE  newPlace[p] + chunk_length[p] <= newPlace[q]
  <2>1. p \in Visited
    BY <1>1, <1>3, <1>6
  <2>2. newPlace[p] = place[p]
    BY <1>3, <2>1
  <2>3. CASE q = o
    BY <1>2, <2>1, <2>2, <2>3
  <2>4. CASE q \in Visited
    BY <1>2, <1>3, <1>6, <2>1, <2>2, <2>4
  <2>5. QED
    BY <1>3, <2>3, <2>4
<1>7. /\ chunk_length' = chunk_length
      /\ min_allowed_offset' = min_allowed_offset + chunk_length[o]
  BY DEF VisitLength
<1> HIDE DEF newPlace
<1>8. QED
  BY <1>4, <1>5, <1>6, <1>7 DEF VisitedCompacted

(***************************************************************************)
(* The chunks left are above it, so a placement puts them after its end.   *)
(***************************************************************************)
LEMMA VisitNoLower ==
  ASSUME IInv, NEW o \in unvisited, VisitLength(o)
  PROVE  NoLowerPlacement'
<1>1. /\ TypeOK /\ PrefixInv /\ SweepInv /\ next = Size
      /\ o \in DOMAIN chunk_length /\ o \in 0 .. MaxOffset
      /\ chunk_length[o] \in 1 .. 255 /\ min_allowed_offset \in Nat
  BY SweepFacts DEF VisitLength, SweepInv
<1>2. PICK m \in Chunks(buffer) : /\ ChunkOffset(buffer[m]) = o
                                  /\ ChunkLength(buffer[m]) = chunk_length[o]
  BY <1>1, KeyIsChunk
<1>3. SUFFICES ASSUME NEW place \in Placements(buffer), Compacts(place, buffer),
                      NEW k \in Chunks(buffer),
                      ChunkOffset(buffer[k]) \in unvisited \ {o}
               PROVE  min_allowed_offset + chunk_length[o] <= place[k]
  BY DEF VisitLength, NoLowerPlacement
<1>4. o < ChunkOffset(buffer[k])
  BY <1>1, <1>3 DEF VisitLength, IsNextKey, TypeOK
<1>5. place[m] + chunk_length[o] <= place[k]
  BY <1>2, <1>3, <1>4 DEF Compacts
<1>6. min_allowed_offset <= place[m]
  BY <1>1, <1>2, <1>3 DEF SweepInv, NoLowerPlacement
<1>7. place[m] \in Nat /\ place[k] \in Nat
  BY DEF Placements, FirstChunkSector
<1>8. QED
  BY <1>1, <1>5, <1>6, <1>7

LEMMA VisitLengthIInv ==
  ASSUME IInv, NEW o \in unvisited, VisitLength(o)
  PROVE  IInv'
<1>1. /\ TypeOK /\ PrefixInv /\ SweepInv
      /\ o \in DOMAIN chunk_length /\ o \in 0 .. MaxOffset
      /\ chunk_length[o] \in 1 .. 255 /\ min_allowed_offset \in Nat
      /\ pc = "lengths"
  BY SweepFacts DEF VisitLength
<1>2. TypeOK'
  BY <1>1 DEF VisitLength, TypeOK
<1>3. PrefixInv'
  BY <1>1 DEF VisitLength, PrefixInv, PrefixInRange, PrefixNoRepeat,
              MapHoldsChunks, MapHoldsOnlyChunks, CountIsChunks, ReadChunks, Read
<1>4. KeysInOrder'
  BY <1>1 DEF VisitLength, SweepInv, KeysInOrder, Visited, IsNextKey, TypeOK
<1>5. VisitedCompacted' /\ NoLowerPlacement'
  BY VisitCompacts, VisitNoLower
<1>6. min_allowed_offset' >= FirstChunkSector
  BY <1>1 DEF VisitLength, SweepInv, FirstChunkSector
<1>7. QED
  BY <1>1, <1>2, <1>3, <1>4, <1>5, <1>6
     DEF IInv, SweepInv, VisitLength, AcceptsExactlyCompactable

(***************************************************************************)
(* When every key is visited, the compacted keys place the table's chunks. *)
(***************************************************************************)
LEMMA AcceptIInv == IInv /\ Accept => IInv'
<1> SUFFICES ASSUME IInv, Accept PROVE IInv'
  OBVIOUS
<1>1. TypeOK /\ PrefixInv /\ SweepInv /\ next = Size /\ offset_count >= MinChunks
  BY DEF IInv, Accept, SweepInv
<1>2. Visited = DOMAIN chunk_length
  BY DEF Accept, Visited
<1>3. PICK place \in [Visited -> FirstChunkSector .. MaxOffset] :
        /\ \A p \in Visited : place[p] <= p
        /\ \A p, q \in Visited : p < q => place[p] + chunk_length[p] <= place[q]
  BY <1>1 DEF SweepInv, VisitedCompacted
<1> DEFINE byChunk == [k \in Chunks(buffer) |-> place[ChunkOffset(buffer[k])]]
<1>4. \A k \in Chunks(buffer) :
        /\ ChunkOffset(buffer[k]) \in Visited
        /\ chunk_length[ChunkOffset(buffer[k])] = ChunkLength(buffer[k])
  BY <1>1, <1>2, ChunkIsKey
<1>5. byChunk \in Placements(buffer)
  BY <1>4 DEF Placements
<1>6. Compacts(byChunk, buffer)
  BY <1>3, <1>4 DEF Compacts
<1>7. WellFormed(buffer) /\ Compactable(buffer)
  BY <1>1, <1>5, <1>6, PrefixIsWellFormed DEF Compactable
<1>8. QED
  BY <1>1, <1>7 DEF IInv, Accept, TypeOK, AcceptsExactlyCompactable
-----------------------------------------------------------------------------
(***************************************************************************)
(* The invariant holds throughout a call.                                  *)
(***************************************************************************)
LEMMA StutterIInv == IInv /\ UNCHANGED vars => IInv'
<1> SUFFICES ASSUME IInv, UNCHANGED vars PROVE IInv'
  OBVIOUS
<1>1. TypeOK'
  BY DEF vars, IInv, TypeOK
<1>2. PrefixInv => PrefixInv'
  BY DEF vars, PrefixInv, PrefixInRange, PrefixNoRepeat, MapHoldsChunks,
         MapHoldsOnlyChunks, CountIsChunks, ReadChunks, Read
<1>3. SweepInv => SweepInv'
  BY DEF vars, SweepInv, KeysInOrder, VisitedCompacted, NoLowerPlacement, Visited
<1>4. AcceptsExactlyCompactable'
  BY DEF vars, IInv, AcceptsExactlyCompactable
<1>5. QED
  BY <1>1, <1>2, <1>3, <1>4 DEF vars, IInv

LEMMA StepIInv == IInv /\ [Next]_vars => IInv'
<1> SUFFICES ASSUME IInv, [Next]_vars PROVE IInv'
  OBVIOUS
<1>1. ASSUME NEW o \in unvisited, RejectLength(o) \/ VisitLength(o) PROVE IInv'
  BY <1>1, RejectLengthIInv, VisitLengthIInv
<1>2. CASE Returned
  BY <1>2, StutterIInv DEF Returned
<1>3. CASE UNCHANGED vars
  BY <1>3, StutterIInv
<1>4. QED
  BY <1>1, <1>2, <1>3, RejectFieldIInv, SkipEmptyFieldIInv, RecordFieldIInv,
     RejectSparseTableIInv, EnterLengthLoopIInv, AcceptIInv DEF Next

THEOREM Invariance == Spec => []IInv
BY InitIInv, StepIInv, PTL DEF Spec

(***************************************************************************)
(* Type correctness of has_offsets: the loop stays inside the buffer, the  *)
(* map holds offsets within the limit with lengths of a nonzero byte, and  *)
(* the count of chunks never exceeds the number of words.                  *)
(***************************************************************************)
THEOREM TypeCorrect == Spec => []TypeOK
<1>1. IInv => TypeOK
  BY DEF IInv
<1>2. QED
  BY <1>1, Invariance, PTL

(***************************************************************************)
(* A table that passes the documented check is compacted where it is.      *)
(***************************************************************************)
LEMMA ChunkParts ==
  ASSUME NEW buf \in Buffer, NEW k \in Chunks(buf)
  PROVE  ChunkOffset(buf[k]) \in Nat /\ ChunkLength(buf[k]) \in 1 .. 255
BY WordParts DEF Chunks, Buffer

LEMMA DocumentedIsCompactable ==
  ASSUME NEW buf \in Buffer, AsDocumented(buf)
  PROVE  Compactable(buf)
<1> DEFINE place == [k \in Chunks(buf) |-> ChunkOffset(buf[k])]
<1>1. \A k \in Chunks(buf) : ChunkOffset(buf[k]) \in FirstChunkSector .. MaxOffset
  BY ChunkParts DEF AsDocumented, WellFormed, OffsetsInRange, ClearOfHeader, Chunks,
                    FirstChunkSector
<1>2. place \in Placements(buf)
  BY <1>1 DEF Placements
<1>3. Compacts(place, buf)
  <2>1. ASSUME NEW j \in Chunks(buf), NEW k \in Chunks(buf),
               ChunkOffset(buf[j]) < ChunkOffset(buf[k])
        PROVE  ChunkOffset(buf[j]) + ChunkLength(buf[j]) <= ChunkOffset(buf[k])
    BY <2>1, ChunkParts DEF AsDocumented, LengthsFit, RunsInto
  <2>2. QED
    BY <2>1, ChunkParts DEF Compacts
<1>4. QED
  BY <1>2, <1>3 DEF Compactable

(***************************************************************************)
(* A placement of the chunks leaves free what it moves them away from: if  *)
(* chunk j runs into chunk k, it is moved down; of the chunks that are     *)
(* moved down, the first one has a free sector just before it.             *)
(***************************************************************************)
LEMMA OverlapNeedsGap ==
  ASSUME NEW buf \in Buffer, NEW place \in Placements(buf), Compacts(place, buf),
         NEW j \in Chunks(buf), NEW k \in Chunks(buf), RunsInto(buf, j, k)
  PROVE  GapBelow(buf, k)
<1> DEFINE off(i) == ChunkOffset(buf[i])
           len(i) == ChunkLength(buf[i])
           Moved == {n \in Nat : \E i \in Chunks(buf) : off(i) = n /\ place[i] < n}
<1>1. \A i \in Chunks(buf) : /\ off(i) \in Nat /\ len(i) \in 1 .. 255
                             /\ place[i] \in Nat /\ place[i] >= 2 /\ place[i] <= off(i)
  BY ChunkParts DEF Placements, Compacts, FirstChunkSector
<1>2. \A i, l \in Chunks(buf) : off(i) < off(l) => place[i] + len(i) <= place[l]
  BY DEF Compacts
<1>3. off(j) < off(k) /\ off(j) + len(j) > off(k)
  BY DEF RunsInto
<1> HIDE DEF off, len
<1>4. off(j) \in Moved
  BY <1>1, <1>2, <1>3
<1>5. PICK n \in Moved : \A l \in Moved : n <= l
  <2>1. Moved \in SUBSET Nat
    OBVIOUS
  <2> HIDE DEF Moved
  <2> QED
    BY <1>4, <2>1, LeastNumber
<1>6. PICK m \in Chunks(buf) : off(m) = n /\ place[m] < n
  BY <1>5
<1>7. n \in Nat /\ n <= off(j) /\ n - 1 >= 2 /\ place[m] <= n - 1
  BY <1>1, <1>4, <1>5, <1>6
<1>8. n - 1 \in FirstChunkSector .. off(k) - 1
  BY <1>1, <1>3, <1>7 DEF FirstChunkSector
<1>9. ASSUME NEW i \in Chunks(buf)
      PROVE  n - 1 \notin off(i) .. off(i) + len(i) - 1
  <2>1. CASE off(i) >= n
    BY <1>1, <1>7, <2>1
  <2>2. CASE off(i) < n
    <3>1. off(i) \notin Moved
      BY <1>1, <1>5, <1>7, <2>2
    <3>2. place[i] = off(i)
      BY <1>1, <3>1
    <3>3. place[i] + len(i) <= place[m]
      BY <1>2, <1>6, <2>2
    <3> QED
      BY <1>1, <1>6, <1>7, <3>2, <3>3
  <2> QED
    BY <1>1, <1>7, <2>1, <2>2
<1>10. QED
  BY <1>8, <1>9 DEF GapBelow, Sectors, off, len

LEMMA PlacedClearOfHeader ==
  ASSUME NEW buf \in Buffer, Compactable(buf)
  PROVE  ClearOfHeader(buf)
<1>1. PICK place \in Placements(buf) : Compacts(place, buf)
  BY DEF Compactable
<1>2. QED
  BY <1>1, ChunkParts DEF Placements, Compacts, ClearOfHeader, FirstChunkSector

(***************************************************************************)
(* The verdict differs from the documented check only on tables where a    *)
(* chunk runs into another one above a free sector.                        *)
(***************************************************************************)
THEOREM GapsAreAllThatDiffers == Spec => []DiffersOnlyBehindGaps
<1>1. IInv => DiffersOnlyBehindGaps
  <2> SUFFICES ASSUME IInv PROVE DiffersOnlyBehindGaps
    OBVIOUS
  <2>1. buffer \in Buffer /\ AcceptsExactlyCompactable
    BY DEF IInv, TypeOK
  <2>2. ASSUME pc = "rejected" PROVE ~AsDocumented(buffer)
    BY <2>1, <2>2, DocumentedIsCompactable DEF AcceptsExactlyCompactable, AsDocumented
  <2>3. ASSUME pc = "accepted"
        PROVE  /\ WellFormed(buffer) /\ ClearOfHeader(buffer)
               /\ \A j, k \in Chunks(buffer) :
                    RunsInto(buffer, j, k) => GapBelow(buffer, k)
    <3>1. WellFormed(buffer) /\ Compactable(buffer)
      BY <2>1, <2>3 DEF AcceptsExactlyCompactable
    <3>2. QED
      BY <2>1, <3>1, PlacedClearOfHeader, OverlapNeedsGap DEF Compactable
  <2>4. QED
    BY <2>2, <2>3 DEF DiffersOnlyBehindGaps
<1>2. QED
  BY <1>1, Invariance, PTL

(***************************************************************************)
(* Chunks of a region file are compacted where they are: they overlap      *)
(* neither the header nor one another.                                     *)
(***************************************************************************)
LEMMA RegionHeaderIsCompactable ==
  ASSUME NEW buf \in Buffer, RegionHeader(buf)
  PROVE  Compactable(buf)
<1> DEFINE place == [k \in Chunks(buf) |-> ChunkOffset(buf[k])]
<1>1. \A k \in Chunks(buf) : /\ ChunkOffset(buf[k]) \in FirstChunkSector .. MaxOffset
                             /\ ChunkLength(buf[k]) \in 1 .. 255
  BY WordParts DEF RegionHeader, Chunks, Buffer
<1>2. place \in Placements(buf)
  BY <1>1 DEF Placements
<1>3. Compacts(place, buf)
  <2> SUFFICES ASSUME NEW j \in Chunks(buf), NEW k \in Chunks(buf),
                      ChunkOffset(buf[j]) < ChunkOffset(buf[k])
               PROVE  ChunkOffset(buf[j]) + ChunkLength(buf[j]) <= ChunkOffset(buf[k])
    BY <1>1 DEF Compacts, FirstChunkSector
  <2>1. j # k
    BY <1>1 DEF FirstChunkSector
  <2>2. \/ ChunkOffset(buf[j]) + ChunkLength(buf[j]) <= ChunkOffset(buf[k])
        \/ ChunkOffset(buf[k]) + ChunkLength(buf[k]) <= ChunkOffset(buf[j])
    BY <2>1 DEF RegionHeader, Disjoint
  <2>3. QED
    BY <1>1, <2>2 DEF FirstChunkSector
<1>4. QED
  BY <1>2, <1>3 DEF Compactable

LEMMA RegionHeaderIsWellFormed ==
  ASSUME NEW buf \in Buffer, RegionHeader(buf),
         Cardinality(Chunks(buf)) >= MinChunks
  PROVE  WellFormed(buf)
<1>1. \A k \in Chunks(buf) : /\ ChunkOffset(buf[k]) \in FirstChunkSector .. MaxOffset
                             /\ ChunkLength(buf[k]) \in 1 .. 255
  BY WordParts DEF RegionHeader, Chunks, Buffer
<1>2. \A k \in Index \ Chunks(buf) : ChunkOffset(buf[k]) = 0
  BY DEF RegionHeader, ChunkOffset
<1>3. OffsetsInRange(buf)
  BY <1>1, <1>2 DEF OffsetsInRange, FirstChunkSector
<1>4. NoRepeatedOffset(buf)
  <2> SUFFICES ASSUME NEW j \in Chunks(buf), NEW k \in Index, j < k
               PROVE  ChunkOffset(buf[j]) # ChunkOffset(buf[k])
    BY DEF NoRepeatedOffset
  <2>1. CASE k \in Chunks(buf)
    <3>1. j # k
      BY DEF Index
    <3>2. \/ ChunkOffset(buf[j]) + ChunkLength(buf[j]) <= ChunkOffset(buf[k])
          \/ ChunkOffset(buf[k]) + ChunkLength(buf[k]) <= ChunkOffset(buf[j])
      BY <2>1, <3>1 DEF RegionHeader, Disjoint
    <3>3. QED
      BY <1>1, <2>1, <3>2 DEF FirstChunkSector
  <2>2. CASE k \notin Chunks(buf)
    BY <1>1, <1>2, <2>2 DEF FirstChunkSector
  <2>3. QED
    BY <2>1, <2>2
<1>5. QED
  BY <1>3, <1>4 DEF WellFormed

(***************************************************************************)
(* has_offsets rejects no header of a region file of MinChunks chunks.     *)
(***************************************************************************)
THEOREM GenuineHeadersAccepted == Spec => []NoGenuineHeaderRejected
<1>1. IInv => NoGenuineHeaderRejected
  BY RegionHeaderIsCompactable, RegionHeaderIsWellFormed
     DEF IInv, TypeOK, AcceptsExactlyCompactable, NoGenuineHeaderRejected
<1>2. QED
  BY <1>1, Invariance, PTL
-----------------------------------------------------------------------------
(***************************************************************************)
(* The verdict is HasOffsets'.  What the second loop has added up is the   *)
(* length of the chunks it has visited, which are those at smaller offsets *)
(* than the next key's; and each of them passed the check when it was the  *)
(* next.                                                                   *)
(***************************************************************************)
LengthOf == [k \in Chunks(buffer) |-> ChunkLength(buffer[k])]
VisitedChunks == {k \in Chunks(buffer) : ChunkOffset(buffer[k]) \in Visited}

MinIsSum ==
  min_allowed_offset = FirstChunkSector + SumFunctionOnSet(LengthOf, VisitedChunks)

VisitedAllowed ==
  \A k \in VisitedChunks : ChunkOffset(buffer[k]) >= MinAllowedOffset(buffer, k)

VerdictInv ==
  /\ pc = "lengths" => MinIsSum /\ VisitedAllowed
  /\ VerdictExact

(***************************************************************************)
(* The sums are over finitely many chunks of positive length.              *)
(***************************************************************************)
LEMMA ChunkFacts ==
  ASSUME TypeOK
  PROVE  /\ IsFiniteSet(Chunks(buffer))
         /\ \A S \in SUBSET Chunks(buffer) : IsFiniteSet(S)
         /\ \A k \in Chunks(buffer) : /\ ChunkOffset(buffer[k]) \in Nat
                                      /\ LengthOf[k] \in Nat
                                      /\ LengthOf[k] = ChunkLength(buffer[k])
<1>1. IsFiniteSet(Index)
  BY FS_Interval, SMT DEF Index
<1>2. IsFiniteSet(Chunks(buffer))
  BY <1>1, FS_Subset DEF Chunks
<1>3. \A k \in Chunks(buffer) : buffer[k] \in Nat
  BY DEF TypeOK, Chunks, Buffer
<1>4. \A k \in Chunks(buffer) : ChunkOffset(buffer[k]) \in Nat /\ ChunkLength(buffer[k]) \in Nat
  <2>1. ASSUME NEW w \in Nat
        PROVE  ChunkOffset(w) \in Nat /\ ChunkLength(w) \in Nat
    <3>1. ChunkOffset(w) \in Nat /\ ChunkLength(w) \in 0 .. 255
      BY WordParts
    <3> QED
      BY <3>1
  <2>2. QED
    BY <1>3, <2>1
<1>5. \A S \in SUBSET Chunks(buffer) : IsFiniteSet(S)
  BY <1>2, FS_Subset
<1>6. QED
  BY <1>2, <1>4, <1>5 DEF LengthOf

(***************************************************************************)
(* The chunks at smaller offsets than the next key's are those visited.    *)
(***************************************************************************)
LEMMA NextKeyMinimum ==
  ASSUME IInv, VerdictInv, pc = "lengths", NEW o \in unvisited, IsNextKey(o),
         NEW k \in Chunks(buffer), ChunkOffset(buffer[k]) = o
  PROVE  MinAllowedOffset(buffer, k) = min_allowed_offset
<1>1. TypeOK /\ PrefixInv /\ SweepInv /\ next = Size
  BY DEF IInv, SweepInv
<1>2. \A j \in Chunks(buffer) : ChunkOffset(buffer[j]) \in DOMAIN chunk_length
  BY <1>1, ChunkIsKey
<1>3. \A p \in DOMAIN chunk_length : p < o <=> p \in Visited
  BY <1>1 DEF IsNextKey, Visited, SweepInv, KeysInOrder, TypeOK
<1>4. {j \in Chunks(buffer) : ChunkOffset(buffer[j]) < ChunkOffset(buffer[k])}
        = VisitedChunks
  BY <1>2, <1>3 DEF VisitedChunks
<1>5. QED
  BY <1>4 DEF MinAllowedOffset, VerdictInv, MinIsSum, LengthOf

(***************************************************************************)
(* Visiting a key visits one chunk: no offset is repeated.                 *)
(***************************************************************************)
LEMMA OneChunkPerKey ==
  ASSUME TypeOK, PrefixInv, next = Size, NEW j \in Chunks(buffer),
         NEW k \in Chunks(buffer), ChunkOffset(buffer[j]) = ChunkOffset(buffer[k])
  PROVE  j = k
<1>1. /\ j \in ReadChunks /\ k \in ReadChunks /\ j \in Read /\ k \in Read
      /\ j \in Int /\ k \in Int
  BY AllRead DEF ReadChunks, Read
<1>2. ~(j < k) /\ ~(k < j)
  BY <1>1 DEF PrefixInv, PrefixNoRepeat
<1>3. QED
  BY <1>1, <1>2

LEMMA VisitLengthVerdict ==
  ASSUME IInv, VerdictInv, NEW o \in unvisited, VisitLength(o)
  PROVE  VerdictInv'
<1>1. /\ TypeOK /\ PrefixInv /\ SweepInv /\ next = Size
      /\ o \in DOMAIN chunk_length /\ o \in 0 .. MaxOffset
      /\ chunk_length[o] \in 1 .. 255 /\ min_allowed_offset \in Nat
      /\ pc = "lengths" /\ IsNextKey(o) /\ o >= min_allowed_offset
  BY SweepFacts DEF VisitLength, SweepInv
<1>2. PICK m \in Chunks(buffer) : /\ ChunkOffset(buffer[m]) = o
                                  /\ ChunkLength(buffer[m]) = chunk_length[o]
  BY <1>1, KeyIsChunk
<1>3. Visited' = Visited \cup {o} /\ o \notin Visited
  BY <1>1 DEF VisitLength, Visited
<1>4. buffer' = buffer /\ LengthOf' = LengthOf
  BY DEF VisitLength, LengthOf
<1>5. VisitedChunks' = VisitedChunks \cup {m} /\ m \notin VisitedChunks
  <2>1. \A j \in Chunks(buffer) : ChunkOffset(buffer[j]) = o => j = m
    BY <1>1, <1>2, OneChunkPerKey
  <2>2. QED
    BY <1>2, <1>3, <1>4, <2>1 DEF VisitedChunks
<1>6. MinIsSum'
  <2>1. VisitedChunks \in SUBSET Chunks(buffer)
    BY DEF VisitedChunks
  <2>2. /\ IsFiniteSet(VisitedChunks)
        /\ \A k \in VisitedChunks \cup {m} : LengthOf[k] \in Nat
        /\ LengthOf[m] = chunk_length[o]
    BY <1>1, <1>2, <2>1, ChunkFacts
  <2>3. SumFunctionOnSet(LengthOf, VisitedChunks \cup {m})
          = LengthOf[m] + SumFunctionOnSet(LengthOf, VisitedChunks)
    BY <1>5, <2>2, SumAdd
  <2>4. SumFunctionOnSet(LengthOf, VisitedChunks) \in Nat
    BY <2>2, SumType
  <2>5. min_allowed_offset
          = FirstChunkSector + SumFunctionOnSet(LengthOf, VisitedChunks)
    BY <1>1 DEF VerdictInv, MinIsSum
  <2>6. min_allowed_offset' = min_allowed_offset + chunk_length[o]
    BY DEF VisitLength
  <2>7. QED
    BY <1>1, <1>4, <1>5, <2>2, <2>3, <2>4, <2>5, <2>6 DEF MinIsSum, FirstChunkSector
<1>7. VisitedAllowed'
  <2>1. ChunkOffset(buffer[m]) >= MinAllowedOffset(buffer, m)
    BY <1>1, <1>2, NextKeyMinimum
  <2>2. QED
    BY <1>1, <1>4, <1>5, <2>1 DEF VerdictInv, VisitedAllowed
<1>8. QED
  BY <1>1, <1>4, <1>6, <1>7 DEF VerdictInv, VisitLength, VerdictExact

LEMMA RejectLengthVerdict ==
  ASSUME IInv, VerdictInv, NEW o \in unvisited, RejectLength(o)
  PROVE  VerdictInv'
<1>1. /\ TypeOK /\ PrefixInv /\ SweepInv /\ next = Size
      /\ o \in DOMAIN chunk_length /\ o \in 0 .. MaxOffset
      /\ min_allowed_offset \in Nat
      /\ pc = "lengths" /\ IsNextKey(o) /\ ~(o >= min_allowed_offset)
  BY SweepFacts DEF RejectLength, SweepInv
<1>2. PICK m \in Chunks(buffer) : ChunkOffset(buffer[m]) = o
  BY <1>1, KeyIsChunk
<1>3. MinAllowedOffset(buffer, m) = min_allowed_offset
  BY <1>1, <1>2, NextKeyMinimum
<1>4. ~HasOffsets(buffer)
  BY <1>1, <1>2, <1>3 DEF HasOffsets
<1>5. QED
  BY <1>4 DEF RejectLength, VerdictInv, VerdictExact

LEMMA AcceptVerdict == IInv /\ VerdictInv /\ Accept => VerdictInv'
<1> SUFFICES ASSUME IInv, VerdictInv, Accept PROVE VerdictInv'
  OBVIOUS
<1>1. TypeOK /\ PrefixInv /\ SweepInv /\ next = Size /\ offset_count >= MinChunks
  BY DEF IInv, Accept, SweepInv
<1>2. VisitedChunks = Chunks(buffer)
  BY <1>1, ChunkIsKey DEF Accept, VisitedChunks, Visited
<1>3. \A k \in Chunks(buffer) : ChunkOffset(buffer[k]) >= MinAllowedOffset(buffer, k)
  BY <1>2 DEF Accept, VerdictInv, VisitedAllowed
<1>4. HasOffsets(buffer)
  BY <1>1, <1>3, PrefixIsWellFormed DEF HasOffsets, WellFormed
<1>5. QED
  BY <1>4 DEF Accept, VerdictInv, VerdictExact

(***************************************************************************)
(* A table rejected before the second loop is not well formed, and what    *)
(* the second loop starts with is the header.                              *)
(***************************************************************************)
LEMMA EnterLengthLoopVerdict == IInv /\ EnterLengthLoop => VerdictInv'
<1> SUFFICES ASSUME IInv, EnterLengthLoop PROVE VerdictInv'
  OBVIOUS
<1>1. VisitedChunks' = {}
  BY DEF EnterLengthLoop, VisitedChunks, Visited
<1>2. SumFunctionOnSet(LengthOf', VisitedChunks') = 0
  BY <1>1, SumEmpty
<1>3. MinIsSum'
  BY <1>2 DEF MinIsSum, IInv, EnterLengthLoop, FirstChunkSector
<1>4. QED
  BY <1>1, <1>3 DEF VerdictInv, VisitedAllowed, VerdictExact, EnterLengthLoop

LEMMA EarlyRejectionVerdict ==
  ASSUME IInv, RejectField \/ RejectSparseTable
  PROVE  VerdictInv'
<1>1. ~WellFormed(buffer)
  BY RejectedFieldIllFormed, SparseTableIllFormed
<1>2. ~HasOffsets(buffer)
  BY <1>1 DEF WellFormed, HasOffsets
<1>3. QED
  BY <1>2 DEF RejectField, RejectSparseTable, VerdictInv, VerdictExact

LEMMA StepVerdict == IInv /\ VerdictInv /\ [Next]_vars => VerdictInv'
<1> SUFFICES ASSUME IInv, VerdictInv, [Next]_vars PROVE VerdictInv'
  OBVIOUS
<1>1. CASE SkipEmptyField \/ RecordField
  BY <1>1 DEF SkipEmptyField, RecordField, VerdictInv, VerdictExact
<1>2. ASSUME NEW o \in unvisited, RejectLength(o) \/ VisitLength(o)
      PROVE  VerdictInv'
  BY <1>2, RejectLengthVerdict, VisitLengthVerdict
<1>3. CASE UNCHANGED vars
  BY <1>3 DEF vars, VerdictInv, VerdictExact, MinIsSum, VisitedAllowed, LengthOf,
              VisitedChunks, Visited
<1>4. CASE Returned
  BY <1>3, <1>4 DEF Returned
<1>5. QED
  BY <1>1, <1>2, <1>3, <1>4, EarlyRejectionVerdict, EnterLengthLoopVerdict,
     AcceptVerdict DEF Next

(***************************************************************************)
(* The two loops, with their early returns, return HasOffsets of the       *)
(* buffer: what mcarve's scan uses in their place.                         *)
(***************************************************************************)
THEOREM VerdictIsHasOffsets == Spec => []VerdictExact
<1>1. Init => VerdictInv
  BY DEF Init, VerdictInv, VerdictExact
<1>2. VerdictInv => VerdictExact
  BY DEF VerdictInv
<1>3. QED
  BY <1>1, <1>2, StepVerdict, Invariance, PTL DEF Spec

(***************************************************************************)
(* The order of the entries matters only to tables with an empty entry     *)
(* that has the offset of a chunk.                                         *)
(***************************************************************************)
LEMMA RepeatsAndDistinct ==
  ASSUME NEW buf \in Buffer
  PROVE  /\ NoRepeatedOffset(buf) => DistinctChunks(buf)
         /\ DistinctChunks(buf) => NoRepeatedOffset(buf) \/ RepeatsChunk(buf)
<1>1. \A j, k \in Index : j < k \/ k < j \/ j = k
  BY DEF Index
<1>2. Chunks(buf) \subseteq Index
  BY DEF Chunks
<1>3. NoRepeatedOffset(buf) => DistinctChunks(buf)
  BY <1>1, <1>2 DEF NoRepeatedOffset, DistinctChunks
<1>4. ASSUME DistinctChunks(buf), ~RepeatsChunk(buf) PROVE NoRepeatedOffset(buf)
  <2> SUFFICES ASSUME NEW j \in Chunks(buf), NEW k \in Index, j < k
               PROVE  ChunkOffset(buf[j]) # ChunkOffset(buf[k])
    BY DEF NoRepeatedOffset
  <2>1. j # k
    BY <1>2 DEF Index
  <2>2. CASE k \in Chunks(buf)
    BY <1>4, <2>1, <2>2 DEF DistinctChunks
  <2>3. CASE k \notin Chunks(buf)
    BY <1>4, <2>3 DEF RepeatsChunk
  <2> QED
    BY <2>2, <2>3
<1>5. QED
  BY <1>3, <1>4

THEOREM OrderMattersLittle == Spec => []OrderMattersForEmptyRepeatsOnly
<1>1. TypeOK /\ VerdictExact => OrderMattersForEmptyRepeatsOnly
  <2> SUFFICES ASSUME TypeOK, VerdictExact PROVE OrderMattersForEmptyRepeatsOnly
    OBVIOUS
  <2>1. buffer \in Buffer
    BY DEF TypeOK
  <2>2. HasOffsets(buffer) => AcceptableInSomeOrder(buffer)
    BY <2>1, RepeatsAndDistinct DEF HasOffsets, AcceptableInSomeOrder
  <2>3. AcceptableInSomeOrder(buffer) => HasOffsets(buffer) \/ RepeatsChunk(buffer)
    BY <2>1, RepeatsAndDistinct DEF HasOffsets, AcceptableInSomeOrder
  <2>4. QED
    BY <2>2, <2>3 DEF VerdictExact, OrderMattersForEmptyRepeatsOnly
<1>2. QED
  BY <1>1, TypeCorrect, VerdictIsHasOffsets, PTL
=============================================================================
