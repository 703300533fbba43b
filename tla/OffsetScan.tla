----------------------------- MODULE OffsetScan -----------------------------
(***************************************************************************)
(* has_offsets of minecraft-carve/sector.cpp, loop by loop: one action for *)
(* each way an iteration of a loop can go.                                 *)
(*                                                                         *)
(* The first loop reads the table and collects the chunks it lists in a    *)
(* std::map, the second one visits the map in the order of its keys and    *)
(* compares each offset with the sectors the chunks before it occupy.      *)
(***************************************************************************)
EXTENDS Sector

CONSTANT Subjects   \* the buffers a caller may pass
ASSUME SubjectsAssumption == Subjects \subseteq Buffer

VARIABLES
  buffer,              \* the argument, never written
  next,                \* index of the word the first loop reads next
  chunk_length,        \* the map from offsets to lengths
  offset_count,
  unvisited,           \* keys of the map the second loop has yet to visit
  min_allowed_offset,
  pc                   \* the loop the call is in, or what it returned

vars == <<buffer, next, chunk_length, offset_count, unvisited,
          min_allowed_offset, pc>>

Init ==
  /\ buffer \in Subjects
  /\ next = 0
  /\ chunk_length = [o \in {} |-> 0]
  /\ offset_count = 0
  /\ unvisited = {}
  /\ min_allowed_offset = FirstChunkSector
  /\ pc = "fields"
-----------------------------------------------------------------------------
(***************************************************************************)
(* The first loop.                                                         *)
(***************************************************************************)
Offset == ChunkOffset(buffer[next])
Length == ChunkLength(buffer[next])

(* Mutant: no limit on the offset.                                         *)
AcceptableAtAnyOffset == Offset \notin DOMAIN chunk_length

(* Mutant: the table is taken to be in the order of its offsets.           *)
AcceptableInOrder ==
  Offset <= MaxOffset /\ (Length > 0 => \A o \in DOMAIN chunk_length : o < Offset)

Acceptable == Offset <= MaxOffset /\ Offset \notin DOMAIN chunk_length

RejectField ==
  /\ pc = "fields"
  /\ next < Size
  /\ ~Acceptable
  /\ pc' = "rejected"
  /\ UNCHANGED <<buffer, next, chunk_length, offset_count, unvisited,
                 min_allowed_offset>>

(* Mutant: an empty field is read again and again.                         *)
SkipEmptyFieldInPlace ==
  /\ pc = "fields"
  /\ next < Size
  /\ Acceptable
  /\ Length = 0
  /\ UNCHANGED vars

SkipEmptyField ==
  /\ pc = "fields"
  /\ next < Size
  /\ Acceptable
  /\ Length = 0
  /\ next' = next + 1
  /\ UNCHANGED <<buffer, chunk_length, offset_count, unvisited,
                 min_allowed_offset, pc>>

RecordField ==
  /\ pc = "fields"
  /\ next < Size
  /\ Acceptable
  /\ Length > 0
  /\ chunk_length' = [o \in DOMAIN chunk_length \cup {Offset} |->
                        IF o = Offset THEN Length ELSE chunk_length[o]]
  /\ offset_count' = offset_count + 1
  /\ next' = next + 1
  /\ UNCHANGED <<buffer, unvisited, min_allowed_offset, pc>>

(***************************************************************************)
(* Between the loops: a table of very few chunks is rejected.              *)
(***************************************************************************)
RejectSparseTable ==
  /\ pc = "fields"
  /\ next = Size
  /\ offset_count < MinChunks
  /\ pc' = "rejected"
  /\ UNCHANGED <<buffer, next, chunk_length, offset_count, unvisited,
                 min_allowed_offset>>

EnterLengthLoop ==
  /\ pc = "fields"
  /\ next = Size
  /\ offset_count >= MinChunks
  /\ unvisited' = DOMAIN chunk_length
  /\ pc' = "lengths"
  /\ UNCHANGED <<buffer, next, chunk_length, offset_count, min_allowed_offset>>

(***************************************************************************)
(* The second loop.                                                        *)
(***************************************************************************)
(* Mutant: a hash map, which is visited in any order.                      *)
IsSomeKey(o) == o \in unvisited

IsNextKey(o) == o \in unvisited /\ \A p \in unvisited : o <= p

(* Mutant: <= for <.                                                       *)
RejectTightLength(o) ==
  /\ pc = "lengths"
  /\ IsNextKey(o)
  /\ chunk_length[o] > 0 /\ o <= min_allowed_offset
  /\ pc' = "rejected"
  /\ UNCHANGED <<buffer, next, chunk_length, offset_count, unvisited,
                 min_allowed_offset>>

RejectLength(o) ==
  /\ pc = "lengths"
  /\ IsNextKey(o)
  /\ chunk_length[o] > 0 /\ o < min_allowed_offset
  /\ pc' = "rejected"
  /\ UNCHANGED <<buffer, next, chunk_length, offset_count, unvisited,
                 min_allowed_offset>>

(* Mutant: the lengths are not added up.                                   *)
VisitLengthAlone(o) ==
  /\ pc = "lengths"
  /\ IsNextKey(o)
  /\ ~(chunk_length[o] > 0 /\ o < min_allowed_offset)
  /\ min_allowed_offset' = FirstChunkSector + chunk_length[o]
  /\ unvisited' = unvisited \ {o}
  /\ UNCHANGED <<buffer, next, chunk_length, offset_count, pc>>

VisitLength(o) ==
  /\ pc = "lengths"
  /\ IsNextKey(o)
  /\ ~(chunk_length[o] > 0 /\ o < min_allowed_offset)
  /\ min_allowed_offset' = min_allowed_offset + chunk_length[o]
  /\ unvisited' = unvisited \ {o}
  /\ UNCHANGED <<buffer, next, chunk_length, offset_count, pc>>

Accept ==
  /\ pc = "lengths"
  /\ unvisited = {}
  /\ pc' = "accepted"
  /\ UNCHANGED <<buffer, next, chunk_length, offset_count, unvisited,
                 min_allowed_offset>>

Returned == pc \in {"accepted", "rejected"} /\ UNCHANGED vars

Next ==
  \/ RejectField
  \/ SkipEmptyField
  \/ RecordField
  \/ RejectSparseTable
  \/ EnterLengthLoop
  \/ \E o \in unvisited : RejectLength(o) \/ VisitLength(o)
  \/ Accept
  \/ Returned

Spec == Init /\ [][Next]_vars

(* A call keeps running until it returns: nothing it does can block. *)
FairSpec == Spec /\ WF_vars(Next)
-----------------------------------------------------------------------------
TypeOK ==
  /\ buffer \in Buffer
  /\ next \in 0 .. Size
  /\ DOMAIN chunk_length \subseteq 0 .. MaxOffset
  /\ chunk_length \in [DOMAIN chunk_length -> 1 .. 255]
  /\ offset_count \in 0 .. Size
  /\ unvisited \subseteq DOMAIN chunk_length
  /\ min_allowed_offset \in Nat
  /\ pc \in {"fields", "lengths", "accepted", "rejected"}

(***************************************************************************)
(* The loops return what HasOffsets, the form the scanner's model uses,    *)
(* says of the buffer: however the early returns are taken, the verdict    *)
(* depends on the table alone.                                             *)
(***************************************************************************)
VerdictExact ==
  /\ pc = "accepted" => HasOffsets(buffer)
  /\ pc = "rejected" => ~HasOffsets(buffer)

(***************************************************************************)
(* What the table lists, whatever the order of its entries.  RepeatsChunk: *)
(* an empty entry has the offset of a chunk.                               *)
(***************************************************************************)
DistinctChunks(buf) ==
  \A j, k \in Chunks(buf) : j # k => ChunkOffset(buf[j]) # ChunkOffset(buf[k])

AcceptableInSomeOrder(buf) ==
  /\ OffsetsInRange(buf)
  /\ DistinctChunks(buf)
  /\ Cardinality(Chunks(buf)) >= MinChunks
  /\ \A k \in Chunks(buf) : ChunkOffset(buf[k]) >= MinAllowedOffset(buf, k)

RepeatsChunk(buf) ==
  \E k \in Index \ Chunks(buf), j \in Chunks(buf) :
    ChunkOffset(buf[k]) = ChunkOffset(buf[j])

(***************************************************************************)
(* A chunk is compared with those before it in the table, and an empty     *)
(* entry too.  What the verdict makes of the order of the entries is no    *)
(* more than this: a table that would be accepted in another order is      *)
(* rejected only if an empty entry of it has the offset of a chunk.        *)
(***************************************************************************)
OrderMattersForEmptyRepeatsOnly ==
  /\ pc = "accepted" => AcceptableInSomeOrder(buffer)
  /\ pc = "rejected" => ~AcceptableInSomeOrder(buffer) \/ RepeatsChunk(buffer)

WellFormed(buf) ==
  /\ OffsetsInRange(buf)
  /\ NoRepeatedOffset(buf)
  /\ Cardinality(Chunks(buf)) >= MinChunks

(***************************************************************************)
(* The check that the README and the comment on the second loop ask for:   *)
(* in the order of the offsets no chunk is longer than the way to the next *)
(* (README.md:64, sector.cpp:72-73).                                       *)
(***************************************************************************)
RunsInto(buf, j, k) ==
  /\ ChunkOffset(buf[j]) < ChunkOffset(buf[k])
  /\ ChunkOffset(buf[j]) + ChunkLength(buf[j]) > ChunkOffset(buf[k])

LengthsFit(buf) == \A j, k \in Chunks(buf) : ~RunsInto(buf, j, k)

ClearOfHeader(buf) == \A k \in Chunks(buf) : ChunkOffset(buf[k]) >= FirstChunkSector

AsDocumented(buf) == WellFormed(buf) /\ ClearOfHeader(buf) /\ LengthsFit(buf)

(***************************************************************************)
(* The second loop compares a chunk with the sum of all the lengths before *)
(* it.  GapBelow: between the header and the chunk a sector is in no chunk.*)
(***************************************************************************)
Sectors(buf, k) ==
  ChunkOffset(buf[k]) .. ChunkOffset(buf[k]) + ChunkLength(buf[k]) - 1

GapBelow(buf, k) ==
  \E s \in FirstChunkSector .. ChunkOffset(buf[k]) - 1 :
    \A j \in Chunks(buf) : s \notin Sectors(buf, j)

(***************************************************************************)
(* How far that is from the documented check.  has_offsets rejects nothing *)
(* that the documented check lets pass, and where it accepts a chunk that  *)
(* another one runs into, sectors below that chunk are free: in a table    *)
(* without gaps every overlap is found.                                    *)
(***************************************************************************)
DiffersOnlyBehindGaps ==
  /\ pc = "rejected" => ~AsDocumented(buffer)
  /\ pc = "accepted" =>
       /\ WellFormed(buffer) /\ ClearOfHeader(buffer)
       /\ \A j, k \in Chunks(buffer) :
            RunsInto(buffer, j, k) => GapBelow(buffer, k)

(***************************************************************************)
(* "require the lengths to be no greater than the difference between       *)
(* successive offsets" (README.md:64): the code does not, behind a gap.    *)
(***************************************************************************)
AcceptedLengthsFit == pc = "accepted" => LengthsFit(buffer)

(***************************************************************************)
(* The header of a region file as the README describes the format: every   *)
(* entry is zero (chunk absent) or names a run of sectors, within          *)
(* MaxOffset, that overlaps neither the header nor another chunk's.        *)
(***************************************************************************)
Disjoint(buf) ==
  \A j, k \in Chunks(buf) :
    j # k => \/ ChunkOffset(buf[j]) + ChunkLength(buf[j]) <= ChunkOffset(buf[k])
             \/ ChunkOffset(buf[k]) + ChunkLength(buf[k]) <= ChunkOffset(buf[j])

RegionHeader(buf) ==
  /\ \A k \in Index : buf[k] = 0 \/ k \in Chunks(buf)
  /\ \A k \in Chunks(buf) : ChunkOffset(buf[k]) \in FirstChunkSector .. MaxOffset
  /\ Disjoint(buf)

(***************************************************************************)
(* No false negative: the header of a region file of at least MinChunks    *)
(* chunks is never rejected, in whatever order its chunks were written.    *)
(***************************************************************************)
NoGenuineHeaderRejected ==
  pc = "rejected" =>
    ~(RegionHeader(buffer) /\ Cardinality(Chunks(buffer)) >= MinChunks)

(***************************************************************************)
(* A call returns.                                                         *)
(***************************************************************************)
Terminates == <>(pc \in {"accepted", "rejected"})
=============================================================================
