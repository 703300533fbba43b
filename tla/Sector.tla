------------------------------- MODULE Sector -------------------------------
(***************************************************************************)
(* The block classifiers of minecraft-carve/sector.cpp, as functions of    *)
(* the contents of a buffer.                                               *)
(*                                                                         *)
(* The words of a buffer are big-endian numbers, which is what             *)
(* __builtin_bswap32 makes of the words a little-endian machine loads.     *)
(* has_offsets is described here by the outcome of its two loops; module   *)
(* OffsetScan has the loops themselves.                                    *)
(***************************************************************************)
EXTENDS Buffers, FiniteSetsExt

CONSTANT MaxOffset   \* largest chunk offset has_offsets tolerates: 0xffff
ASSUME MaxOffsetAssumption == MaxOffset \in Nat

(***************************************************************************)
(* The two parts of an entry of the chunk offset table.                    *)
(***************************************************************************)
ChunkOffset(word) == word \div 256
ChunkLength(word) == word % 256

MinChunks == 4          \* fewer chunks than this make no offset table
FirstChunkSector == 2   \* the sectors before it are the region file's header

(***************************************************************************)
(* is_mostly_zero loads words without swapping them, and its predicate     *)
(* takes a uint8_t, so what it compares with zero is the least significant *)
(* byte of the load: the first byte of the word in the buffer.             *)
(***************************************************************************)
(* Mutant: the words are swapped before they are compared.                 *)
LastByte(word) == word % 256

FirstByte(word) == word \div 16777216

MostlyZeroThreshold == 10

IsMostlyZero(buf) ==
  Cardinality({k \in Index : FirstByte(buf[k]) # 0}) < MostlyZeroThreshold

(***************************************************************************)
(* has_timestamps: zero or in the window, and not all zero.                *)
(***************************************************************************)
(* Mutant: no lower bound.                                                 *)
HasEarlyTimestamps(buf, min_time, max_time) ==
  /\ \A k \in Index : buf[k] <= max_time
  /\ \E k \in Index : buf[k] # 0

HasTimestamps(buf, min_time, max_time) ==
  /\ \A k \in Index : buf[k] = 0 \/ (min_time <= buf[k] /\ buf[k] <= max_time)
  /\ \E k \in Index : buf[k] # 0

(***************************************************************************)
(* The entries of the table that has_offsets stores in chunk_length.       *)
(***************************************************************************)
Chunks(buf) == {k \in Index : ChunkLength(buf[k]) > 0}

(***************************************************************************)
(* The rejections of the first loop.  An entry may not repeat the offset   *)
(* of a chunk BEFORE it in the table, even if the entry itself is empty.   *)
(***************************************************************************)
OffsetsInRange(buf) == \A k \in Index : ChunkOffset(buf[k]) <= MaxOffset

NoRepeatedOffset(buf) ==
  \A j \in Chunks(buf) : \A k \in Index :
    j < k => ChunkOffset(buf[j]) # ChunkOffset(buf[k])

(***************************************************************************)
(* min_allowed_offset when the second loop reaches a chunk: the header and *)
(* the lengths of the chunks at smaller offsets.                           *)
(***************************************************************************)
MinAllowedOffset(buf, k) ==
  FirstChunkSector
    + SumFunctionOnSet(
        [j \in Chunks(buf) |-> ChunkLength(buf[j])],
        {j \in Chunks(buf) : ChunkOffset(buf[j]) < ChunkOffset(buf[k])})

HasOffsets(buf) ==
  /\ OffsetsInRange(buf)
  /\ NoRepeatedOffset(buf)
  /\ Cardinality(Chunks(buf)) >= MinChunks
  /\ \A k \in Chunks(buf) : ChunkOffset(buf[k]) >= MinAllowedOffset(buf, k)

(***************************************************************************)
(* has_encoded_chunk: a length of at most MAX_DATA_LENGTH and then the     *)
(* three bytes 02 78 9c.  A buffer of less than 8 bytes has no second word.*)
(***************************************************************************)
MaxDataLength == 1048576     \* MAX_DATA_LENGTH, 1 << 20
CompCmfFlg == 41458688       \* COMP_CMF_FLG, 0x02789c00

HasEncodedChunk(buf) ==
  /\ Size >= 2
  /\ buf[0] <= MaxDataLength
  /\ buf[1] - (buf[1] % 256) = CompCmfFlg
=============================================================================
