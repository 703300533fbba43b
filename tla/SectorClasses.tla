--------------------------- MODULE SectorClasses ---------------------------
(***************************************************************************)
(* The four questions of sector.hpp about one buffer: has_offsets answers  *)
(* by its loops, the others are functions.  They know nothing of each      *)
(* other; what relates their answers is the subject of this module,        *)
(* because the scanner prints one line for every question answered yes and *)
(* its reader takes a block to be one thing.                               *)
(***************************************************************************)
EXTENDS OffsetScan

CONSTANTS
  MinTime,    \* the window given to has_timestamps
  MaxTime

(* The window starts in 2008, and offsets have 16 bits. *)
ASSUME WindowAssumption ==
  MinTime \in Nat /\ MaxTime \in Nat /\ CompCmfFlg + 255 < MinTime
ASSUME OffsetWidthAssumption == MaxOffset <= 65535

Timestamps == HasTimestamps(buffer, MinTime, MaxTime)
Offsets == pc = "accepted"
EncodedChunk == HasEncodedChunk(buffer)
MostlyZero == IsMostlyZero(buffer)
-----------------------------------------------------------------------------
(***************************************************************************)
(* A block has one type: no two of the three tests that mcarve makes       *)
(* answer yes.  Nothing in the code arranges it; it follows from the       *)
(* numbers, as long as the window starts after the date that the three     *)
(* bytes 02 78 9c spell (1971) and offsets stay below 2^16.                *)
(***************************************************************************)
AtMostOneClass ==
  /\ ~(Timestamps /\ Offsets)
  /\ ~(Timestamps /\ EncodedChunk)
  /\ ~(Offsets /\ EncodedChunk)

NonzeroWords == {k \in Index : buffer[k] # 0}

(***************************************************************************)
(* is_mostly_zero sees one byte of each word, so it can miss words that    *)
(* are not zero but cannot count any that is: a buffer it calls not mostly *)
(* zero has ten nonzero words.  It misses none among timestamps: of a      *)
(* timestamps block both of its answers are right.                         *)
(***************************************************************************)
MostlyZeroErrsOneWay ==
  /\ ~MostlyZero => Cardinality(NonzeroWords) >= MostlyZeroThreshold
  /\ Timestamps /\ MostlyZero => Cardinality(NonzeroWords) < MostlyZeroThreshold

(***************************************************************************)
(* "Tests if a byte buffer has less than 10 nonzero 32-bit words."         *)
(* (sector.hpp:19): a full offset table passes, and is not one.            *)
(***************************************************************************)
MostlyZeroCountsWords ==
  MostlyZero => Cardinality(NonzeroWords) < MostlyZeroThreshold
=============================================================================
