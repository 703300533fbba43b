---------------------------- MODULE ReaderClient ----------------------------
(***************************************************************************)
(* A caller of BlockReader opens one reader and calls it in any order, in  *)
(* or out of range, for as long as it lives.                               *)
(***************************************************************************)
EXTENDS BlockReader

CONSTANTS
  OpenedKinds,  \* the readers the caller tries
  Numbers,      \* the block numbers it asks for
  Initial       \* what its buffer may hold before the first read

ASSUME ClientAssumption ==
  OpenedKinds \subseteq Kinds /\ Numbers \subseteq Nat /\ Initial \subseteq Buffer

VARIABLES
  alive,   \* FALSE when the constructor threw or a read killed the process
  last     \* the last call and how it ended

vars == <<image, reader, buffer, alive, last>>

NoCall == [op |-> "none", blk |-> 0, result |-> "none"]

Init ==
  /\ image \in Images
  /\ reader = NoReader
  /\ buffer \in Initial
  /\ alive = TRUE
  /\ last = NoCall

Open ==
  /\ alive /\ reader = NoReader
  /\ \/ "ext2" \in OpenedKinds /\ OpenExt2
     \/ "file" \in OpenedKinds /\ (OpenFile \/ OpenFileUnseekable)
     \/ "mmap" \in OpenedKinds /\ OpenMmap
  /\ UNCHANGED <<alive, last>>

OpenFails ==
  /\ alive /\ reader = NoReader
  /\ \/ "ext2" \in OpenedKinds /\ OpenExt2Throws
     \/ "file" \in OpenedKinds /\ OpenFileThrows
     \/ "mmap" \in OpenedKinds /\ OpenMmapThrows
  /\ alive' = FALSE
  /\ UNCHANGED last

Opened == alive /\ reader # NoReader

Read(b) ==
  /\ Opened
  /\ ReadReturns(b) \/ ReadFails(b) \/ ReadIgnored(b)
  /\ last' = [op |-> "read", blk |-> b, result |-> "returned"]
  /\ UNCHANGED alive

ReadFaults(b) ==
  /\ Opened
  /\ ReadThrows(b)
  /\ last' = [op |-> "read", blk |-> b, result |-> "thrown"]
  /\ UNCHANGED alive

Die(b) ==
  /\ Opened
  /\ ReadKills(b)
  /\ alive' = FALSE
  /\ UNCHANGED last

AskAllocated(b) ==
  /\ Opened
  /\ last' = [op |-> "is_allocated", blk |-> b, 
              result |-> IF is_allocated(b) THEN "used" ELSE "free"]
  /\ UNCHANGED <<image, reader, buffer, alive>>

Next ==
  \/ Open
  \/ OpenFails
  \/ \E b \in Numbers : Read(b) \/ ReadFaults(b) \/ Die(b) \/ AskAllocated(b)

Spec == Init /\ [][Next]_vars
-----------------------------------------------------------------------------
TypeOK ==
  /\ image \in Images
  /\ reader \in [kind : Kinds \cup {"none"}, total : Nat, good : BOOLEAN]
  /\ buffer \in Buffer
  /\ alive \in BOOLEAN
  /\ last \in [op : {"none", "read", "is_allocated"}, blk : Nat,
               result : {"none", "returned", "thrown", "used", "free"}]

(***************************************************************************)
(* A caller of FileBlockReader that has once been handed something else    *)
(* than the block it asked for is handed the same bytes by every read that *)
(* returns from then on: there is no retrying.                             *)
(***************************************************************************)
Misdelivered ==
  /\ last.result = "returned"
  /\ buffer # Block(last.blk, Size)

FrozenOnceMisdelivered == [][Misdelivered => buffer' = buffer]_vars
-----------------------------------------------------------------------------
(***************************************************************************)
(* The readers implement the promise of BlockSource: the blocks the source *)
(* has are those of the image, those in use are the filesystem's, and a    *)
(* call that returned answered with what the caller's buffer holds.        *)
(***************************************************************************)
SourceContent == [b \in {c \in Numbers : Holds(c, Size)} |-> Block(b, Size)]

SourceAllocated == IF reader.kind = "ext2" THEN Numbers \cap image.used ELSE {}

SourceAnswer ==
  IF last.result = "returned"
    THEN <<"block", last.blk, buffer>>
    ELSE <<last.result, last.blk>>

Source == INSTANCE BlockSource
            WITH Nothing <- <<"none", 0>>, content <- SourceContent,
                 allocated <- SourceAllocated, answer <- SourceAnswer

ImplementsBlockSource == Source!Spec
=============================================================================
