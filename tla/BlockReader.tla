---------------------------- MODULE BlockReader ----------------------------
(***************************************************************************)
(* The readers of minecraft-carve/BlockReader.hpp, through which a program *)
(* sees an image as numbered blocks: Ext2BlockReader on top of libext2fs,  *)
(* FileBlockReader on top of an ifstream and MmapBlockReader.              *)
(*                                                                         *)
(* An operation that can end in several ways is one action for each: it    *)
(* returns, it throws, or (a mapped page that cannot be read) it kills the *)
(* process.  What a throwing read leaves in the buffer is not modelled;    *)
(* no caller looks.                                                        *)
(***************************************************************************)
EXTENDS Ext2Filesystem

VARIABLES
  reader,   \* the reader in use: its kind, block count and, for an ifstream,
            \* whether its state is good()
  buffer    \* the caller's BlockBuffer

reader_vars == <<image, reader, buffer>>

NoReader == [kind |-> "none", total |-> 0, good |-> TRUE]

-----------------------------------------------------------------------------
(***************************************************************************)
(* The constructors.                                                       *)
(***************************************************************************)
OpenExt2 ==
  /\ Opens
  /\ blocksize = Size
  /\ reader' = [kind |-> "ext2", total |-> fs_blocks_count, good |-> TRUE]
  /\ UNCHANGED <<image, buffer>>

OpenExt2Throws ==
  /\ OpeningThrows \/ blocksize # Size
  /\ UNCHANGED reader_vars

(* A partial block at the end of the file is not counted.                  *)
(* Mutant: the last block is taken for a partial one.                      *)
OpenFileWithoutLastBlock ==
  /\ reader' = [kind |-> "file", total |-> (Len(image.data) \div Size) - 1,
                good |-> TRUE]
  /\ UNCHANGED <<image, buffer>>

OpenFile ==
  /\ reader' = [kind |-> "file", total |-> Len(image.data) \div Size, good |-> TRUE]
  /\ UNCHANGED <<image, buffer>>

(* tellg() is -1 after a failed seek, and -1 / BLOCKSIZE is 0.             *)
OpenFileUnseekable ==
  /\ "file" \in Faulty
  /\ reader' = [kind |-> "file", total |-> 0, good |-> FALSE]
  /\ UNCHANGED <<image, buffer>>

OpenFileThrows ==
  /\ "file" \in Faulty
  /\ UNCHANGED reader_vars

(* mmap refuses to map an empty file.                                      *)
OpenMmap ==
  /\ image.data # <<>>
  /\ reader' = [kind |-> "mmap", total |-> Len(image.data) \div Size, good |-> TRUE]
  /\ UNCHANGED <<image, buffer>>

OpenMmapThrows ==
  /\ image.data = <<>> \/ "mmap" \in Faulty
  /\ UNCHANGED reader_vars
-----------------------------------------------------------------------------
first_blknum == IF reader.kind = "ext2" THEN first_data_block ELSE 0
blocks_count == reader.total
(* Mutant: the bitmap is consulted by readers that have none.              *)
IsAllocatedInAnyReader(b) == block_is_used(b)

is_allocated(b) == reader.kind = "ext2" /\ block_is_used(b)

(***************************************************************************)
(* read_block, when it does what its name says.  Only the readers of plain *)
(* files check the index; libext2fs reads whatever the image holds there.  *)
(***************************************************************************)
Ext2ReadBlock(b) ==
  /\ reader.kind = "ext2"
  /\ Holds(b, Size)
  /\ buffer' = Block(b, Size)

FileReadBlock(b) ==
  /\ reader.kind = "file"
  /\ b < reader.total
  /\ reader.good
  /\ Holds(b, Size)
  /\ buffer' = Block(b, Size)

MmapReadBlock(b) ==
  /\ reader.kind = "mmap"
  /\ b < reader.total
  /\ Holds(b, Size)
  /\ buffer' = Block(b, Size)

ReadReturns(b) ==
  /\ Ext2ReadBlock(b) \/ FileReadBlock(b) \/ MmapReadBlock(b)
  /\ UNCHANGED <<image, reader>>

(***************************************************************************)
(* seekg and read report failure in the state of the stream, at which      *)
(* FileBlockReader does not look: a failed read returns with the part of   *)
(* the block it got, and with the stream in a failed state, in which every *)
(* later seekg and read does nothing at all.                               *)
(***************************************************************************)
(* Mutant: the state of the stream is cleared after a failure.             *)
ReadFailsOnce(b) ==
  /\ reader.kind = "file" /\ "file" \in Faulty
  /\ reader.good
  /\ b < reader.total
  /\ \E n \in 0 .. Size - 1 :
       buffer' = [k \in Index |-> IF k < n THEN Block(b, Size)[k] ELSE buffer[k]]
  /\ UNCHANGED <<image, reader>>

ReadFails(b) ==
  /\ reader.kind = "file" /\ "file" \in Faulty
  /\ reader.good
  /\ b < reader.total
  /\ \E n \in 0 .. Size - 1 :
       buffer' = [k \in Index |-> IF k < n THEN Block(b, Size)[k] ELSE buffer[k]]
  /\ reader' = [reader EXCEPT !.good = FALSE]
  /\ UNCHANGED image

ReadIgnored(b) ==
  /\ reader.kind = "file"
  /\ ~reader.good
  /\ b < reader.total
  /\ UNCHANGED reader_vars

Ext2ReadThrows(b) == reader.kind = "ext2" /\ ReadingThrows(b)
FileReadThrows(b) == reader.kind = "file" /\ b >= reader.total
MmapReadThrows(b) == reader.kind = "mmap" /\ b >= reader.total

ReadThrows(b) ==
  /\ Ext2ReadThrows(b) \/ FileReadThrows(b) \/ MmapReadThrows(b)
  /\ UNCHANGED reader_vars

ReadKills(b) ==
  /\ reader.kind = "mmap" /\ "mmap" \in Faulty
  /\ b < reader.total
  /\ UNCHANGED reader_vars
=============================================================================
