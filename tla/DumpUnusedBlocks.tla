-------------------------- MODULE DumpUnusedBlocks --------------------------
(***************************************************************************)
(* apps/dump_unused_blocks.cpp: main.  The numbers and the contents of the *)
(* unused blocks that are not all zero go to two files, each through an    *)
(* ofstream of its own.                                                    *)
(*                                                                         *)
(* Blocks larger than the program's buffer are left out: it would overflow *)
(* (see the README).                                                       *)
(***************************************************************************)
EXTENDS Ext2Filesystem, SequencesExt

CONSTANTS
  CommandLines,    \* what the user may type
  CheckInterval,   \* 1024: errors are looked for at multiples of it
  WritesMayFail    \* a disk may be full or fail

(***************************************************************************)
(* The command line: refused by the parser or not, and whether --output    *)
(* and --table are given.  The image and the two files are distinct.       *)
(***************************************************************************)
CommandLine == [valid : BOOLEAN, output : BOOLEAN, table : BOOLEAN]

ASSUME CommandLinesAssumption == CommandLines \subseteq CommandLine
ASSUME CheckIntervalAssumption == CheckInterval \in Nat \ {0}
ASSUME WritesMayFailAssumption == WritesMayFail \in BOOLEAN
ASSUME BlocksFitAssumption == \A i \in Images : i.blocksize <= Size

VARIABLES
  conf,           \* the command line, never written
  data_output,
  id_output,
  block_buffer,
  blk,
  pc

vars == <<image, conf, data_output, id_output, block_buffer, blk, pc>>

(***************************************************************************)
(* An ofstream: the items its file is known to hold, whole and in order,   *)
(* and those the stream still holds.  Writing moves any number of them to  *)
(* the file.  Once bad() a stream does nothing more; what part of its last *)
(* items its file then holds is unknown and not modelled.                  *)
(***************************************************************************)
Closed == [open |-> FALSE, file |-> <<>>, held |-> <<>>, bad |-> FALSE]
Empty == [open |-> TRUE, file |-> <<>>, held |-> <<>>, bad |-> FALSE]

Moved(s, items, n) ==
  [open |-> s.open, file |-> s.file \o SubSeq(items, 1, n),
   held |-> SubSeq(items, n + 1, Len(items)), bad |-> s.bad]

Broken(s, items, n) ==
  [open |-> s.open, file |-> s.file \o SubSeq(items, 1, n), held |-> <<>>, bad |-> TRUE]

Failures(s, items) ==
  {Broken(s, items, n) : n \in {m \in 0 .. Len(items) - 1 : WritesMayFail}}

Written(s, item) ==
  IF s.bad
    THEN {s}
    ELSE LET items == Append(s.held, item)
         IN  {Moved(s, items, n) : n \in 0 .. Len(items)} \cup Failures(s, items)

Flushed(s) ==
  IF s.bad
    THEN {s}
    ELSE {Moved(s, s.held, Len(s.held))} \cup Failures(s, s.held)

Init ==
  /\ image \in Images
  /\ conf \in CommandLines
  /\ data_output = Closed
  /\ id_output = Closed
  /\ block_buffer = [k \in Index |-> 0]
  /\ blk = 0
  /\ pc = "parse"
-----------------------------------------------------------------------------
Goto(label) == pc' = label

ParseCommandLine ==
  /\ pc = "parse"
  /\ Goto(CASE ~conf.valid -> "refused"
            [] conf.valid /\ ~conf.output /\ ~conf.table -> "failure"
            [] OTHER -> "open_image")
  /\ UNCHANGED <<image, conf, data_output, id_output, block_buffer, blk>>

OpenImage ==
  /\ pc = "open_image"
  /\ Opens
  /\ Goto("open_output")
  /\ UNCHANGED <<image, conf, data_output, id_output, block_buffer, blk>>

OpenImageThrows ==
  /\ pc = "open_image"
  /\ OpeningThrows
  /\ Goto("aborted")
  /\ UNCHANGED <<image, conf, data_output, id_output, block_buffer, blk>>

(* Opening truncates, whatever comes of the rest of the run.               *)
OpenOutput ==
  /\ pc = "open_output"
  /\ data_output' = IF conf.output THEN Empty ELSE Closed
  /\ Goto("open_table")
  /\ UNCHANGED <<image, conf, id_output, block_buffer, blk>>

OpenTable ==
  /\ pc = "open_table"
  /\ id_output' = IF conf.table THEN Empty ELSE Closed
  /\ blk' = first_data_block
  /\ Goto("loop")
  /\ UNCHANGED <<image, conf, data_output, block_buffer>>

OpeningAFileFails ==
  /\ WritesMayFail
  /\ \/ pc = "open_output" /\ conf.output
     \/ pc = "open_table" /\ conf.table
  /\ Goto("failure")
  /\ UNCHANGED <<image, conf, data_output, id_output, block_buffer, blk>>
-----------------------------------------------------------------------------
SkipUsed ==
  /\ pc = "loop" /\ blk < fs_blocks_count
  /\ block_is_used(blk)
  /\ blk' = blk + 1
  /\ UNCHANGED <<image, conf, data_output, id_output, block_buffer, pc>>

(* Mutant: the buffer takes the size of the block.                         *)
ReadBlockResizing ==
  /\ pc = "loop" /\ blk < fs_blocks_count
  /\ ~block_is_used(blk)
  /\ Reads(blk)
  /\ block_buffer' = Block(blk, blocksize)
  /\ Goto("filter")
  /\ UNCHANGED <<image, conf, data_output, id_output, blk>>

(* A block smaller than the buffer leaves the rest of it alone.            *)
ReadBlock ==
  /\ pc = "loop" /\ blk < fs_blocks_count
  /\ ~block_is_used(blk)
  /\ Reads(blk)
  /\ block_buffer' = [k \in Index |-> IF k < blocksize THEN Block(blk, blocksize)[k]
                                                       ELSE block_buffer[k]]
  /\ Goto("filter")
  /\ UNCHANGED <<image, conf, data_output, id_output, blk>>

ReadBlockThrows ==
  /\ pc = "loop" /\ blk < fs_blocks_count
  /\ ~block_is_used(blk)
  /\ ReadingThrows(blk)
  /\ Goto("aborted")
  /\ UNCHANGED <<image, conf, data_output, id_output, block_buffer, blk>>

(* Mutant: only the first word is looked at.                               *)
StartsWithZero == \A k \in {0} : block_buffer[k] = 0

AllZeroes == \A k \in Index : block_buffer[k] = 0

(* Mutant: a while loop whose continue skips the increment.                *)
SkipZeroesInPlace ==
  /\ pc = "filter"
  /\ AllZeroes
  /\ Goto("loop")
  /\ UNCHANGED <<image, conf, data_output, id_output, block_buffer, blk>>

SkipZeroes ==
  /\ pc = "filter"
  /\ AllZeroes
  /\ blk' = blk + 1
  /\ Goto("loop")
  /\ UNCHANGED <<image, conf, data_output, id_output, block_buffer>>

WriteId ==
  /\ pc = "filter"
  /\ ~AllZeroes
  /\ IF conf.table THEN id_output' \in Written(id_output, blk)
                   ELSE UNCHANGED id_output
  /\ Goto("write_block")
  /\ UNCHANGED <<image, conf, data_output, block_buffer, blk>>

WriteBlock ==
  /\ pc = "write_block"
  /\ IF conf.output THEN data_output' \in Written(data_output, block_buffer)
                    ELSE UNCHANGED data_output
  /\ Goto("errcheck")
  /\ UNCHANGED <<image, conf, id_output, block_buffer, blk>>

(***************************************************************************)
(* The only errors seen before the end are those present when a block that *)
(* was written has a number that CheckInterval divides.                    *)
(***************************************************************************)
WriteError == id_output.bad \/ data_output.bad

Continue ==
  /\ pc = "errcheck"
  /\ ~(blk % CheckInterval = 0 /\ WriteError)
  /\ blk' = blk + 1
  /\ Goto("loop")
  /\ UNCHANGED <<image, conf, data_output, id_output, block_buffer>>

(* Returning closes the files, and closing a stream flushes it.            *)
Stop ==
  /\ pc = "errcheck"
  /\ blk % CheckInterval = 0 /\ WriteError
  /\ id_output' \in Flushed(id_output)
  /\ data_output' \in Flushed(data_output)
  /\ Goto("failure")
  /\ UNCHANGED <<image, conf, block_buffer, blk>>

(* Mutants: the streams are looked at before they are flushed, or only one *)
(* of them is.                                                             *)
FlushAfterCheck ==
  /\ pc = "loop" /\ blk >= fs_blocks_count
  /\ id_output' \in Flushed(id_output)
  /\ data_output' \in Flushed(data_output)
  /\ Goto(IF WriteError THEN "failure" ELSE "success")
  /\ UNCHANGED <<image, conf, block_buffer, blk>>

FlushCheckingIds ==
  /\ pc = "loop" /\ blk >= fs_blocks_count
  /\ id_output' \in Flushed(id_output)
  /\ data_output' \in Flushed(data_output)
  /\ Goto(IF id_output'.bad THEN "failure" ELSE "success")
  /\ UNCHANGED <<image, conf, block_buffer, blk>>

Flush ==
  /\ pc = "loop" /\ blk >= fs_blocks_count
  /\ id_output' \in Flushed(id_output)
  /\ data_output' \in Flushed(data_output)
  /\ Goto(IF id_output'.bad \/ data_output'.bad THEN "failure" ELSE "success")
  /\ UNCHANGED <<image, conf, block_buffer, blk>>

Ended == {"refused", "success", "failure", "aborted"}

Terminated == pc \in Ended /\ UNCHANGED vars

Next ==
  \/ ParseCommandLine
  \/ OpenImage
  \/ OpenImageThrows
  \/ OpenOutput
  \/ OpenTable
  \/ OpeningAFileFails
  \/ SkipUsed
  \/ ReadBlock
  \/ ReadBlockThrows
  \/ SkipZeroes
  \/ WriteId
  \/ WriteBlock
  \/ Continue
  \/ Stop
  \/ Flush
  \/ Terminated

Spec == Init /\ [][Next]_vars

(* The program is one thread and none of its calls blocks for ever.        *)
FairSpec == Spec /\ WF_vars(Next)
-----------------------------------------------------------------------------
(***************************************************************************)
(* What there is to dump: the unused blocks that are in the file and not   *)
(* all zero, in ascending order, each filled up with zeros to the size of  *)
(* the buffer.                                                             *)
(***************************************************************************)
Unused == {b \in first_data_block .. fs_blocks_count - 1 : ~block_is_used(b)}

Filled(b) ==
  [k \in Index |-> IF k < blocksize THEN Block(b, blocksize)[k] ELSE 0]

Nonzero(b) == Reads(b) /\ \E k \in 0 .. blocksize - 1 : Block(b, blocksize)[k] # 0

Dumped == {b \in Unused : Nonzero(b)}

(* The i-th is the one that i of them, itself included, do not exceed.     *)
Ids ==
  [i \in 1 .. Cardinality(Dumped) |->
     CHOOSE b \in Dumped : Cardinality({c \in Dumped : c <= b}) = i]
Data == [i \in DOMAIN Ids |-> Filled(Ids[i])]

Stream(Item) == [open : BOOLEAN, file : Seq(Item), held : Seq(Item), bad : BOOLEAN]

TypeOK ==
  /\ image \in Images
  /\ conf \in CommandLines
  /\ data_output \in Stream(Buffer)
  /\ id_output \in Stream(Nat)
  /\ block_buffer \in Buffer
  /\ blk \in Nat
  /\ pc \in Ended \cup {"parse", "open_image", "open_output", "open_table", "loop",
                        "filter", "write_block", "errcheck"}

(***************************************************************************)
(* Up to the first write that failed on it, each file is at all times the  *)
(* beginning of its list: a dump that ended early is short, but entry i of *)
(* the table still is the number of the i-th block of the data, as far as  *)
(* both go.                                                                *)
(***************************************************************************)
FilesArePrefixes ==
  /\ IsPrefix(id_output.file, Ids)
  /\ IsPrefix(data_output.file, Data)

(***************************************************************************)
(* The program reports success only with everything asked for in the       *)
(* files, although it looks at the streams' state rarely and only after a  *)
(* write.                                                                  *)
(***************************************************************************)
SuccessIsComplete ==
  pc = "success" =>
    /\ \A b \in Unused : Reads(b)
    /\ conf.table => id_output.file = Ids
    /\ conf.output => data_output.file = Data

(***************************************************************************)
(* A failed write is reported in the end, however long it goes unseen, or  *)
(* an exception ends the program before.                                   *)
(***************************************************************************)
WriteErrorsSurface == WriteError ~> pc \in {"failure", "aborted"}

(***************************************************************************)
(* The program ends.                                                       *)
(***************************************************************************)
Terminates == <>(pc \in Ended)
=============================================================================
