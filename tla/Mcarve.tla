------------------------------- MODULE Mcarve -------------------------------
(***************************************************************************)
(* apps/mcarve.cpp: main, from the command line to the last line of the    *)
(* report, on top of the readers and the block classifiers.                *)
(*                                                                         *)
(* A call that depends on the outside world, and the work between two of   *)
(* them, is one action.  An exception leaves main uncaught.                *)
(***************************************************************************)
EXTENDS Sector, BlockReader

CONSTANTS
  CommandLines,   \* what the user may type
  TimeOf,         \* parse_time: the dates strptime accepts, and their time_t
  Clocks,         \* what the clock may show when mcarve starts
  TimeModulus,    \* 2^32: the window's ends are stored as uint32_t
  ScanLimit,      \* 400000: no block from this number on is looked at
  Garbage         \* what sector_buffer may hold before the first read

DefaultStart == "2008-01-01"
DefaultStop == "current_time"

(***************************************************************************)
(* A command line is refused (or asks for help), or gives the two dates or *)
(* their defaults.                                                         *)
(***************************************************************************)
CommandLine == [valid : BOOLEAN, start : STRING, stop : STRING]

ASSUME CommandLinesAssumption == CommandLines \subseteq CommandLine
ASSUME ClocksAssumption == Clocks \subseteq Nat
ASSUME TimeModulusAssumption == TimeModulus \in Nat \ {0}
ASSUME TimeOfAssumption ==
  DefaultStart \in DOMAIN TimeOf /\ \A date \in DOMAIN TimeOf : TimeOf[date] \in Int
(* The start of the window, 2008, is after the date 02 78 9c ff spells, and *)
(* offsets have at most 16 bits: so no block is of two types.              *)
ASSUME WindowAssumption == CompCmfFlg + 255 < TimeOf[DefaultStart] % TimeModulus
ASSUME OffsetWidthAssumption == MaxOffset <= 65535
ASSUME ScanLimitAssumption == ScanLimit \in Nat
ASSUME GarbageAssumption == Garbage \subseteq Buffer

VARIABLES
  args,            \* the command line, never written
  start_timestr,
  stop_timestr,
  start_time,      \* of config
  stop_time,
  blk,
  max_blk,
  chunk_header_count,
  report,          \* the items written to cout
  pc

options == <<args, start_timestr, stop_timestr>>
window == <<start_time, stop_time>>
scan == <<blk, max_blk, chunk_header_count, report>>
vars == <<reader_vars, options, window, scan, pc>>

Init ==
  /\ image \in Images
  /\ reader = NoReader
  /\ buffer \in Garbage
  /\ args \in CommandLines
  /\ start_timestr = DefaultStart
  /\ stop_timestr = DefaultStop
  /\ start_time = 0
  /\ stop_time = 0
  /\ blk = 0
  /\ max_blk = 0
  /\ chunk_header_count = 0
  /\ report = <<>>
  /\ pc = "window"
-----------------------------------------------------------------------------
(***************************************************************************)
(* Options.  The window is computed from the strings the options are to be *)
(* stored in, and the command line is parsed after that.                   *)
(***************************************************************************)
parse_time(timestr) == TimeOf[timestr]

ToUint32(time) == time % TimeModulus

(* Both strings are still the defaults, so parse_time does not throw.      *)
ComputeWindow ==
  /\ pc = "window"
  /\ start_time' = ToUint32(parse_time(start_timestr))
  /\ \E now \in Clocks :
       stop_time' = ToUint32(IF stop_timestr = "current_time"
                               THEN now ELSE parse_time(stop_timestr))
  /\ pc' = "parse"
  /\ UNCHANGED <<reader_vars, options, scan>>

ParseCommandLine ==
  /\ pc = "parse"
  /\ args.valid
  /\ start_timestr' = args.start
  /\ stop_timestr' = args.stop
  /\ pc' = "identify"
  /\ UNCHANGED <<reader_vars, args, window, scan>>

RefuseCommandLine ==
  /\ pc = "parse"
  /\ ~args.valid
  /\ pc' = "refused"
  /\ UNCHANGED <<reader_vars, options, window, scan>>
-----------------------------------------------------------------------------
(***************************************************************************)
(* The choice of the reader.                                               *)
(***************************************************************************)
Identify ==
  /\ pc = "identify"
  /\ \E answer \in BOOLEAN :
       /\ IdentifyExt2FS(answer)
       /\ pc' = IF answer THEN "open_ext2" ELSE "open_file"
  /\ UNCHANGED <<reader_vars, options, window, scan>>

Open ==
  /\ \/ pc = "open_ext2" /\ OpenExt2
     \/ pc = "open_file" /\ (OpenFile \/ OpenFileUnseekable)
  /\ pc' = "start"
  /\ UNCHANGED <<options, window, scan>>

OpenThrows ==
  /\ \/ pc = "open_ext2" /\ OpenExt2Throws
     \/ pc = "open_file" /\ OpenFileThrows
  /\ pc' = "aborted"
  /\ UNCHANGED <<options, window, scan>>

(* Mutant: no limit.                                                       *)
StartUnlimitedScan ==
  /\ pc = "start"
  /\ max_blk' = blocks_count
  /\ blk' = first_blknum
  /\ pc' = "scan"
  /\ UNCHANGED <<reader_vars, options, window, chunk_header_count, report>>

StartScan ==
  /\ pc = "start"
  /\ max_blk' = IF blocks_count > ScanLimit THEN ScanLimit ELSE blocks_count
  /\ blk' = first_blknum
  /\ pc' = "scan"
  /\ UNCHANGED <<reader_vars, options, window, chunk_header_count, report>>
-----------------------------------------------------------------------------
(***************************************************************************)
(* The loop.                                                               *)
(***************************************************************************)
(* Mutant: a while loop whose continue skips the increment.                *)
SkipAllocatedInPlace ==
  /\ pc = "scan" /\ blk < max_blk
  /\ is_allocated(blk)
  /\ UNCHANGED vars

SkipAllocated ==
  /\ pc = "scan" /\ blk < max_blk
  /\ is_allocated(blk)
  /\ blk' = blk + 1
  /\ UNCHANGED <<reader_vars, options, window, max_blk, chunk_header_count,
                 report, pc>>

ReadBlock ==
  /\ pc = "scan" /\ blk < max_blk
  /\ ~is_allocated(blk)
  /\ ReadReturns(blk) \/ ReadFails(blk) \/ ReadIgnored(blk)
  /\ pc' = "classify"
  /\ UNCHANGED <<options, window, scan>>

ReadBlockThrows ==
  /\ pc = "scan" /\ blk < max_blk
  /\ ~is_allocated(blk)
  /\ ReadThrows(blk)
  /\ pc' = "aborted"
  /\ UNCHANGED <<options, window, scan>>

(***************************************************************************)
(* The report.  A run of chunk headers begins with the number of its first *)
(* block and ends, when something else has to be said, with its count.     *)
(***************************************************************************)
Line(type, b) == [type |-> type, blk |-> b]
CountLine(n) == [type |-> "count", n |-> n]

(* Mutant: the first header of a run is not counted.                       *)
CloseRunAfterFirst ==
  IF chunk_header_count > 0 THEN <<CountLine(chunk_header_count - 1)>> ELSE <<>>

CloseRun == IF chunk_header_count > 0 THEN <<CountLine(chunk_header_count)>> ELSE <<>>

Classify ==
  LET timestamps == HasTimestamps(buffer, start_time, stop_time)
      offsets    == HasOffsets(buffer)
      chunk      == HasEncodedChunk(buffer)
      open_run   == IF timestamps \/ offsets THEN 0 ELSE chunk_header_count
  IN
  /\ pc = "classify"
  /\ report' = report
       \o (IF timestamps \/ offsets THEN CloseRun ELSE <<>>)
       \o (IF timestamps THEN <<Line("timestamps", blk)>> ELSE <<>>)
       \o (IF offsets THEN <<Line("offsets", blk)>> ELSE <<>>)
       \o (IF chunk /\ open_run = 0 THEN <<Line("chunk headers", blk)>> ELSE <<>>)
  /\ chunk_header_count' = IF chunk THEN open_run + 1 ELSE open_run
  /\ blk' = blk + 1
  /\ pc' = "scan"
  /\ UNCHANGED <<reader_vars, options, window, max_blk>>

(* Mutants: the last block is left out; the last run's count is not        *)
(* written after the loop.                                                 *)
FinishEarly ==
  /\ pc = "scan" /\ blk + 1 >= max_blk
  /\ report' = report \o CloseRun
  /\ chunk_header_count' = 0
  /\ pc' = "exited"
  /\ UNCHANGED <<reader_vars, options, window, blk, max_blk>>

FinishSilently ==
  /\ pc = "scan" /\ blk >= max_blk
  /\ pc' = "exited"
  /\ UNCHANGED <<reader_vars, options, window, scan>>

Finish ==
  /\ pc = "scan" /\ blk >= max_blk
  /\ report' = report \o CloseRun
  /\ chunk_header_count' = 0
  /\ pc' = "exited"
  /\ UNCHANGED <<reader_vars, options, window, blk, max_blk>>

Ended == {"exited", "refused", "aborted"}

Terminated == pc \in Ended /\ UNCHANGED vars

Next ==
  \/ ComputeWindow
  \/ ParseCommandLine
  \/ RefuseCommandLine
  \/ Identify
  \/ Open
  \/ OpenThrows
  \/ StartScan
  \/ SkipAllocated
  \/ ReadBlock
  \/ ReadBlockThrows
  \/ Classify
  \/ Finish
  \/ Terminated

Spec == Init /\ [][Next]_vars

(* The program is one thread and none of its calls blocks for ever.        *)
FairSpec == Spec /\ WF_vars(Next)
-----------------------------------------------------------------------------
TypeOK ==
  /\ image \in Images
  /\ reader \in [kind : Kinds \cup {"none"}, total : Nat, good : BOOLEAN]
  /\ buffer \in Buffer
  /\ args \in CommandLines
  /\ start_timestr \in {DefaultStart, args.start}
  /\ stop_timestr \in {DefaultStop, args.stop}
  /\ start_time \in 0 .. TimeModulus - 1 /\ stop_time \in 0 .. TimeModulus - 1
  /\ blk \in Nat /\ max_blk \in 0 .. ScanLimit
  /\ chunk_header_count \in 0 .. ScanLimit
  /\ report \in Seq([type : {"timestamps", "offsets", "chunk headers"}, blk : Nat]
                      \cup [type : {"count"}, n : Nat])
  /\ pc \in Ended \cup {"window", "parse", "identify", "open_ext2", "open_file",
                        "start", "scan", "classify"}

(***************************************************************************)
(* The blocks the loop looks at, and what they are.                        *)
(***************************************************************************)
Scanned(limit) == {b \in first_blknum .. limit - 1 : ~is_allocated(b)}

TypesOf(b) ==
  LET contents == Block(b, Size) IN
  {t \in {"timestamps", "offsets", "chunk"} :
     /\ Holds(b, Size)
     /\ t = "timestamps" => HasTimestamps(contents, start_time, stop_time)
     /\ t = "offsets" => HasOffsets(contents)
     /\ t = "chunk" => HasEncodedChunk(contents)}

LinesOf(types) == {i \in DOMAIN report : report[i].type \in types}
TableLines == LinesOf({"timestamps", "offsets"})
Runs == LinesOf({"chunk headers"})
Counts == LinesOf({"count"})

Listed == {<<report[i].type, report[i].blk>> : i \in TableLines}

(***************************************************************************)
(* What the reader of a report relies on to take it apart again: a block   *)
(* is named once, in ascending order; every run has its count right after  *)
(* it and no other line has one, the last run's count being pending while  *)
(* the scan is on.  It holds whatever the reads do.                        *)
(***************************************************************************)
ReportParses ==
  /\ \A i, j \in DOMAIN report \ Counts :
       i < j => report[i].blk < report[j].blk
  /\ \A i \in Counts : i - 1 \in Runs
  /\ \A i \in Runs : i + 1 \in Counts \/ (i = Len(report) /\ pc # "exited")
  /\ chunk_header_count > 0 <=> Len(report) \in Runs

(***************************************************************************)
(* As long as no read has failed, the lines about tables are exactly the   *)
(* tables among the blocks passed.                                         *)
(***************************************************************************)
TablesExact ==
  reader.good =>
    Listed = UNION {(TypesOf(b) \cap {"timestamps", "offsets"}) \X {b} : b \in Scanned(blk)}

(***************************************************************************)
(* And a run starts at a chunk and counts the chunks from there to the     *)
(* next table, or to the end of the scan.                                  *)
(***************************************************************************)
RunEnd(i) == IF i + 2 \in DOMAIN report THEN report[i + 2].blk ELSE blk
RunCount(i) == IF i + 1 \in DOMAIN report THEN report[i + 1].n ELSE chunk_header_count

RunsExact ==
  reader.good =>
    \A i \in Runs :
      LET run == {b \in Scanned(RunEnd(i)) : b >= report[i].blk /\ "chunk" \in TypesOf(b)}
      IN  report[i].blk \in run /\ RunCount(i) = Cardinality(run)

(***************************************************************************)
(* Once a read of a plain file has left something else in the buffer than  *)
(* the block asked for, no read of the rest of the image changes it: all   *)
(* that is reported from there on is about those bytes.  (Of a plain file  *)
(* no block is skipped, so the last one read is at or just before blk.)    *)
(***************************************************************************)
Misdelivered ==
  \/ pc = "classify" /\ buffer # Block(blk, Size)
  \/ pc = "scan" /\ reader.kind = "file" /\ blk > 0 /\ buffer # Block(blk - 1, Size)

SameBytesOnceMisdelivered == [][Misdelivered => buffer' = buffer]_vars

(***************************************************************************)
(* The program ends.                                                       *)
(***************************************************************************)
Terminates == <>(pc \in Ended)

(***************************************************************************)
(* If the reads of a plain file do not fail, mcarve implements Carver: it  *)
(* exits normally only after it has examined every block in its range, has *)
(* listed their tables and counted their chunks.                           *)
(***************************************************************************)
ScanBegun == reader # NoReader /\ pc # "start"

TypesToFind == IF ScanBegun THEN [b \in Scanned(max_blk) |-> TypesOf(b)] ELSE << >>
Examined == IF ScanBegun THEN Scanned(blk) \cap Scanned(max_blk) ELSE {}
ChunksCounted ==
  chunk_header_count + SumFunctionOnSet([i \in Counts |-> report[i].n], Counts)
Progress ==
  CASE pc = "exited" -> "complete"
    [] pc \in {"refused", "aborted"} -> "failed"
    [] OTHER -> IF ScanBegun THEN "scanning" ELSE "idle"

Carving ==
  INSTANCE Carver WITH
    Blocks <- 0 .. ScanLimit - 1,
    types <- TypesToFind,
    examined <- Examined,
    listed <- Listed,
    chunks <- ChunksCounted,
    status <- Progress

ImplementsCarver == Carving!Spec
-----------------------------------------------------------------------------
(***************************************************************************)
(* The help text of --start (mcarve.cpp:48-49) says that it gives the      *)
(* minimum accepted timestamp.                                             *)
(***************************************************************************)
StartIsMinimumAccepted ==
  reader.good =>
    \A i \in LinesOf({"timestamps"}) : \A k \in Index :
      LET word == Block(report[i].blk, Size)[k]
      IN  word = 0 \/ word >= ToUint32(parse_time(args.start))
=============================================================================
