---------------------------- MODULE Mcarve_proofs ----------------------------
(***************************************************************************)
(* Proofs about mcarve's main: for every image, command line and clock,    *)
(* and whatever the reads do, the report parses; it is exact about tables  *)
(* and runs of chunks until a read has failed; and main implements Carver, *)
(* if the reads of a plain file do not fail.                               *)
(***************************************************************************)
EXTENDS Mcarve, Sums_proofs, SequenceTheorems, FiniteSetTheorems
-----------------------------------------------------------------------------
(***************************************************************************)
(* Facts about the readers that the scan relies on.                        *)
(***************************************************************************)
ReaderType == [kind : Kinds \cup {"none"}, total : Nat, good : BOOLEAN]

(***************************************************************************)
(* A reader of a file counts only blocks the file holds, so that each of   *)
(* its reads has a block to deliver.                                       *)
(***************************************************************************)
CountsWhatItHolds ==
  reader.kind \in {"file", "mmap"} => reader.total * Size <= Len(image.data)

(***************************************************************************)
(* A block that the image holds is a buffer.                               *)
(***************************************************************************)
LEMMA BlockIsBuffer ==
  ASSUME image \in Images, NEW b \in Nat, Holds(b, Size)
  PROVE  Block(b, Size) \in Buffer
<1>1. image.data \in Seq(Nat)
  BY ImagesAssumption DEF ImageType
<1>2. Size \in Nat /\ b * Size \in Nat
  BY SizeAssumption
<1>3. (b + 1) * Size = b * Size + Size
  BY <1>2
<1>4. ASSUME NEW k \in 0 .. Size - 1
      PROVE  b * Size + k + 1 \in 1 .. Len(image.data)
  BY <1>1, <1>2, <1>3 DEF Holds
<1>5. \A k \in 0 .. Size - 1 : image.data[b * Size + k + 1] \in Nat
  BY <1>1, <1>4
<1> QED
  BY <1>5 DEF Block, Buffer, Index

(***************************************************************************)
(* Whole blocks are counted: their words are no more than the file's.      *)
(***************************************************************************)
LEMMA WholeBlocks ==
  ASSUME NEW n \in Nat
  PROVE  /\ n \div Size \in Nat
         /\ (n \div Size) * Size <= n
BY SizeAssumption

LEMMA BlockCounted ==
  ASSUME image \in Images, reader \in ReaderType, CountsWhatItHolds, NEW b \in Nat,
         reader.kind \in {"file", "mmap"}, b < reader.total
  PROVE  Holds(b, Size)
<1>1. reader.total \in Nat /\ Size \in Nat /\ b + 1 <= reader.total
  BY SizeAssumption DEF ReaderType
<1>2. (b + 1) * Size <= reader.total * Size
  BY <1>1
<1>3. Len(image.data) \in Nat
  BY ImagesAssumption DEF ImageType
<1> QED
  BY <1>1, <1>2, <1>3 DEF CountsWhatItHolds, Holds

(***************************************************************************)
(* A new prefix in front of an old rest is a buffer, too.                  *)
(***************************************************************************)
LEMMA PartialReadIsBuffer ==
  ASSUME image \in Images, buffer \in Buffer, NEW b \in Nat, Holds(b, Size), ReadFails(b)
  PROVE  buffer' \in Buffer
<1>1. Block(b, Size) \in Buffer
  BY BlockIsBuffer
<1>2. PICK n \in 0 .. Size - 1 :
        buffer' = [k \in Index |-> IF k < n THEN Block(b, Size)[k] ELSE buffer[k]]
  BY DEF ReadFails
<1> QED
  BY <1>1, <1>2 DEF Buffer
-----------------------------------------------------------------------------
(***************************************************************************)
(* A constructor leaves a reader that counts what its file holds, and a    *)
(* stream that is good unless the file cannot seek.                        *)
(***************************************************************************)
LEMMA ConstructorsCount ==
  ASSUME image \in Images, OpenExt2 \/ OpenFile \/ OpenFileUnseekable \/ OpenMmap
  PROVE  /\ image' = image /\ buffer' = buffer
         /\ reader' \in ReaderType
         /\ CountsWhatItHolds'
         /\ "file" \notin Faulty => reader'.good
<1>1. image' = image /\ buffer' = buffer
  BY DEF OpenExt2, OpenFile, OpenFileUnseekable, OpenMmap
<1>2. Len(image.data) \in Nat /\ image.fs_blocks \in Nat
  BY ImagesAssumption DEF ImageType
<1>3. /\ Len(image.data) \div Size \in Nat
      /\ (Len(image.data) \div Size) * Size <= Len(image.data)
  BY <1>2, WholeBlocks
<1>4. CASE OpenExt2
  BY <1>1, <1>2, <1>4 DEF OpenExt2, fs_blocks_count, CountsWhatItHolds,
                          ReaderType, Kinds
<1>5. CASE OpenFile
  BY <1>1, <1>3, <1>5 DEF OpenFile, CountsWhatItHolds, ReaderType, Kinds
<1>6. CASE OpenFileUnseekable
  BY <1>1, <1>2, <1>6, SizeAssumption
     DEF OpenFileUnseekable, CountsWhatItHolds, ReaderType, Kinds
<1>7. CASE OpenMmap
  BY <1>1, <1>3, <1>7 DEF OpenMmap, CountsWhatItHolds, ReaderType, Kinds
<1> QED
  BY <1>4, <1>5, <1>6, <1>7

(***************************************************************************)
(* A read that returns, in whichever of the three ways, leaves a buffer;   *)
(* it is the block as long as the stream is good.                          *)
(***************************************************************************)
LEMMA ReadsDeliverWhileGood ==
  ASSUME image \in Images, reader \in ReaderType, buffer \in Buffer, CountsWhatItHolds,
         NEW b \in Nat, ReadReturns(b) \/ ReadFails(b) \/ ReadIgnored(b)
  PROVE  /\ image' = image
         /\ buffer' \in Buffer
         /\ reader' \in ReaderType
         /\ reader'.kind = reader.kind /\ reader'.total = reader.total
         /\ CountsWhatItHolds'
         /\ reader'.good => reader.good /\ Holds(b, Size) /\ buffer' = Block(b, Size)
         /\ "file" \notin Faulty => reader'.good = reader.good
<1>1. image' = image
  BY DEF ReadReturns, Ext2ReadBlock, FileReadBlock, MmapReadBlock, ReadFails,
         ReadIgnored, reader_vars
<1>2. CASE ReadReturns(b)
  <2>1. buffer' \in Buffer
    BY <1>2, BlockIsBuffer DEF ReadReturns, Ext2ReadBlock, FileReadBlock,
                               MmapReadBlock
  <2> QED
    BY <1>1, <1>2, <2>1 DEF ReadReturns, Ext2ReadBlock, FileReadBlock,
                            MmapReadBlock, CountsWhatItHolds
<1>3. CASE ReadFails(b)
  <2>1. buffer' \in Buffer
    BY <1>3, BlockCounted, PartialReadIsBuffer DEF ReadFails
  <2>2. reader' = [kind |-> reader.kind, total |-> reader.total, good |-> FALSE]
    BY <1>3 DEF ReadFails, ReaderType
  <2>3. "file" \in Faulty
    BY <1>3 DEF ReadFails
  <2> QED
    BY <1>1, <2>1, <2>2, <2>3 DEF CountsWhatItHolds, ReaderType
<1>4. CASE ReadIgnored(b)
  BY <1>1, <1>4 DEF ReadIgnored, reader_vars, CountsWhatItHolds
<1> QED
  BY <1>2, <1>3, <1>4
-----------------------------------------------------------------------------
ParsedStart == ToUint32(parse_time(DefaultStart))
-----------------------------------------------------------------------------
(***************************************************************************)
(* The three tests exclude each other, once the window has been computed.  *)
(***************************************************************************)
LEMMA WindowBounds ==
  /\ TimeModulus \in Nat /\ TimeModulus > 0
  /\ ParsedStart \in 0 .. TimeModulus - 1
  /\ CompCmfFlg + 255 < ParsedStart
<1>1. TimeOf[DefaultStart] \in Int
  BY TimeOfAssumption
<1>2. TimeModulus \in Nat \ {0}
  BY TimeModulusAssumption
<1>3. TimeOf[DefaultStart] % TimeModulus \in 0 .. TimeModulus - 1
  BY <1>1, <1>2
<1> QED
  BY <1>2, <1>3, WindowAssumption DEF ParsedStart, ToUint32, parse_time

LEMMA OffsetWordsSmall ==
  ASSUME NEW buf \in Buffer, HasOffsets(buf), NEW k \in Index
  PROVE  buf[k] <= 16777215
<1>1. MaxOffset \in Nat /\ MaxOffset <= 65535
  BY MaxOffsetAssumption, OffsetWidthAssumption
<1>2. buf[k] \in Nat /\ buf[k] \div 256 <= MaxOffset
  BY DEF HasOffsets, OffsetsInRange, ChunkOffset, Buffer
<1> QED
  BY <1>1, <1>2

LEMMA EncodedWord ==
  ASSUME NEW buf \in Buffer, HasEncodedChunk(buf)
  PROVE  /\ 1 \in Index
         /\ CompCmfFlg <= buf[1] /\ buf[1] <= CompCmfFlg + 255
<1>1. Size \in Nat /\ Size >= 2 /\ 1 \in Index
  BY SizeAssumption DEF HasEncodedChunk, Index
<1>2. buf[1] \in Nat
  BY <1>1 DEF Buffer
<1>3. buf[1] - (buf[1] % 256) = CompCmfFlg
  BY DEF HasEncodedChunk
<1>4. buf[1] % 256 \in 0 .. 255
  BY <1>2
<1>5. CompCmfFlg \in Nat
  BY SMT DEF CompCmfFlg
<1>6. PICK last \in 0 .. 255 : buf[1] = CompCmfFlg + last
  BY <1>2, <1>3, <1>4, <1>5
<1> QED
  BY <1>1, <1>5, <1>6

LEMMA ClassesExclude ==
  ASSUME NEW buf \in Buffer, start_time = ParsedStart
  PROVE  /\ ~(HasTimestamps(buf, start_time, stop_time) /\ HasOffsets(buf))
         /\ ~(HasTimestamps(buf, start_time, stop_time) /\ HasEncodedChunk(buf))
         /\ ~(HasOffsets(buf) /\ HasEncodedChunk(buf))
<1>1. start_time \in Nat /\ CompCmfFlg + 255 < start_time
  BY WindowBounds
<1>2. CompCmfFlg \in Nat /\ 16777215 < CompCmfFlg
  BY SMT DEF CompCmfFlg
<1>3. \A k \in Index : buf[k] \in Nat
  BY DEF Buffer
<1>4. ASSUME HasTimestamps(buf, start_time, stop_time), HasOffsets(buf)
      PROVE  FALSE
  <2>1. PICK k \in Index : buf[k] # 0
    BY <1>4 DEF HasTimestamps
  <2>2. start_time <= buf[k]
    BY <1>4, <2>1 DEF HasTimestamps
  <2>3. buf[k] <= 16777215
    BY <1>4, OffsetWordsSmall
  <2> QED
    BY <1>1, <1>2, <1>3, <2>2, <2>3, SMT
<1>5. ASSUME HasTimestamps(buf, start_time, stop_time), HasEncodedChunk(buf)
      PROVE  FALSE
  <2>1. 1 \in Index /\ CompCmfFlg <= buf[1] /\ buf[1] <= CompCmfFlg + 255
    BY <1>5, EncodedWord
  <2>2. buf[1] = 0 \/ start_time <= buf[1]
    BY <1>5, <2>1 DEF HasTimestamps
  <2> QED
    BY <1>1, <1>2, <1>3, <2>1, <2>2, SMT
<1>6. ASSUME HasOffsets(buf), HasEncodedChunk(buf)
      PROVE  FALSE
  <2>1. 1 \in Index /\ CompCmfFlg <= buf[1]
    BY <1>6, EncodedWord
  <2>2. buf[1] <= 16777215
    BY <1>6, <2>1, OffsetWordsSmall
  <2> QED
    BY <1>2, <1>3, <2>1, <2>2, SMT
<1> QED
  BY <1>4, <1>5, <1>6
-----------------------------------------------------------------------------
(***************************************************************************)
(* The report as it grows.  WellFormed is ReportParses without the counter *)
(* and the end of the program; PendingRun says that the last line begins a *)
(* run.                                                                    *)
(***************************************************************************)
LineItems == [type : {"timestamps", "offsets", "chunk headers"}, blk : Nat]
CountItems == [type : {"count"}, n : Nat]
Items == LineItems \cup CountItems

RunsIn(r) == {i \in DOMAIN r : r[i].type = "chunk headers"}
CountsIn(r) == {i \in DOMAIN r : r[i].type = "count"}
PendingRun(r) == Len(r) \in RunsIn(r)

WellFormed(r, limit) ==
  /\ r \in Seq(Items)
  /\ \A i, j \in DOMAIN r \ CountsIn(r) : i < j => r[i].blk < r[j].blk
  /\ \A i \in DOMAIN r \ CountsIn(r) : r[i].blk < limit
  /\ \A i \in CountsIn(r) : i - 1 \in RunsIn(r)
  /\ \A i \in RunsIn(r) : i + 1 \in CountsIn(r) \/ i = Len(r)

ListedIn(r) ==
  {<<r[i].type, r[i].blk>> : i \in {k \in DOMAIN r : r[k].type \in {"timestamps", "offsets"}}}

LEMMA AppendedItem ==
  ASSUME NEW r \in Seq(Items), NEW e \in Items
  PROVE  /\ Append(r, e) \in Seq(Items)
         /\ Len(Append(r, e)) = Len(r) + 1 /\ Len(r) \in Nat
         /\ DOMAIN r = 1 .. Len(r) /\ DOMAIN Append(r, e) = 1 .. Len(r) + 1
         /\ \A i \in 1 .. Len(r) : Append(r, e)[i] = r[i]
         /\ Append(r, e)[Len(r) + 1] = e
BY AppendProperties, LenProperties

LEMMA LineBlocks ==
  ASSUME NEW r \in Seq(Items)
  PROVE  \A i \in DOMAIN r \ CountsIn(r) : r[i].blk \in Nat
<1>1. \A i \in DOMAIN r : r[i] \in LineItems \cup CountItems
  BY DEF Items
<1>2. \A c \in CountItems : c.type = "count"
  BY DEF CountItems
<1>3. \A l \in LineItems : l.blk \in Nat
  BY DEF LineItems
<1> QED
  BY <1>1, <1>2, <1>3 DEF CountsIn

LEMMA SingletonProduct ==
  ASSUME NEW a, NEW b
  PROVE  {a} \X {b} = {<<a, b>>}
<1>1. \A x \in {a} \X {b} : x = <<a, b>>
  BY SMT
<1>2. <<a, b>> \in {a} \X {b}
  BY SMT
<1> QED
  BY <1>1, <1>2

LEMMA AppendLine ==
  ASSUME NEW limit \in Nat, NEW r, WellFormed(r, limit), ~PendingRun(r),
         NEW e \in LineItems, e.blk = limit
  PROVE  /\ WellFormed(Append(r, e), limit + 1)
         /\ PendingRun(Append(r, e)) <=> e.type = "chunk headers"
         /\ Len(Append(r, e)) \notin CountsIn(Append(r, e))
         /\ ListedIn(Append(r, e))
              = ListedIn(r) \cup ({e.type} \ {"chunk headers"}) \X {limit}
<1> DEFINE s == Append(r, e)
<1>1. r \in Seq(Items) /\ e \in Items
  BY DEF WellFormed, Items
<1>2. /\ s \in Seq(Items)
      /\ Len(s) = Len(r) + 1 /\ Len(r) \in Nat
      /\ DOMAIN r = 1 .. Len(r) /\ DOMAIN s = 1 .. Len(r) + 1
      /\ \A i \in 1 .. Len(r) : s[i] = r[i]
      /\ s[Len(r) + 1] = e
  BY <1>1, AppendedItem
<1>3. e.type # "count"
  BY DEF LineItems
<1>4. e.type # "count" /\ Len(r) + 1 \notin DOMAIN r
  BY <1>3, <1>2
<1> HIDE DEF s
<1>5. \A i : i \in DOMAIN s <=> i \in DOMAIN r \/ i = Len(r) + 1
  BY <1>2
<1>6. \A i \in DOMAIN r : s[i] = r[i]
  BY <1>2
<1>7. CountsIn(s) = CountsIn(r)
  BY <1>2, <1>4, <1>5, <1>6 DEF CountsIn
<1>8. RunsIn(s) = RunsIn(r) \cup (IF e.type = "chunk headers" THEN {Len(r) + 1} ELSE {})
  BY <1>2, <1>4, <1>5, <1>6 DEF RunsIn
<1>9. \A i \in DOMAIN r \ CountsIn(r) : r[i].blk \in Nat
  BY <1>1, LineBlocks
<1>10. WellFormed(s, limit + 1)
  <2>1. \A i \in DOMAIN s \ CountsIn(s) :
          s[i].blk < limit + 1 /\ \A j \in DOMAIN s \ CountsIn(s) : i < j => s[i].blk < s[j].blk
    BY <1>2, <1>4, <1>7, <1>9, <1>5, <1>6 DEF WellFormed
  <2>2. \A i \in CountsIn(s) : i - 1 \in RunsIn(s)
    BY <1>7, <1>8 DEF WellFormed
  <2>3. \A i \in RunsIn(s) : i + 1 \in CountsIn(s) \/ i = Len(s)
    BY <1>2, <1>7, <1>8 DEF WellFormed, PendingRun
  <2> QED
    BY <1>2, <2>1, <2>2, <2>3 DEF WellFormed
<1>11. PendingRun(s) <=> e.type = "chunk headers"
  BY <1>2, <1>4, <1>5 DEF PendingRun, RunsIn
<1>12. ListedIn(s) = ListedIn(r) \cup ({e.type} \ {"chunk headers"}) \X {limit}
  <2> DEFINE tables(q) == {k \in DOMAIN q : q[k].type \in {"timestamps", "offsets"}}
  <2>1. tables(s) = tables(r) \cup (IF e.type = "chunk headers" THEN {} ELSE {Len(r) + 1})
    <3>1. e.type \in {"timestamps", "offsets", "chunk headers"}
      BY DEF LineItems
    <3> QED
      BY <1>2, <1>4, <1>5, <1>6, <3>1
  <2>2. \A k \in tables(r) : s[k] = r[k]
    BY <1>6
  <2> HIDE DEF tables
  <2>3. {<<s[k].type, s[k].blk>> : k \in tables(s)}
          = {<<r[k].type, r[k].blk>> : k \in tables(r)}
            \cup ({e.type} \ {"chunk headers"}) \X {limit}
    <3>1. CASE e.type = "chunk headers"
      <4>1. tables(s) = tables(r)
        BY <2>1, <3>1
      <4>2. ({e.type} \ {"chunk headers"}) \X {limit} = {}
        BY <3>1
      <4>3. {<<s[k].type, s[k].blk>> : k \in tables(r)}
              = {<<r[k].type, r[k].blk>> : k \in tables(r)}
        BY <2>2
      <4> QED
        BY <4>1, <4>2, <4>3
    <3>2. CASE e.type # "chunk headers"
      <4>1. tables(s) = tables(r) \cup {Len(r) + 1}
        BY <2>1, <3>2
      <4>2. ({e.type} \ {"chunk headers"}) \X {limit} = {<<e.type, e.blk>>}
        <5>1. {e.type} \ {"chunk headers"} = {e.type} /\ limit = e.blk
          BY <3>2
        <5> QED
          BY <5>1, SingletonProduct
      <4>3. <<s[Len(r) + 1].type, s[Len(r) + 1].blk>> = <<e.type, e.blk>>
        BY <1>2
      <4>4. {<<s[k].type, s[k].blk>> : k \in tables(r)}
              = {<<r[k].type, r[k].blk>> : k \in tables(r)}
        BY <2>2
      <4>5. {<<s[k].type, s[k].blk>> : k \in tables(r) \cup {Len(r) + 1}}
              = {<<s[k].type, s[k].blk>> : k \in tables(r)}
                  \cup {<<s[Len(r) + 1].type, s[Len(r) + 1].blk>>}
        OBVIOUS
      <4> QED
        BY <4>1, <4>2, <4>3, <4>4, <4>5
    <3> QED
      BY <3>1, <3>2
  <2> QED
    BY <2>3 DEF ListedIn, tables
<1>13. Len(s) \notin CountsIn(s)
  BY <1>3, <1>2 DEF CountsIn
<1> QED
  BY <1>10, <1>11, <1>12, <1>13 DEF s

LEMMA AppendCount ==
  ASSUME NEW limit \in Nat, NEW r, WellFormed(r, limit), PendingRun(r), NEW n \in Nat
  PROVE  /\ WellFormed(Append(r, CountLine(n)), limit)
         /\ ~PendingRun(Append(r, CountLine(n)))
         /\ ListedIn(Append(r, CountLine(n))) = ListedIn(r)
<1> DEFINE s == Append(r, CountLine(n))
<1>1. r \in Seq(Items) /\ CountLine(n) \in Items
  BY DEF WellFormed, CountLine, Items, CountItems
<1>2. /\ s \in Seq(Items)
      /\ Len(s) = Len(r) + 1 /\ Len(r) \in Nat
      /\ DOMAIN r = 1 .. Len(r) /\ DOMAIN s = 1 .. Len(r) + 1
      /\ \A i \in 1 .. Len(r) : s[i] = r[i]
      /\ s[Len(r) + 1] = CountLine(n)
  BY <1>1, AppendedItem
<1>3. s[Len(r) + 1].type = "count" /\ Len(r) + 1 \notin DOMAIN r
  BY <1>2 DEF CountLine
<1> HIDE DEF s
<1>4. \A i : i \in DOMAIN s <=> i \in DOMAIN r \/ i = Len(r) + 1
  BY <1>2
<1>5. \A i \in DOMAIN r : s[i] = r[i]
  BY <1>2
<1>6. CountsIn(s) = CountsIn(r) \cup {Len(r) + 1}
  BY <1>3, <1>4, <1>5 DEF CountsIn
<1>7. RunsIn(s) = RunsIn(r)
  BY <1>3, <1>4, <1>5 DEF RunsIn
<1>8. WellFormed(s, limit)
  BY <1>2, <1>6, <1>7 DEF WellFormed, PendingRun
<1>9. ~PendingRun(s)
  BY <1>2, <1>3 DEF PendingRun, RunsIn
<1>10. ListedIn(s) = ListedIn(r)
  BY <1>3, <1>4, <1>5 DEF ListedIn
<1> QED
  BY <1>8, <1>9, <1>10 DEF s
-----------------------------------------------------------------------------
(***************************************************************************)
(* The inductive invariant.  Before the scan there is nothing to report;   *)
(* in it the run being counted lies behind, and so do the blocks in the    *)
(* report; and a block to be classified is in the buffer, unless a read    *)
(* has failed.                                                             *)
(***************************************************************************)
BeforeScan == {"window", "parse", "refused", "identify", "open_ext2", "open_file", "start"}

NothingYet ==
  /\ pc \in BeforeScan => blk = 0 /\ chunk_header_count = 0 /\ report = <<>>
  /\ pc = "window" => start_timestr = DefaultStart /\ stop_timestr = DefaultStop
  /\ pc # "window" => start_time = ParsedStart

Behind ==
  pc \in {"scan", "classify"} =>
    /\ first_blknum <= blk /\ chunk_header_count <= blk
    /\ chunk_header_count > 0 => blk <= max_blk

Delivered ==
  pc = "classify" =>
    /\ blk < max_blk /\ ~is_allocated(blk)
    /\ reader.good => Holds(blk, Size) /\ buffer = Block(blk, Size)

ReportGrows ==
  /\ WellFormed(report, blk)
  /\ chunk_header_count > 0 <=> PendingRun(report)
  /\ pc = "exited" => chunk_header_count = 0
  /\ pc # "exited" => Len(report) \notin CountsIn(report)

IInv ==
  /\ TypeOK
  /\ CountsWhatItHolds
  /\ NothingYet
  /\ Behind
  /\ Delivered
  /\ ReportGrows
  /\ TablesExact
  /\ RunsExact

LEMMA FirstBlock ==
  ASSUME TypeOK
  PROVE  first_blknum \in Nat
BY ImagesAssumption DEF TypeOK, ImageType, first_blknum, first_data_block

LEMMA Counters ==
  ASSUME TypeOK
  PROVE  blk \in Nat /\ max_blk \in Nat /\ chunk_header_count \in Nat
<1>1. blk \in Nat /\ max_blk \in 0 .. ScanLimit /\ chunk_header_count \in 0 .. ScanLimit
  BY DEF TypeOK
<1> QED
  BY <1>1, ScanLimitAssumption

LEMMA InitialStates == Init => IInv
<1> SUFFICES ASSUME Init
             PROVE  IInv
  OBVIOUS
<1>1. TypeOK
  <2>1. 0 \in 0 .. TimeModulus - 1 /\ 0 \in 0 .. ScanLimit /\ 0 \in Nat
    BY ScanLimitAssumption, WindowBounds
  <2>2. reader \in ReaderType
    BY DEF Init, NoReader, ReaderType, Kinds
  <2>3. report \in Seq(LineItems \cup CountItems)
    BY DEF Init
  <2> QED
    BY <2>1, <2>2, <2>3, GarbageAssumption
       DEF Init, TypeOK, ReaderType, LineItems, CountItems
<1>2. CountsWhatItHolds /\ NothingYet /\ Behind /\ Delivered
  BY DEF Init, CountsWhatItHolds, NoReader, NothingYet, BeforeScan, Behind, Delivered
<1>3. ReportGrows
  BY DEF Init, ReportGrows, WellFormed, PendingRun, RunsIn, CountsIn
<1>4. Listed = {} /\ Scanned(blk) = {}
  BY <1>1, FirstBlock DEF Init, Listed, TableLines, LinesOf, Scanned
<1> QED
  BY <1>1, <1>2, <1>3, <1>4 DEF IInv, TablesExact, Init, RunsExact, Runs, LinesOf
-----------------------------------------------------------------------------
(***************************************************************************)
(* What the body of the loop adds to the report: nothing, a line about the *)
(* block, or the count of the run that the line ends and that line.        *)
(***************************************************************************)
LEMMA EmptyParts ==
  \A r \in Seq(Items) : \A e, f \in Items :
         /\ r \o <<>> \o <<>> \o <<>> \o <<>> = r
         /\ r \o <<>> \o <<>> \o <<>> \o <<e>> = Append(r, e)
         /\ r \o <<>> \o <<>> \o <<e>> \o <<>> = Append(r, e)
         /\ r \o <<>> \o <<e>> \o <<>> \o <<>> = Append(r, e)
         /\ r \o <<f>> \o <<>> \o <<e>> \o <<>> = Append(Append(r, f), e)
         /\ r \o <<f>> \o <<e>> \o <<>> \o <<>> = Append(Append(r, f), e)
<1> SUFFICES ASSUME NEW r \in Seq(Items), NEW e \in Items, NEW f \in Items
             PROVE  /\ r \o <<>> \o <<>> \o <<>> \o <<>> = r
                    /\ r \o <<>> \o <<>> \o <<>> \o <<e>> = Append(r, e)
                    /\ r \o <<>> \o <<>> \o <<e>> \o <<>> = Append(r, e)
                    /\ r \o <<>> \o <<e>> \o <<>> \o <<>> = Append(r, e)
                    /\ r \o <<f>> \o <<>> \o <<e>> \o <<>> = Append(Append(r, f), e)
                    /\ r \o <<f>> \o <<e>> \o <<>> \o <<>> = Append(Append(r, f), e)
  BY Zenon
<1>1. r \o <<>> = r
  BY ConcatEmptySeq
<1>2. r \o <<e>> = Append(r, e) /\ r \o <<f>> = Append(r, f)
  BY AppendIsConcat
<1>3. Append(r, e) \in Seq(Items) /\ Append(r, f) \in Seq(Items)
  BY AppendProperties
<1>4. Append(r, e) \o <<>> = Append(r, e) /\ Append(r, f) \o <<>> = Append(r, f)
  BY <1>3, ConcatEmptySeq
<1>5. /\ Append(r, f) \o <<e>> = Append(Append(r, f), e)
      /\ Append(Append(r, f), e) \in Seq(Items)
  BY <1>3, AppendIsConcat, AppendProperties
<1>6. Append(Append(r, f), e) \o <<>> = Append(Append(r, f), e)
  BY <1>5, ConcatEmptySeq
<1> QED
  BY <1>1, <1>2, <1>4, <1>5, <1>6, Zenon

IsTable(t) ==
  \/ t = "timestamps" /\ HasTimestamps(buffer, start_time, stop_time)
  \/ t = "offsets" /\ HasOffsets(buffer)

NoTable == \A t \in {"timestamps", "offsets"} : ~IsTable(t)

FindsNothing ==
  /\ NoTable /\ ~HasEncodedChunk(buffer)
  /\ report' = report /\ chunk_header_count' = chunk_header_count

ContinuesRun ==
  /\ NoTable /\ HasEncodedChunk(buffer) /\ chunk_header_count > 0
  /\ report' = report /\ chunk_header_count' = chunk_header_count + 1

OpensRun ==
  /\ NoTable /\ HasEncodedChunk(buffer) /\ chunk_header_count = 0
  /\ report' = Append(report, Line("chunk headers", blk))
  /\ chunk_header_count' = 1

FindsTable(t) ==
  /\ ~HasEncodedChunk(buffer)
  /\ \A u \in {"timestamps", "offsets"} : IsTable(u) <=> u = t
  /\ chunk_header_count' = 0
  /\ \/ chunk_header_count = 0 /\ report' = Append(report, Line(t, blk))
     \/ /\ chunk_header_count > 0
        /\ report' = Append(Append(report, CountLine(chunk_header_count)), Line(t, blk))

LEMMA ClassifyCases ==
  ASSUME IInv, Classify
  PROVE  \/ FindsNothing
         \/ ContinuesRun
         \/ OpensRun
         \/ \E t \in {"timestamps", "offsets"} : FindsTable(t)
<1>1. report \in Seq(Items) /\ blk \in Nat /\ chunk_header_count \in Nat
  <2>1. chunk_header_count \in 0 .. ScanLimit /\ blk \in Nat
    BY DEF IInv, TypeOK
  <2>2. report \in Seq(Items)
    BY DEF IInv, TypeOK, Items, LineItems, CountItems
  <2> QED
    BY <2>1, <2>2, ScanLimitAssumption
<1>2. /\ \A t \in {"timestamps", "offsets", "chunk headers"} : Line(t, blk) \in Items
      /\ CountLine(chunk_header_count) \in Items
  BY <1>1 DEF Items, LineItems, CountItems, Line, CountLine
<1>3. \A e, f \in Items :
        /\ report \o <<>> \o <<>> \o <<>> \o <<>> = report
        /\ report \o <<>> \o <<>> \o <<>> \o <<e>> = Append(report, e)
        /\ report \o <<>> \o <<>> \o <<e>> \o <<>> = Append(report, e)
        /\ report \o <<>> \o <<e>> \o <<>> \o <<>> = Append(report, e)
        /\ report \o <<f>> \o <<>> \o <<e>> \o <<>> = Append(Append(report, f), e)
        /\ report \o <<f>> \o <<e>> \o <<>> \o <<>> = Append(Append(report, f), e)
  BY <1>1, EmptyParts, Zenon
<1>4. CASE HasTimestamps(buffer, start_time, stop_time)
  <2>1. ~HasOffsets(buffer) /\ ~HasEncodedChunk(buffer)
    BY <1>4, ClassesExclude DEF IInv, TypeOK, NothingYet, Classify
  <2>2. report' = report \o CloseRun \o <<Line("timestamps", blk)>> \o <<>> \o <<>>
    BY <1>4, <2>1 DEF Classify
  <2>3. chunk_header_count' = 0
    BY <1>4, <2>1 DEF Classify
  <2>4. \A u \in {"timestamps", "offsets"} : IsTable(u) <=> u = "timestamps"
    BY <1>4, <2>1 DEF IsTable
  <2>5. CASE chunk_header_count = 0
    <3>1. CloseRun = <<>>
      BY <2>5 DEF CloseRun
    <3>2. report' = Append(report, Line("timestamps", blk))
      BY <1>3, <1>2, <2>2, <3>1, Zenon
    <3> QED
      BY <2>4, <2>1, <2>3, <2>5, <3>2 DEF FindsTable
  <2>6. CASE chunk_header_count > 0
    <3>1. report' = Append(Append(report, CountLine(chunk_header_count)), Line("timestamps", blk))
      BY <1>3, <1>2, <2>2, <2>6, Zenon DEF CloseRun
    <3> QED
      BY <2>4, <2>1, <2>3, <2>6, <3>1 DEF FindsTable
  <2> QED
    BY <1>1, <2>5, <2>6
<1>5. CASE HasOffsets(buffer)
  <2>1. ~HasTimestamps(buffer, start_time, stop_time) /\ ~HasEncodedChunk(buffer)
    BY <1>5, ClassesExclude DEF IInv, TypeOK, NothingYet, Classify
  <2>2. report' = report \o CloseRun \o <<>> \o <<Line("offsets", blk)>> \o <<>>
    BY <1>5, <2>1 DEF Classify
  <2>3. chunk_header_count' = 0
    BY <1>5, <2>1 DEF Classify
  <2>4. \A u \in {"timestamps", "offsets"} : IsTable(u) <=> u = "offsets"
    BY <1>5, <2>1 DEF IsTable
  <2>5. CASE chunk_header_count = 0
    <3>1. CloseRun = <<>>
      BY <2>5 DEF CloseRun
    <3>2. report' = Append(report, Line("offsets", blk))
      BY <1>3, <1>2, <2>2, <3>1, Zenon
    <3> QED
      BY <2>4, <2>1, <2>3, <2>5, <3>2 DEF FindsTable
  <2>6. CASE chunk_header_count > 0
    <3>1. report' = Append(Append(report, CountLine(chunk_header_count)), Line("offsets", blk))
      BY <1>3, <1>2, <2>2, <2>6, Zenon DEF CloseRun
    <3> QED
      BY <2>4, <2>1, <2>3, <2>6, <3>1 DEF FindsTable
  <2> QED
    BY <1>1, <2>5, <2>6
<1>6. CASE ~HasTimestamps(buffer, start_time, stop_time) /\ ~HasOffsets(buffer)
  <2>1. NoTable
    BY <1>6 DEF NoTable, IsTable
  <2>2. CASE ~HasEncodedChunk(buffer)
    <3>1. report' = report \o <<>> \o <<>> \o <<>> \o <<>>
      BY <1>6, <2>2 DEF Classify
    <3>2. report' = report
      BY <1>3, <1>2, <3>1, Zenon
    <3>3. chunk_header_count' = chunk_header_count
      BY <1>6, <2>2 DEF Classify
    <3> QED
      BY <2>1, <2>2, <3>2, <3>3 DEF FindsNothing
  <2>3. CASE HasEncodedChunk(buffer) /\ chunk_header_count > 0
    <3>1. chunk_header_count # 0
      BY <2>3
    <3>2. report' = report \o <<>> \o <<>> \o <<>> \o <<>>
      BY <1>6, <2>3, <3>1, Zenon DEF Classify
    <3>3. report' = report
      BY <1>3, <1>2, <3>2, Zenon
    <3>4. chunk_header_count' = chunk_header_count + 1
      BY <1>6, <2>3 DEF Classify
    <3> QED
      BY <2>1, <2>3, <3>3, <3>4 DEF ContinuesRun
  <2>4. CASE HasEncodedChunk(buffer) /\ chunk_header_count = 0
    <3>1. report' = report \o <<>> \o <<>> \o <<>> \o <<Line("chunk headers", blk)>>
      BY <1>6, <2>4 DEF Classify
    <3>2. report' = Append(report, Line("chunk headers", blk))
      BY <1>3, <1>2, <3>1, Zenon
    <3>3. chunk_header_count' = chunk_header_count + 1
      BY <1>6, <2>4, Zenon DEF Classify
    <3>4. chunk_header_count' = 1
      BY <2>4, <3>3
    <3> QED
      BY <2>1, <2>4, <3>2, <3>4, Zenon DEF OpensRun
  <2> QED
    BY <1>1, <2>2, <2>3, <2>4
<1> QED
  BY <1>4, <1>5, <1>6
-----------------------------------------------------------------------------
(***************************************************************************)
(* Up to the scan: nothing is reported, and nothing is behind.             *)
(***************************************************************************)
LEMMA NothingReported ==
  ASSUME TypeOK', report' = <<>>, chunk_header_count' = 0, blk' <= first_blknum'
  PROVE  ReportGrows' /\ TablesExact' /\ RunsExact'
<1>1. blk' \in Nat /\ first_blknum' \in Nat
  BY ImagesAssumption DEF TypeOK, ImageType, first_blknum, first_data_block
<1>2. Scanned(blk)' = {}
  BY <1>1 DEF Scanned
<1>3. Listed' = {}
  BY DEF Listed, TableLines, LinesOf
<1>4. TablesExact'
  BY <1>2, <1>3 DEF TablesExact
<1>5. DOMAIN report' = {} /\ Len(report') = 0 /\ report' \in Seq(Items)
  OBVIOUS
<1>6. ReportGrows'
  BY <1>5 DEF ReportGrows, WellFormed, PendingRun, RunsIn, CountsIn
<1>7. RunsExact'
  BY <1>5 DEF RunsExact, Runs, LinesOf
<1> QED
  BY <1>4, <1>6, <1>7

LEMMA WindowPreserves == IInv /\ ComputeWindow => IInv'
<1> SUFFICES ASSUME IInv, ComputeWindow
             PROVE  IInv'
  OBVIOUS
<1> USE DEF IInv
<1>1. start_time' = ParsedStart
  BY DEF ComputeWindow, NothingYet, ParsedStart
<1>2. stop_time' \in 0 .. TimeModulus - 1
  <2>1. PICK now \in Clocks : stop_time' = ToUint32(now)
    BY DEF ComputeWindow, NothingYet, DefaultStop
  <2>2. now \in Nat
    BY ClocksAssumption
  <2> QED
    BY <2>1, <2>2, WindowBounds DEF ToUint32
<1>3. TypeOK'
  BY <1>1, <1>2, WindowBounds DEF TypeOK, ComputeWindow, reader_vars, options, scan
<1>4. CountsWhatItHolds' /\ NothingYet' /\ Behind' /\ Delivered'
  BY <1>1 DEF ComputeWindow, reader_vars, options, scan, CountsWhatItHolds,
              NothingYet,
              BeforeScan, Behind, Delivered
<1>5. blk' <= first_blknum'
  BY <1>3, FirstBlock DEF ComputeWindow, reader_vars, scan, NothingYet,
                          BeforeScan, first_blknum,
     first_data_block
<1>6. report' = <<>> /\ chunk_header_count' = 0
  BY DEF ComputeWindow, scan, NothingYet, BeforeScan
<1> QED
  BY <1>3, <1>4, <1>5, <1>6, NothingReported

LEMMA OptionsPreserve ==
  IInv /\ (ParseCommandLine \/ RefuseCommandLine \/ Identify) => IInv'
<1> SUFFICES ASSUME IInv, ParseCommandLine \/ RefuseCommandLine \/ Identify
             PROVE  IInv'
  OBVIOUS
<1> USE DEF IInv
<1>1. /\ UNCHANGED <<reader_vars, args, window, scan>>
      /\ pc \in {"parse", "identify"}
      /\ pc' \in {"refused", "identify", "open_ext2", "open_file"}
      /\ start_timestr' \in {DefaultStart, args.start, start_timestr}
      /\ stop_timestr' \in {DefaultStop, args.stop, stop_timestr}
  BY DEF ParseCommandLine, RefuseCommandLine, Identify, options
<1>2. TypeOK'
  BY <1>1 DEF TypeOK, reader_vars, window, scan, Ended
<1>3. CountsWhatItHolds' /\ NothingYet' /\ Behind' /\ Delivered'
  BY <1>1 DEF reader_vars, window, scan, CountsWhatItHolds, NothingYet, BeforeScan,
              Behind, Delivered
<1>4. report' = <<>> /\ chunk_header_count' = 0 /\ blk' = 0
  BY <1>1 DEF scan, NothingYet, BeforeScan
<1>5. first_blknum' \in Nat
  BY <1>2, ImagesAssumption DEF TypeOK, ImageType, first_blknum, first_data_block
<1> QED
  BY <1>2, <1>3, <1>4, <1>5, NothingReported

LEMMA OpeningPreserves == IInv /\ (Open \/ OpenThrows) => IInv'
<1> SUFFICES ASSUME IInv, Open \/ OpenThrows
             PROVE  IInv'
  OBVIOUS
<1> USE DEF IInv
<1>1. /\ UNCHANGED <<options, window, scan>>
      /\ pc \in {"open_ext2", "open_file"} /\ pc' \in {"start", "aborted"}
  BY DEF Open, OpenThrows
<1>2. /\ image' = image /\ buffer' = buffer
      /\ reader' \in ReaderType
      /\ CountsWhatItHolds'
  <2>1. CASE Open
    BY <2>1, ConstructorsCount DEF TypeOK, Open
  <2>2. CASE OpenThrows
    <3>1. UNCHANGED reader_vars
      BY <2>2 DEF OpenThrows, OpenExt2Throws, OpenFileThrows
    <3> QED
      BY <3>1 DEF reader_vars, TypeOK, ReaderType, CountsWhatItHolds
  <2> QED
    BY <2>1, <2>2
<1>3. TypeOK'
  BY <1>1, <1>2 DEF TypeOK, ReaderType, options, window, scan, Ended
<1>4. NothingYet' /\ Behind' /\ Delivered'
  BY <1>1 DEF window, scan, NothingYet, BeforeScan, Behind, Delivered
<1>5. report' = <<>> /\ chunk_header_count' = 0 /\ blk' = 0
  BY <1>1 DEF scan, NothingYet, BeforeScan
<1>6. first_blknum' \in Nat
  BY <1>3, ImagesAssumption DEF TypeOK, ImageType, first_blknum, first_data_block
<1> QED
  BY <1>2, <1>3, <1>4, <1>5, <1>6, NothingReported

LEMMA StartPreserves == IInv /\ StartScan => IInv'
<1> SUFFICES ASSUME IInv, StartScan
             PROVE  IInv'
  OBVIOUS
<1> USE DEF IInv
<1>1. /\ UNCHANGED <<reader_vars, options, window, chunk_header_count, report>>
      /\ pc = "start" /\ pc' = "scan" /\ blk' = first_blknum
  BY DEF StartScan
<1>2. first_blknum' = first_blknum /\ first_blknum \in Nat
  BY <1>1, FirstBlock DEF reader_vars, first_blknum, first_data_block
<1>3. max_blk' \in 0 .. ScanLimit
  <2>1. blocks_count \in Nat
    BY DEF TypeOK, blocks_count
  <2> QED
    BY <2>1, ScanLimitAssumption DEF StartScan
<1>4. TypeOK'
  BY <1>1, <1>2, <1>3 DEF TypeOK, reader_vars, options, window
<1>5. chunk_header_count' = 0 /\ report' = <<>>
  BY <1>1 DEF NothingYet, BeforeScan
<1>6. CountsWhatItHolds' /\ NothingYet' /\ Behind' /\ Delivered'
  BY <1>1, <1>2, <1>5 DEF reader_vars, window, CountsWhatItHolds, NothingYet,
                          BeforeScan,
                          Behind, Delivered
<1> QED
  BY <1>1, <1>2, <1>4, <1>5, <1>6, NothingReported
-----------------------------------------------------------------------------
(***************************************************************************)
(* The scan.  While the image, the window and the kind of reader stay,     *)
(* what a block is and whether it is looked at stay.                       *)
(***************************************************************************)
TablesOf(b) == (TypesOf(b) \cap {"timestamps", "offsets"}) \X {b}

LEMMA SameBlocks ==
  ASSUME UNCHANGED <<image, start_time, stop_time>>, reader'.kind = reader.kind
  PROVE  /\ first_blknum' = first_blknum
         /\ \A b : /\ is_allocated(b)' = is_allocated(b)
                   /\ TypesOf(b)' = TypesOf(b)
                   /\ TablesOf(b)' = TablesOf(b)
<1>1. first_blknum' = first_blknum
  BY DEF first_blknum, first_data_block
<1>2. \A b : is_allocated(b)' = is_allocated(b)
  BY DEF is_allocated, block_is_used
<1>3. \A b : TypesOf(b)' = TypesOf(b)
  BY DEF TypesOf, Block, Holds
<1> QED
  BY <1>1, <1>2, <1>3 DEF TablesOf

LEMMA NextScanned ==
  ASSUME first_blknum \in Nat, NEW b \in Nat, first_blknum <= b
  PROVE  Scanned(b + 1) = Scanned(b) \cup (IF is_allocated(b) THEN {} ELSE {b})
<1>1. first_blknum .. b + 1 - 1 = (first_blknum .. b - 1) \cup {b}
  OBVIOUS
<1> QED
  BY <1>1 DEF Scanned
-----------------------------------------------------------------------------
(***************************************************************************)
(* Runs of chunk headers.                                                  *)
(***************************************************************************)
ChunksIn(from, to) == {b \in Scanned(to) : b >= from /\ "chunk" \in TypesOf(b)}

ExactRun(r, i, limit, n) ==
  LET chunks == ChunksIn(r[i].blk, IF i + 2 \in DOMAIN r THEN r[i + 2].blk ELSE limit)
  IN  /\ r[i].blk \in chunks
      /\ (IF i + 1 \in DOMAIN r THEN r[i + 1].n ELSE n) = Cardinality(chunks)

LEMMA RunsExactIs ==
  RunsExact <=>
    (reader.good => \A i \in RunsIn(report) : ExactRun(report, i, blk, chunk_header_count))
BY DEF RunsExact, Runs, LinesOf, RunsIn, ExactRun, ChunksIn, RunEnd, RunCount

LEMMA RunsExactNext ==
  ASSUME first_blknum' = first_blknum,
         \A b : is_allocated(b)' = is_allocated(b) /\ TypesOf(b)' = TypesOf(b)
  PROVE  RunsExact' <=>
           (reader'.good => \A i \in RunsIn(report') :
                              ExactRun(report', i, blk', chunk_header_count'))
BY DEF RunsExact, Runs, LinesOf, RunsIn, ExactRun, ChunksIn, RunEnd, RunCount, Scanned

(* A run but the last line has its count and the line that ended it.       *)
LEMMA FinishedRun ==
  ASSUME NEW limit, NEW r, WellFormed(r, limit), Len(r) \notin CountsIn(r),
         NEW i \in RunsIn(r), i # Len(r)
  PROVE  i + 1 \in DOMAIN r /\ i + 2 \in DOMAIN r
<1>1. r \in Seq(Items) /\ i \in DOMAIN r /\ i + 1 \in CountsIn(r) /\ i + 1 # Len(r)
  BY DEF WellFormed, RunsIn
<1>2. DOMAIN r = 1 .. Len(r) /\ Len(r) \in Nat
  BY <1>1
<1>3. i + 1 \in DOMAIN r
  BY <1>1 DEF CountsIn
<1> QED
  BY <1>1, <1>2, <1>3

(* So lines that are added do not change what it says.                     *)
LEMMA FinishedRunStays ==
  ASSUME NEW limit, NEW r, WellFormed(r, limit), Len(r) \notin CountsIn(r),
         NEW s, \A k \in DOMAIN r : k \in DOMAIN s /\ s[k] = r[k],
         NEW i \in RunsIn(r), i # Len(r), NEW n, ExactRun(r, i, limit, n),
         NEW later, NEW m
  PROVE  ExactRun(s, i, later, m)
<1>1. i \in DOMAIN r /\ i + 1 \in DOMAIN r /\ i + 2 \in DOMAIN r
  BY FinishedRun DEF RunsIn
<1>2. /\ i + 1 \in DOMAIN s /\ i + 2 \in DOMAIN s
      /\ s[i] = r[i] /\ s[i + 1] = r[i + 1] /\ s[i + 2] = r[i + 2]
  BY <1>1
<1> QED
  BY <1>1, <1>2 DEF ExactRun

LEMMA Extended ==
  \A r \in Seq(Items), e \in Items : \A s : s = Append(r, e) =>
         /\ s \in Seq(Items) /\ Len(s) = Len(r) + 1
         /\ \A k : k \in DOMAIN s <=> k \in DOMAIN r \/ k = Len(r) + 1
         /\ \A k \in DOMAIN r : s[k] = r[k]
         /\ s[Len(r) + 1] = e
         /\ Len(r) + 2 \notin DOMAIN s /\ Len(r) + 3 \notin DOMAIN s
<1> TAKE r \in Seq(Items), e \in Items
<1> TAKE s
<1> HAVE s = Append(r, e)
<1>1. /\ s \in Seq(Items) /\ Len(s) = Len(r) + 1 /\ Len(r) \in Nat
      /\ DOMAIN r = 1 .. Len(r) /\ DOMAIN s = 1 .. Len(r) + 1
      /\ \A i \in 1 .. Len(r) : s[i] = r[i]
      /\ s[Len(r) + 1] = e
  BY AppendedItem
<1>2. \A k : k \in DOMAIN s <=> k \in DOMAIN r \/ k = Len(r) + 1
  BY <1>1
<1>3. Len(r) + 2 \notin DOMAIN s /\ Len(r) + 3 \notin DOMAIN s
  BY <1>1
<1> QED
  BY <1>1, <1>2, <1>3

LEMMA NextChunks ==
  ASSUME first_blknum \in Nat, NEW b \in Nat, first_blknum <= b, ~is_allocated(b), NEW from \in Nat
  PROVE  /\ ChunksIn(from, b + 1)
              = ChunksIn(from, b) \cup (IF from <= b /\ "chunk" \in TypesOf(b) THEN {b} ELSE {})
         /\ b \notin ChunksIn(from, b)
         /\ IsFiniteSet(ChunksIn(from, b))
<1>1. Scanned(b + 1) = Scanned(b) \cup {b}
  BY NextScanned
<1>2. b \notin Scanned(b)
  BY DEF Scanned
<1>3. IsFiniteSet(ChunksIn(from, b))
  <2>1. IsFiniteSet(first_blknum .. b - 1)
    BY FS_Interval
  <2>2. ChunksIn(from, b) \subseteq first_blknum .. b - 1
    BY DEF ChunksIn, Scanned
  <2> QED
    BY <2>1, <2>2, FS_Subset
<1> QED
  BY <1>1, <1>2, <1>3 DEF ChunksIn

LEMMA ClassifyingCounts ==
  ASSUME IInv, Classify, reader.good
  PROVE  \A i \in RunsIn(report') : ExactRun(report', i, blk + 1, chunk_header_count')
<1>1. /\ blk \in Nat /\ chunk_header_count \in Nat /\ first_blknum \in Nat
      /\ first_blknum <= blk /\ ~is_allocated(blk)
      /\ WellFormed(report, blk) /\ (chunk_header_count > 0 <=> PendingRun(report))
      /\ Len(report) \notin CountsIn(report)
  BY Counters, FirstBlock DEF IInv, ReportGrows, Behind, Delivered, Classify
<1>2. \A i \in RunsIn(report) : ExactRun(report, i, blk, chunk_header_count)
  BY RunsExactIs DEF IInv
<1>3. "chunk" \in TypesOf(blk) <=> HasEncodedChunk(buffer)
  <2>1. Holds(blk, Size) /\ buffer = Block(blk, Size)
    BY DEF IInv, Delivered, Classify
  <2> QED
    BY <2>1 DEF TypesOf
<1>4. /\ report \in Seq(Items) /\ DOMAIN report = 1 .. Len(report) /\ Len(report) \in Nat
      /\ \A i \in RunsIn(report) :
           /\ i \in 1 .. Len(report) /\ i <= Len(report)
           /\ report[i].blk \in Nat /\ report[i].blk < blk
  <2>1. report \in Seq(Items)
    BY <1>1 DEF WellFormed
  <2>2. DOMAIN report = 1 .. Len(report) /\ Len(report) \in Nat
    BY <2>1
  <2>3. \A i \in RunsIn(report) : i \in DOMAIN report \ CountsIn(report)
    BY DEF RunsIn, CountsIn
  <2> QED
    BY <1>1, <2>1, <2>2, <2>3, LineBlocks DEF WellFormed
<1>5. ASSUME NEW i \in RunsIn(report), i = Len(report)
      PROVE  /\ i + 1 \notin DOMAIN report /\ i + 2 \notin DOMAIN report
             /\ report[i].blk \in ChunksIn(report[i].blk, blk)
             /\ chunk_header_count = Cardinality(ChunksIn(report[i].blk, blk))
  <2>1. i + 1 \notin DOMAIN report /\ i + 2 \notin DOMAIN report
    BY <1>4, <1>5
  <2>2. ExactRun(report, i, blk, chunk_header_count)
    BY <1>2
  <2> QED
    BY <2>1, <2>2 DEF ExactRun
<1>6. CASE FindsNothing
  <2> SUFFICES ASSUME NEW i \in RunsIn(report)
               PROVE  ExactRun(report, i, blk + 1, chunk_header_count)
    BY <1>6 DEF FindsNothing
  <2>1. CASE i # Len(report)
    BY <1>1, <1>2, <2>1, FinishedRunStays
  <2>2. CASE i = Len(report)
    <3>1. ChunksIn(report[i].blk, blk + 1) = ChunksIn(report[i].blk, blk)
      BY <1>1, <1>3, <1>4, <1>6, NextChunks DEF FindsNothing
    <3> QED
      BY <1>5, <2>2, <3>1 DEF ExactRun
  <2> QED
    BY <2>1, <2>2
<1>7. CASE ContinuesRun
  <2> SUFFICES ASSUME NEW i \in RunsIn(report)
               PROVE  ExactRun(report, i, blk + 1, chunk_header_count + 1)
    BY <1>7 DEF ContinuesRun
  <2>1. CASE i # Len(report)
    BY <1>1, <1>2, <2>1, FinishedRunStays
  <2>2. CASE i = Len(report)
    <3> DEFINE chunks == ChunksIn(report[i].blk, blk)
    <3>1. /\ ChunksIn(report[i].blk, blk + 1) = chunks \cup {blk}
          /\ blk \notin chunks /\ IsFiniteSet(chunks)
      BY <1>1, <1>3, <1>4, <1>7, NextChunks DEF ContinuesRun
    <3>2. Cardinality(chunks \cup {blk}) = chunk_header_count + 1
      <4>1. Cardinality(chunks) = chunk_header_count
        BY <1>5, <2>2
      <4>2. Cardinality(chunks \cup {blk}) = Cardinality(chunks) + 1
        BY <3>1, FS_AddElement
      <4> QED
        BY <4>1, <4>2
    <3>3. report[i].blk \in chunks
      BY <1>5, <2>2
    <3> QED
      BY <1>5, <2>2, <3>1, <3>2, <3>3 DEF ExactRun
  <2> QED
    BY <2>1, <2>2
<1>8. CASE OpensRun
  <2> DEFINE e == Line("chunk headers", blk)
  <2>1. e \in Items /\ e.blk = blk /\ e.type = "chunk headers"
    BY <1>1 DEF Line, Items, LineItems
  <2>2. report' = Append(report, e) /\ chunk_header_count' = 1
    BY <1>8 DEF OpensRun
  <2> HIDE DEF e
  <2>3. /\ \A k : k \in DOMAIN report' <=> k \in DOMAIN report \/ k = Len(report) + 1
        /\ \A k \in DOMAIN report : report'[k] = report[k]
        /\ report'[Len(report) + 1] = e
        /\ Len(report) + 2 \notin DOMAIN report' /\ Len(report) + 3 \notin DOMAIN report'
    <3>1. report \in Seq(Items) /\ e \in Items
      BY <1>4, <2>1
    <3>2. report' = Append(report, e)
      BY <2>2
    <3> QED
      BY <3>1, <3>2, Extended
  <2>4. Len(report) \notin RunsIn(report)
    <3>1. chunk_header_count = 0
      BY <1>8, Zenon DEF OpensRun
    <3>2. ~(chunk_header_count > 0)
      BY <3>1
    <3> QED
      BY <1>1, <3>2 DEF PendingRun
  <2> SUFFICES ASSUME NEW i \in RunsIn(report')
               PROVE  ExactRun(report', i, blk + 1, 1)
    BY <2>2
  <2>5. CASE i = Len(report) + 1
    <3>1. i + 1 \notin DOMAIN report' /\ i + 2 \notin DOMAIN report' /\ report'[i].blk = blk
      <4>1. i + 1 = Len(report) + 2 /\ i + 2 = Len(report) + 3
        BY <1>4, <2>5
      <4> QED
        BY <2>1, <2>3, <2>5, <4>1
    <3>2. HasEncodedChunk(buffer)
      BY <1>8 DEF OpensRun
    <3>3. ChunksIn(blk, blk + 1) = ChunksIn(blk, blk) \cup {blk}
      BY <1>1, <1>3, <3>2, NextChunks
    <3>4. ChunksIn(blk, blk) = {}
      BY <1>1 DEF ChunksIn, Scanned
    <3>5. ChunksIn(blk, blk + 1) = {blk}
      BY <3>3, <3>4
    <3>6. Cardinality({blk}) = 1
      BY FS_Singleton
    <3> QED
      BY <3>1, <3>5, <3>6 DEF ExactRun
  <2>6. CASE i # Len(report) + 1
    <3>1. i \in RunsIn(report)
      BY <2>3, <2>6 DEF RunsIn
    <3> QED
      BY <1>1, <1>2, <2>3, <2>4, <3>1, FinishedRunStays
  <2> QED
    BY <2>5, <2>6
<1>9. ASSUME NEW t \in {"timestamps", "offsets"}, FindsTable(t)
      PROVE  \A i \in RunsIn(report') : ExactRun(report', i, blk + 1, chunk_header_count')
  <2> DEFINE e == Line(t, blk)
             c == CountLine(chunk_header_count)
  <2>1. e \in Items /\ e.type # "chunk headers" /\ e.blk = blk
    BY <1>1 DEF Line, Items, LineItems
  <2>2. c \in Items /\ c.type = "count" /\ c.n = chunk_header_count
    BY <1>1 DEF CountLine, Items, CountItems
  <2>3. CASE chunk_header_count = 0
    <3>1. report' = Append(report, e)
      BY <1>9, <2>3 DEF FindsTable
    <3> HIDE DEF e
    <3>2. /\ \A k : k \in DOMAIN report' <=> k \in DOMAIN report \/ k = Len(report) + 1
          /\ \A k \in DOMAIN report : report'[k] = report[k]
          /\ report'[Len(report) + 1] = e
      <4>1. report \in Seq(Items) /\ e \in Items
        BY <1>4, <2>1
      <4> QED
        BY <3>1, <4>1, Extended
    <3>3. Len(report) \notin RunsIn(report)
      BY <1>1, <2>3 DEF PendingRun
    <3> SUFFICES ASSUME NEW i \in RunsIn(report')
                 PROVE  ExactRun(report', i, blk + 1, chunk_header_count')
      OBVIOUS
    <3>4. i \in RunsIn(report)
      BY <2>1, <3>2 DEF RunsIn
    <3> QED
      BY <1>1, <1>2, <3>2, <3>3, <3>4, FinishedRunStays
  <2>4. CASE chunk_header_count > 0
    <3> DEFINE r == Append(report, c)
    <3>1. report' = Append(r, e)
      BY <1>9, <2>4 DEF FindsTable
    <3> HIDE DEF e, c
    <3>2. /\ r \in Seq(Items) /\ Len(r) = Len(report) + 1
          /\ \A k : k \in DOMAIN r <=> k \in DOMAIN report \/ k = Len(report) + 1
          /\ \A k \in DOMAIN report : r[k] = report[k]
          /\ r[Len(report) + 1] = c
      BY <1>4, <2>2, Extended
    <3> HIDE DEF r
    <3>3. Len(r) + 1 = Len(report) + 2
      BY <1>4, <3>2
    <3>4. /\ \A k : k \in DOMAIN report' <=> k \in DOMAIN r \/ k = Len(report) + 2
          /\ \A k \in DOMAIN r : report'[k] = r[k]
          /\ report'[Len(report) + 2] = e
      <4>1. r \in Seq(Items) /\ e \in Items
        BY <2>1, <3>2
      <4>2. /\ \A k : k \in DOMAIN report' <=> k \in DOMAIN r \/ k = Len(r) + 1
            /\ \A k \in DOMAIN r : report'[k] = r[k]
            /\ report'[Len(r) + 1] = e
        BY <3>1, <4>1, Extended
      <4> QED
        BY <3>3, <4>2
    <3>5. /\ \A k \in DOMAIN report : k \in DOMAIN report' /\ report'[k] = report[k]
          /\ Len(report) + 1 \in DOMAIN report' /\ Len(report) + 2 \in DOMAIN report'
          /\ report'[Len(report) + 1] = c
      BY <3>2, <3>4
    <3> SUFFICES ASSUME NEW i \in RunsIn(report')
                 PROVE  ExactRun(report', i, blk + 1, chunk_header_count')
      OBVIOUS
    <3>6. i \in RunsIn(report)
      BY <2>1, <2>2, <3>2, <3>4, <3>5 DEF RunsIn
    <3>7. CASE i # Len(report)
      BY <1>1, <1>2, <3>5, <3>6, <3>7, FinishedRunStays
    <3>8. CASE i = Len(report)
      <4>1. /\ i + 1 \in DOMAIN report' /\ i + 2 \in DOMAIN report'
            /\ report'[i] = report[i]
            /\ report'[i + 1].n = chunk_header_count /\ report'[i + 2].blk = blk
        BY <2>1, <2>2, <3>4, <3>5, <3>6, <3>8 DEF RunsIn
      <4> QED
        BY <1>5, <3>6, <3>8, <4>1 DEF ExactRun
    <3> QED
      BY <3>7, <3>8
  <2> QED
    BY <1>1, <2>3, <2>4
<1> QED
  BY <1>6, <1>7, <1>8, <1>9, ClassifyCases

LEMMA ReadingPreserves == IInv /\ (ReadBlock \/ ReadBlockThrows) => IInv'
<1> SUFFICES ASSUME IInv, ReadBlock \/ ReadBlockThrows
             PROVE  IInv'
  OBVIOUS
<1> USE DEF IInv
<1>1. /\ UNCHANGED <<options, window, scan>>
      /\ pc = "scan" /\ blk < max_blk /\ ~is_allocated(blk)
      /\ pc' \in {"classify", "aborted"} /\ blk \in Nat
  BY DEF ReadBlock, ReadBlockThrows, TypeOK
<1>2. /\ image' = image
      /\ buffer' \in Buffer
      /\ reader' \in ReaderType
      /\ reader'.kind = reader.kind
      /\ CountsWhatItHolds'
      /\ reader'.good => reader.good
      /\ pc' = "classify" /\ reader'.good => Holds(blk, Size) /\ buffer' = Block(blk, Size)
  <2>1. CASE ReadBlock
    BY <1>1, <2>1, ReadsDeliverWhileGood DEF TypeOK, ReaderType, ReadBlock
  <2>2. CASE ReadBlockThrows
    <3>1. UNCHANGED reader_vars /\ pc' = "aborted"
      BY <2>2 DEF ReadBlockThrows, ReadThrows, Ext2ReadThrows, FileReadThrows,
                  MmapReadThrows
    <3> QED
      BY <3>1 DEF reader_vars, TypeOK, ReaderType, CountsWhatItHolds
  <2> QED
    BY <2>1, <2>2
<1>3. TypeOK'
  BY <1>1, <1>2 DEF TypeOK, ReaderType, options, window, scan, Ended
<1>4. /\ first_blknum' = first_blknum
      /\ \A b : is_allocated(b)' = is_allocated(b) /\ TypesOf(b)' = TypesOf(b)
  BY <1>1, <1>2, SameBlocks DEF window
<1>5. NothingYet' /\ Behind'
  BY <1>1, <1>4 DEF window, scan, NothingYet, BeforeScan, Behind
<1>6. Delivered'
  <2>1. Holds(blk, Size)' = Holds(blk, Size) /\ Block(blk, Size)' = Block(blk, Size)
    BY <1>1, <1>2 DEF Holds, Block, scan
  <2> QED
    BY <1>1, <1>2, <1>4, <2>1 DEF Delivered, scan
<1>7. ReportGrows'
  BY <1>1 DEF ReportGrows, scan
<1>8. TablesExact'
  BY <1>1, <1>2, <1>4 DEF TablesExact, Listed, TableLines, LinesOf, Scanned, scan
<1>9. RunsExact'
  BY <1>1, <1>2, <1>4
     DEF RunsExact, Runs, LinesOf, RunEnd, RunCount, Scanned, scan
<1> QED
  BY <1>2, <1>3, <1>5, <1>6, <1>7, <1>8, <1>9

LEMMA SkippingPreserves == IInv /\ SkipAllocated => IInv'
<1> SUFFICES ASSUME IInv, SkipAllocated
             PROVE  IInv'
  OBVIOUS
<1> USE DEF IInv
<1>1. /\ UNCHANGED <<reader_vars, options, window, max_blk, chunk_header_count, report, pc>>
      /\ pc = "scan" /\ blk < max_blk /\ is_allocated(blk) /\ blk' = blk + 1
  BY DEF SkipAllocated
<1>2. blk \in Nat /\ max_blk \in Nat /\ chunk_header_count \in Nat
  BY Counters
<1>3. blk' \in Nat
  BY <1>1, <1>2
<1>4. TypeOK'
  BY <1>1, <1>3 DEF TypeOK, reader_vars, options, window
<1>5. /\ first_blknum' = first_blknum
      /\ \A b : is_allocated(b)' = is_allocated(b) /\ TypesOf(b)' = TypesOf(b)
  BY <1>1, SameBlocks DEF window, reader_vars
<1>6. first_blknum \in Nat
  BY FirstBlock
<1>7. CountsWhatItHolds' /\ NothingYet' /\ Behind' /\ Delivered'
  BY <1>1, <1>5, <1>6, <1>2 DEF reader_vars, window, CountsWhatItHolds,
                                NothingYet, BeforeScan,
                          Behind, Delivered
<1>8. ReportGrows'
  <2>1. \A i \in DOMAIN report \ CountsIn(report) : report[i].blk \in Nat
    BY LineBlocks DEF ReportGrows, WellFormed
  <2> QED
    BY <1>1, <1>2, <2>1 DEF ReportGrows, WellFormed
<1>9. TablesExact'
  <2>1. Scanned(blk + 1) = Scanned(blk)
    BY <1>1, <1>6, <1>2, NextScanned DEF Behind
  <2>2. Scanned(blk)' = Scanned(blk + 1)
    BY <1>1, <1>5 DEF Scanned
  <2> QED
    BY <1>1, <1>5, <2>1, <2>2 DEF TablesExact, Listed, TableLines, LinesOf,
                                  reader_vars
<1>10. RunsExact'
  <2>1. \A from : ChunksIn(from, blk + 1) = ChunksIn(from, blk)
    <3>1. Scanned(blk + 1) = Scanned(blk)
      BY <1>1, <1>6, <1>2, NextScanned DEF Behind
    <3> QED
      BY <3>1 DEF ChunksIn
  <2>2. \A i : ExactRun(report, i, blk, chunk_header_count)
                  => ExactRun(report, i, blk + 1, chunk_header_count)
    BY <2>1 DEF ExactRun
  <2> QED
    BY <1>1, <1>5, <2>2, RunsExactIs, RunsExactNext DEF reader_vars
<1> QED
  BY <1>4, <1>7, <1>8, <1>9, <1>10

(***************************************************************************)
(* The body of the loop, on a block whose contents are in the buffer, or   *)
(* on whatever a failed read has left there.                               *)
(***************************************************************************)
LEMMA ClassifyingReports ==
  ASSUME IInv, Classify
  PROVE  /\ WellFormed(report', blk + 1)
         /\ chunk_header_count' \in {0, 1, chunk_header_count, chunk_header_count + 1}
         /\ chunk_header_count' > 0 <=> PendingRun(report')
         /\ Len(report') \notin CountsIn(report')
         /\ ListedIn(report')
              = ListedIn(report) \cup {t \in {"timestamps", "offsets"} : IsTable(t)} \X {blk}
<1>1. /\ blk \in Nat /\ chunk_header_count \in Nat
      /\ WellFormed(report, blk) /\ (chunk_header_count > 0 <=> PendingRun(report))
      /\ Len(report) \notin CountsIn(report)
  BY Counters DEF IInv, ReportGrows, Classify
<1>2. WellFormed(report, blk + 1)
  <2>1. \A i \in DOMAIN report \ CountsIn(report) : report[i].blk \in Nat
    BY <1>1, LineBlocks DEF WellFormed
  <2> QED
    BY <1>1, <2>1 DEF WellFormed
<1>3. NoTable => {t \in {"timestamps", "offsets"} : IsTable(t)} \X {blk} = {}
  BY DEF NoTable
<1>4. \A t \in {"timestamps", "offsets", "chunk headers"} :
        Line(t, blk) \in LineItems /\ Line(t, blk).type = t /\ Line(t, blk).blk = blk
  BY <1>1 DEF Line, LineItems
<1>5. CASE FindsNothing
  BY <1>1, <1>2, <1>3, <1>5 DEF FindsNothing
<1>6. CASE ContinuesRun
  BY <1>1, <1>2, <1>3, <1>6 DEF ContinuesRun
<1>7. CASE OpensRun
  <2>1. ~PendingRun(report)
    <3>1. chunk_header_count = 0
      BY <1>7, Zenon DEF OpensRun
    <3>2. ~(chunk_header_count > 0)
      BY <3>1
    <3> QED
      BY <1>1, <3>2
  <2> DEFINE e == Line("chunk headers", blk)
  <2>2. e \in LineItems /\ e.type = "chunk headers" /\ e.blk = blk
    BY <1>4
  <2>3. report' = Append(report, e) /\ chunk_header_count' = 1 /\ NoTable
    BY <1>7 DEF OpensRun
  <2> HIDE DEF e
  <2>4. /\ WellFormed(report', blk + 1)
        /\ PendingRun(report')
        /\ Len(report') \notin CountsIn(report')
        /\ ListedIn(report') = ListedIn(report) \cup ({e.type} \ {"chunk headers"}) \X {blk}
    BY <1>1, <2>1, <2>2, <2>3, AppendLine
  <2>5. ({e.type} \ {"chunk headers"}) \X {blk} = {}
    BY <2>2
  <2>6. ListedIn(report')
          = ListedIn(report) \cup {t \in {"timestamps", "offsets"} : IsTable(t)} \X {blk}
    BY <1>3, <2>3, <2>4, <2>5, Zenon
  <2>7. chunk_header_count' = 1
    BY <2>3
  <2>8. chunk_header_count' > 0
    BY <2>7
  <2> QED
    BY <2>4, <2>6, <2>7, <2>8, Zenon
<1>8. ASSUME NEW t \in {"timestamps", "offsets"}, FindsTable(t)
      PROVE  /\ WellFormed(report', blk + 1)
             /\ chunk_header_count' = 0
             /\ ~PendingRun(report')
             /\ Len(report') \notin CountsIn(report')
             /\ ListedIn(report')
                  = ListedIn(report) \cup {u \in {"timestamps", "offsets"} : IsTable(u)} \X {blk}
  <2> DEFINE e == Line(t, blk)
  <2>1. e \in LineItems /\ e.type = t /\ e.blk = blk
    BY <1>4
  <2>2. {u \in {"timestamps", "offsets"} : IsTable(u)} = {e.type} \ {"chunk headers"}
    <3>1. {u \in {"timestamps", "offsets"} : IsTable(u)} = {t}
      BY <1>8 DEF FindsTable
    <3>2. {t} = {t} \ {"chunk headers"}
      OBVIOUS
    <3> QED
      BY <2>1, <3>1, <3>2
  <2>3. PICK r : /\ WellFormed(r, blk) /\ ~PendingRun(r) /\ ListedIn(r) = ListedIn(report)
                 /\ report' = Append(r, e)
    <3>1. CASE chunk_header_count = 0
      BY <1>1, <1>8, <3>1 DEF FindsTable
    <3>2. CASE chunk_header_count > 0
      <4>1. report' = Append(Append(report, CountLine(chunk_header_count)), e)
        BY <1>8, <3>2 DEF FindsTable
      <4> QED
        BY <1>1, <3>2, <4>1, AppendCount
    <3> QED
      BY <1>1, <3>1, <3>2
  <2> HIDE DEF e
  <2>4. /\ WellFormed(report', blk + 1)
        /\ PendingRun(report') <=> e.type = "chunk headers"
        /\ Len(report') \notin CountsIn(report')
        /\ ListedIn(report') = ListedIn(r) \cup ({e.type} \ {"chunk headers"}) \X {blk}
    BY <1>1, <2>1, <2>3, AppendLine
  <2>5. chunk_header_count' = 0
    BY <1>8 DEF FindsTable
  <2> QED
    BY <2>1, <2>2, <2>3, <2>4, <2>5
<1> QED
  BY <1>5, <1>6, <1>7, <1>8, ClassifyCases

LEMMA ClassifyingPreserves == IInv /\ Classify => IInv'
<1> SUFFICES ASSUME IInv, Classify
             PROVE  IInv'
  OBVIOUS
<1>1. /\ UNCHANGED <<reader_vars, options, window, max_blk>>
      /\ pc = "classify" /\ pc' = "scan" /\ blk' = blk + 1
  BY DEF Classify
<1>2. /\ blk \in Nat /\ max_blk \in Nat /\ chunk_header_count \in Nat
      /\ first_blknum \in Nat /\ first_blknum <= blk
      /\ chunk_header_count <= blk /\ blk < max_blk /\ ~is_allocated(blk)
  BY <1>1, Counters, FirstBlock DEF IInv, Behind, Delivered
<1>3. /\ WellFormed(report', blk + 1)
      /\ chunk_header_count' \in {0, 1, chunk_header_count, chunk_header_count + 1}
      /\ chunk_header_count' > 0 <=> PendingRun(report')
      /\ Len(report') \notin CountsIn(report')
      /\ ListedIn(report')
           = ListedIn(report) \cup {t \in {"timestamps", "offsets"} : IsTable(t)} \X {blk}
  BY ClassifyingReports
<1>4. chunk_header_count' \in 0 .. ScanLimit /\ chunk_header_count' <= blk + 1
  <2>1. max_blk \in 0 .. ScanLimit
    BY DEF IInv, TypeOK
  <2>2. ScanLimit \in Nat
    BY ScanLimitAssumption
  <2> QED
    BY <1>2, <1>3, <2>1, <2>2
<1>5. TypeOK'
  <2>1. blk' \in Nat
    BY <1>1, <1>2
  <2>2. report' \in Seq(LineItems \cup CountItems)
    BY <1>3 DEF WellFormed, Items
  <2> QED
    BY <1>1, <1>4, <2>1, <2>2
       DEF IInv, TypeOK, LineItems, CountItems, reader_vars, options, window
<1>6. /\ first_blknum' = first_blknum
      /\ \A b : is_allocated(b)' = is_allocated(b) /\ TypesOf(b)' = TypesOf(b)
  BY <1>1, SameBlocks DEF window, reader_vars
<1>7. CountsWhatItHolds' /\ NothingYet' /\ Behind' /\ Delivered'
  BY <1>1, <1>2, <1>4, <1>6
     DEF IInv, reader_vars, window, CountsWhatItHolds, NothingYet, BeforeScan,
         Behind, Delivered
<1>8. ReportGrows'
  BY <1>1, <1>3 DEF ReportGrows
<1>9. TablesExact'
  <2> SUFFICES ASSUME reader.good
               PROVE  ListedIn(report') = UNION {TablesOf(b) : b \in Scanned(blk)'}
    BY <1>1, <1>6 DEF TablesExact, TablesOf, Listed, ListedIn, TableLines,
                      LinesOf, reader_vars
  <2>1. Scanned(blk)' = Scanned(blk) \cup {blk}
    <3>1. Scanned(blk)' = Scanned(blk + 1)
      BY <1>1, <1>6 DEF Scanned
    <3> QED
      BY <1>2, <3>1, NextScanned
  <2>2. ListedIn(report) = UNION {TablesOf(b) : b \in Scanned(blk)}
    BY DEF IInv, TablesExact, TablesOf, Listed, ListedIn, TableLines, LinesOf
  <2>3. {t \in {"timestamps", "offsets"} : IsTable(t)} \X {blk} = TablesOf(blk)
    <3>1. Holds(blk, Size) /\ buffer = Block(blk, Size)
      BY <1>1 DEF IInv, Delivered
    <3>2. {t \in {"timestamps", "offsets"} : IsTable(t)}
            = TypesOf(blk) \cap {"timestamps", "offsets"}
      BY <3>1 DEF TypesOf, IsTable
    <3> QED
      BY <3>2 DEF TablesOf
  <2>4. UNION {TablesOf(b) : b \in Scanned(blk) \cup {blk}}
          = (UNION {TablesOf(b) : b \in Scanned(blk)}) \cup TablesOf(blk)
    OBVIOUS
  <2> QED
    BY <1>3, <2>1, <2>2, <2>3, <2>4
<1>10. RunsExact'
  BY <1>1, <1>6, ClassifyingCounts, RunsExactNext DEF reader_vars
<1> QED
  BY <1>5, <1>7, <1>8, <1>9, <1>10 DEF IInv

LEMMA FinishingPreserves == IInv /\ Finish => IInv'
<1> SUFFICES ASSUME IInv, Finish
             PROVE  IInv'
  OBVIOUS
<1>1. /\ UNCHANGED <<reader_vars, options, window, blk, max_blk>>
      /\ pc = "scan" /\ pc' = "exited" /\ chunk_header_count' = 0
      /\ report' = report \o CloseRun
  BY DEF Finish
<1>2. /\ blk \in Nat /\ chunk_header_count \in Nat
      /\ WellFormed(report, blk) /\ (chunk_header_count > 0 <=> PendingRun(report))
  BY Counters DEF IInv, ReportGrows
<1>3. WellFormed(report', blk) /\ ~PendingRun(report') /\ ListedIn(report') = ListedIn(report)
  <2>1. report \in Seq(Items) /\ CountLine(chunk_header_count) \in Items
    BY <1>2 DEF WellFormed, CountLine, Items, CountItems
  <2>2. CASE chunk_header_count = 0
    <3>1. CloseRun = <<>>
      BY <2>2 DEF CloseRun
    <3>2. report' = report
      BY <1>1, <2>1, <3>1, ConcatEmptySeq
    <3> QED
      BY <1>2, <2>2, <3>2
  <2>3. CASE chunk_header_count > 0
    <3>1. report' = Append(report, CountLine(chunk_header_count))
      BY <1>1, <2>1, <2>3, AppendIsConcat DEF CloseRun
    <3> QED
      BY <1>2, <2>3, <3>1, AppendCount
  <2> QED
    BY <1>2, <2>2, <2>3
<1>4. TypeOK'
  <2>1. report' \in Seq(LineItems \cup CountItems)
    BY <1>3 DEF WellFormed, Items
  <2>2. 0 \in 0 .. ScanLimit
    BY ScanLimitAssumption
  <2> QED
    BY <1>1, <2>1, <2>2
       DEF IInv, TypeOK, LineItems, CountItems, reader_vars, options, window, Ended
<1>5. CountsWhatItHolds' /\ NothingYet' /\ Behind' /\ Delivered'
  BY <1>1 DEF IInv, reader_vars, window, CountsWhatItHolds, NothingYet, BeforeScan,
              Behind, Delivered
<1>6. ReportGrows'
  BY <1>1, <1>3 DEF ReportGrows
<1>7. /\ first_blknum' = first_blknum
      /\ \A b : is_allocated(b)' = is_allocated(b) /\ TypesOf(b)' = TypesOf(b)
  BY <1>1, SameBlocks DEF window, reader_vars
<1>8. TablesExact'
  BY <1>1, <1>3, <1>7
     DEF IInv, TablesExact, Listed, ListedIn, TableLines, LinesOf, Scanned,
         reader_vars
<1>9. RunsExact'
  <2> SUFFICES ASSUME reader.good, NEW i \in RunsIn(report')
               PROVE  ExactRun(report', i, blk, 0)
    BY <1>1, <1>7, RunsExactNext DEF reader_vars
  <2>1. \A k \in RunsIn(report) : ExactRun(report, k, blk, chunk_header_count)
    BY RunsExactIs DEF IInv
  <2>2. CASE chunk_header_count = 0
    <3>1. report' = report
      <4>1. CloseRun = <<>> /\ report \in Seq(Items)
        BY <1>2, <2>2 DEF CloseRun, WellFormed
      <4> QED
        BY <1>1, <4>1, ConcatEmptySeq
    <3> QED
      BY <2>1, <2>2, <3>1
  <2>3. CASE chunk_header_count > 0
    <3> DEFINE c == CountLine(chunk_header_count)
    <3>1. c \in Items /\ c.type = "count" /\ c.n = chunk_header_count
      BY <1>2 DEF CountLine, Items, CountItems
    <3>2. report \in Seq(Items)
      BY <1>2 DEF WellFormed
    <3>3. report' = Append(report, c)
      BY <1>1, <2>3, <3>2, AppendIsConcat DEF CloseRun
    <3> HIDE DEF c
    <3>4. /\ \A k : k \in DOMAIN report' <=> k \in DOMAIN report \/ k = Len(report) + 1
          /\ \A k \in DOMAIN report : report'[k] = report[k]
          /\ report'[Len(report) + 1] = c
          /\ Len(report) + 2 \notin DOMAIN report'
      BY <3>1, <3>2, <3>3, Extended
    <3>5. i \in RunsIn(report)
      BY <3>1, <3>4 DEF RunsIn
    <3>6. CASE i # Len(report)
      <4>1. Len(report) \notin CountsIn(report)
        BY <1>1 DEF IInv, ReportGrows
      <4> QED
        BY <1>2, <2>1, <3>4, <3>5, <3>6, <4>1, FinishedRunStays
    <3>7. CASE i = Len(report)
      <4>1. i + 1 \notin DOMAIN report /\ i + 2 \notin DOMAIN report
        BY <3>2, <3>7
      <4>2. /\ i + 1 \in DOMAIN report' /\ i + 2 \notin DOMAIN report'
            /\ report'[i] = report[i] /\ report'[i + 1].n = chunk_header_count
        BY <3>1, <3>4, <3>5, <3>7 DEF RunsIn
      <4>3. ExactRun(report, i, blk, chunk_header_count)
        BY <2>1, <3>5
      <4> QED
        BY <4>1, <4>2, <4>3 DEF ExactRun
    <3> QED
      BY <3>6, <3>7
  <2> QED
    BY <1>2, <2>2, <2>3
<1> QED
  BY <1>4, <1>5, <1>6, <1>8, <1>9 DEF IInv

LEMMA StutteringPreserves == IInv /\ UNCHANGED vars => IInv'
<1> SUFFICES ASSUME IInv, UNCHANGED vars
             PROVE  IInv'
  OBVIOUS
<1>1. UNCHANGED <<image, reader, buffer, args, start_timestr, stop_timestr, start_time,
                  stop_time, blk, max_blk, chunk_header_count, report, pc>>
  BY DEF vars, reader_vars, options, window, scan
<1>2. TypeOK' /\ CountsWhatItHolds' /\ NothingYet' /\ ReportGrows'
  <2>1. TypeOK'
    BY <1>1 DEF IInv, TypeOK
  <2>2. CountsWhatItHolds' /\ NothingYet'
    BY <1>1 DEF IInv, CountsWhatItHolds, NothingYet
  <2>3. ReportGrows'
    BY <1>1 DEF IInv, ReportGrows
  <2> QED
    BY <2>1, <2>2, <2>3
<1>3. /\ first_blknum' = first_blknum
      /\ \A b : is_allocated(b)' = is_allocated(b) /\ TypesOf(b)' = TypesOf(b)
  BY <1>1, SameBlocks
<1>4. Behind' /\ Delivered'
  BY <1>1, <1>3 DEF IInv, Behind, Delivered, Holds, Block
<1>5. TablesExact'
  BY <1>1, <1>3 DEF IInv, TablesExact, Listed, TableLines, LinesOf, Scanned
<1>6. RunsExact'
  BY <1>1, <1>3, RunsExactIs, RunsExactNext DEF IInv
<1> QED
  BY <1>2, <1>4, <1>5, <1>6 DEF IInv
-----------------------------------------------------------------------------
(***************************************************************************)
(* Every step of main keeps the inductive invariant: types, the report's   *)
(* form, and what it says about the blocks behind the scan.                *)
(***************************************************************************)
THEOREM Invariance == Spec => []IInv
<1>1. IInv /\ [Next]_vars => IInv'
  <2> SUFFICES ASSUME IInv, [Next]_vars
               PROVE  IInv'
    OBVIOUS
  <2>1. CASE ComputeWindow
    BY <2>1, WindowPreserves
  <2>2. CASE ParseCommandLine \/ RefuseCommandLine \/ Identify
    BY <2>2, OptionsPreserve
  <2>3. CASE Open \/ OpenThrows
    BY <2>3, OpeningPreserves
  <2>4. CASE StartScan
    BY <2>4, StartPreserves
  <2>5. CASE SkipAllocated
    BY <2>5, SkippingPreserves
  <2>6. CASE ReadBlock \/ ReadBlockThrows
    BY <2>6, ReadingPreserves
  <2>7. CASE Classify
    BY <2>7, ClassifyingPreserves
  <2>8. CASE Finish
    BY <2>8, FinishingPreserves
  <2>9. CASE Terminated \/ UNCHANGED vars
    BY <2>9, StutteringPreserves DEF Terminated
  <2> QED
    BY <2>1, <2>2, <2>3, <2>4, <2>5, <2>6, <2>7, <2>8, <2>9 DEF Next
<1> QED
  BY <1>1, InitialStates, PTL DEF Spec

(***************************************************************************)
(* Every variable of main keeps its type; the run being counted never      *)
(* grows beyond the limit of the scan.                                     *)
(***************************************************************************)
THEOREM TypeCorrect == Spec => []TypeOK
<1>1. IInv => TypeOK
  BY DEF IInv
<1> QED
  BY <1>1, Invariance, PTL

(***************************************************************************)
(* Whatever the reads do, and whatever a failed read leaves in the buffer, *)
(* the report can be taken apart again: ascending blocks, each run with    *)
(* its count behind it, and no count without a run.                        *)
(***************************************************************************)
THEOREM ReportAlwaysParses == Spec => []ReportParses
<1>1. IInv => ReportParses
  <2> SUFFICES ASSUME IInv
               PROVE  ReportParses
    OBVIOUS
  <2>1. /\ Counts = CountsIn(report) /\ Runs = RunsIn(report)
        /\ report \in Seq(Items)
    BY DEF IInv, ReportGrows, WellFormed, Counts, Runs, LinesOf, CountsIn, RunsIn
  <2>2. pc = "exited" => Len(report) \notin Runs
    <3>1. pc = "exited" => ~(chunk_header_count > 0)
      BY DEF IInv, ReportGrows
    <3> QED
      BY <2>1, <3>1 DEF IInv, ReportGrows, PendingRun
  <2> QED
    BY <2>1, <2>2 DEF IInv, ReportGrows, WellFormed, PendingRun, ReportParses
<1> QED
  BY <1>1, Invariance, PTL

(***************************************************************************)
(* As long as no read has failed, the lines about tables are exactly the   *)
(* tables among the unallocated blocks passed.                             *)
(***************************************************************************)
THEOREM TablesListed == Spec => []TablesExact
<1>1. IInv => TablesExact
  BY DEF IInv
<1> QED
  BY <1>1, Invariance, PTL

(***************************************************************************)
(* And a run starts at a chunk and counts the chunks from there to the     *)
(* next table, or to the end of the scan: the line that ends a run is the  *)
(* only thing that bounds it, allocated blocks in between or not.          *)
(***************************************************************************)
THEOREM RunsCounted == Spec => []RunsExact
<1>1. IInv => RunsExact
  BY DEF IInv
<1> QED
  BY <1>1, Invariance, PTL

(***************************************************************************)
(* As long as the stream is good the buffer keeps the block read last;     *)
(* once it is not, no read writes the buffer.                              *)
(***************************************************************************)
LastBlockKept ==
  pc = "scan" /\ reader.kind = "file" /\ reader.good /\ blk > 0
    => buffer = Block(blk - 1, Size)

LEMMA KeepsLastBlock == IInv /\ LastBlockKept /\ [Next]_vars => LastBlockKept'
<1> SUFFICES ASSUME IInv, LastBlockKept, [Next]_vars
             PROVE  LastBlockKept'
  OBVIOUS
<1>1. CASE \/ ComputeWindow \/ ParseCommandLine \/ RefuseCommandLine \/ Identify
           \/ Open \/ OpenThrows \/ ReadBlock \/ ReadBlockThrows \/ Finish
  <2>1. pc' # "scan"
    BY <1>1 DEF ComputeWindow, ParseCommandLine, RefuseCommandLine, Identify, Open,
                OpenThrows, ReadBlock, ReadBlockThrows, Finish
  <2> QED
    BY <2>1 DEF LastBlockKept
<1>2. CASE StartScan
  <2>1. reader' = reader /\ (reader.kind = "file" => blk' = 0)
    BY <1>2 DEF StartScan, reader_vars, first_blknum
  <2> QED
    BY <2>1 DEF LastBlockKept
<1>3. CASE SkipAllocated
  <2>1. reader' = reader /\ reader.kind # "file"
    BY <1>3 DEF SkipAllocated, reader_vars, is_allocated
  <2> QED
    BY <2>1 DEF LastBlockKept
<1>4. CASE Classify
  <2>1. /\ reader' = reader /\ buffer' = buffer /\ image' = image
        /\ pc = "classify" /\ blk' = blk + 1
    BY <1>4 DEF Classify, reader_vars
  <2>2. blk \in Nat
    BY DEF IInv, TypeOK
  <2>4. blk' - 1 = blk
    BY <2>1, <2>2
  <2>3. reader.good => buffer = Block(blk, Size)
    BY <2>1 DEF IInv, Delivered
  <2> QED
    BY <2>1, <2>3, <2>4 DEF LastBlockKept, Block
<1>5. CASE Terminated \/ UNCHANGED vars
  BY <1>5 DEF Terminated, vars, reader_vars, scan, LastBlockKept, Block
<1> QED
  BY <1>1, <1>2, <1>3, <1>4, <1>5 DEF Next

(***************************************************************************)
(* Once mcarve has been handed something else than the block it asked for, *)
(* it is handed the same bytes for all the rest of the image.              *)
(***************************************************************************)
THEOREM MisreadingIsForGood == Spec => SameBytesOnceMisdelivered
<1>1. Init => LastBlockKept
  BY DEF Init, LastBlockKept
<1>2. ASSUME IInv, LastBlockKept, [Next]_vars
      PROVE  [Misdelivered => buffer' = buffer]_vars
  <2>1. CASE ReadBlock
    <3> SUFFICES ASSUME Misdelivered PROVE buffer' = buffer
      OBVIOUS
    <3>1. reader.kind = "file" /\ ~reader.good
      BY <1>2, <2>1 DEF ReadBlock, Misdelivered, LastBlockKept
    <3> QED
      BY <2>1, <3>1 DEF ReadBlock, ReadReturns, Ext2ReadBlock, FileReadBlock,
                        MmapReadBlock, ReadFails, ReadIgnored, reader_vars
  <2>2. CASE Open \/ StartScan \/ SkipAllocated \/ Classify \/ Finish
    BY <2>2 DEF Open, OpenExt2, OpenFile, OpenFileUnseekable, StartScan,
                SkipAllocated, Classify, Finish, reader_vars
  <2>3. CASE ComputeWindow \/ ParseCommandLine \/ RefuseCommandLine \/ Identify
    BY <2>3 DEF ComputeWindow, ParseCommandLine, RefuseCommandLine, Identify,
                reader_vars
  <2>4. CASE OpenThrows \/ ReadBlockThrows
    BY <2>4 DEF OpenThrows, OpenExt2Throws, OpenFileThrows, ReadBlockThrows,
                ReadThrows, reader_vars
  <2>5. CASE Terminated \/ UNCHANGED vars
    BY <2>5 DEF Terminated, vars, reader_vars
  <2> QED
    BY <1>2, <2>1, <2>2, <2>3, <2>4, <2>5 DEF Next
<1> QED
  BY <1>1, <1>2, KeepsLastBlock, Invariance, PTL DEF Spec, SameBytesOnceMisdelivered
-----------------------------------------------------------------------------
(***************************************************************************)
(* The refinement of Carver.  A reader is attached from its construction   *)
(* on, and if the reads of a plain file do not fail it stays good.         *)
(***************************************************************************)
BeforeOpen == {"window", "parse", "refused", "identify", "open_ext2", "open_file"}
Opened == {"start", "scan", "classify", "exited"}

ReaderInv ==
  /\ pc \in BeforeOpen => reader = NoReader
  /\ pc \in Opened => reader.kind # "none"
  /\ "file" \notin Faulty => reader.good

LEMMA ReaderStays ==
  ASSUME ReaderInv, reader' = reader, pc' \in BeforeOpen => pc \in BeforeOpen,
         pc' \in Opened => pc \in Opened
  PROVE  ReaderInv'
BY DEF ReaderInv

LEMMA ReaderStep == ReaderInv /\ [Next]_vars => ReaderInv'
<1> SUFFICES ASSUME ReaderInv, [Next]_vars
             PROVE  ReaderInv'
  OBVIOUS
<1>1. CASE ComputeWindow \/ ParseCommandLine \/ RefuseCommandLine \/ Identify
  <2>1. reader' = reader /\ pc \in BeforeOpen /\ pc' \notin Opened
    BY <1>1 DEF ComputeWindow, ParseCommandLine, RefuseCommandLine, Identify,
                reader_vars,
                BeforeOpen, Opened
  <2> QED
    BY <2>1, ReaderStays
<1>2. CASE Open
  BY <1>2 DEF ReaderInv, Open, OpenExt2, OpenFile, OpenFileUnseekable,
              BeforeOpen, Opened
<1>3. CASE OpenThrows \/ ReadBlockThrows
  <2>1. reader' = reader /\ pc' = "aborted"
    BY <1>3 DEF OpenThrows, OpenExt2Throws, OpenFileThrows, ReadBlockThrows,
                ReadThrows, Ext2ReadThrows, FileReadThrows, MmapReadThrows,
                reader_vars
  <2> QED
    BY <2>1, ReaderStays DEF BeforeOpen, Opened
<1>4. CASE StartScan \/ SkipAllocated \/ Classify \/ Finish
  <2>1. reader' = reader /\ pc \in Opened /\ pc' \notin BeforeOpen
    BY <1>4 DEF StartScan, SkipAllocated, Classify, Finish, reader_vars,
                BeforeOpen, Opened
  <2> QED
    BY <2>1, ReaderStays
<1>5. CASE ReadBlock
  <2>1. pc = "scan" /\ pc' = "classify"
    BY <1>5 DEF ReadBlock
  <2>2. \/ reader' = reader
        \/ "file" \in Faulty /\ reader.kind = "file" /\ reader' = [reader EXCEPT !.good = FALSE]
    BY <1>5 DEF ReadBlock, ReadReturns, Ext2ReadBlock, FileReadBlock,
                MmapReadBlock, ReadFails, ReadIgnored, reader_vars
  <2>3. CASE reader' = reader
    BY <2>1, <2>3, ReaderStays DEF BeforeOpen, Opened
  <2>4. CASE "file" \in Faulty /\ reader' = [reader EXCEPT !.good = FALSE]
    <3>1. reader'.kind = reader.kind
      BY <2>4
    <3> QED
      BY <2>1, <2>4, <3>1 DEF ReaderInv, BeforeOpen, Opened
  <2> QED
    BY <2>2, <2>3, <2>4
<1>6. CASE Terminated \/ UNCHANGED vars
  BY <1>6, ReaderStays DEF Terminated, vars, reader_vars
<1> QED
  BY <1>1, <1>2, <1>3, <1>4, <1>5, <1>6 DEF Next

(***************************************************************************)
(* The chunks counted: a line that is not a count leaves their sum alone,  *)
(* and a count adds to it what it says.                                    *)
(***************************************************************************)
CountSum(r) == SumFunctionOnSet([i \in CountsIn(r) |-> r[i].n], CountsIn(r))

LEMMA CountsFinite ==
  ASSUME NEW r \in Seq(Items)
  PROVE  /\ IsFiniteSet(CountsIn(r))
         /\ \A i \in CountsIn(r) : r[i].n \in Nat
         /\ CountSum(r) \in Nat
<1>1. IsFiniteSet(CountsIn(r))
  <2>1. DOMAIN r = 1 .. Len(r) /\ Len(r) \in Nat
    OBVIOUS
  <2>2. IsFiniteSet(1 .. Len(r))
    BY <2>1, FS_Interval
  <2> QED
    BY <2>1, <2>2, FS_Subset DEF CountsIn
<1>2. \A i \in CountsIn(r) : r[i].n \in Nat
  <2> SUFFICES ASSUME NEW i \in CountsIn(r) PROVE r[i].n \in Nat
    OBVIOUS
  <2>1. r[i] \in Items /\ r[i].type = "count"
    BY DEF CountsIn
  <2>2. r[i] \in CountItems
    BY <2>1 DEF Items, LineItems
  <2> QED
    BY <2>2 DEF CountItems
<1> DEFINE v == [i \in CountsIn(r) |-> r[i].n]
<1>3. SumFunctionOnSet(v, CountsIn(r)) \in Nat
  <2>1. \A i \in CountsIn(r) : v[i] \in Nat
    BY <1>2
  <2> HIDE DEF v
  <2> QED
    BY <1>1, <2>1, SumType
<1> QED
  BY <1>1, <1>2, <1>3 DEF CountSum

LEMMA LineAddsNothing ==
  ASSUME NEW r \in Seq(Items), NEW e \in Items, e.type # "count"
  PROVE  CountSum(Append(r, e)) = CountSum(r)
<1> DEFINE s == Append(r, e)
<1>1. /\ \A k : k \in DOMAIN s <=> k \in DOMAIN r \/ k = Len(r) + 1
      /\ \A k \in DOMAIN r : s[k] = r[k]
      /\ s[Len(r) + 1] = e
  BY Extended
<1> HIDE DEF s
<1>2. CountsIn(s) = CountsIn(r)
  BY <1>1 DEF CountsIn
<1>3. [i \in CountsIn(s) |-> s[i].n] = [i \in CountsIn(r) |-> r[i].n]
  BY <1>1, <1>2 DEF CountsIn
<1> QED
  BY <1>2, <1>3 DEF CountSum, s

LEMMA CountAdds ==
  ASSUME NEW r \in Seq(Items), NEW n \in Nat
  PROVE  CountSum(Append(r, CountLine(n))) = n + CountSum(r)
<1> DEFINE e == CountLine(n)
           s == Append(r, e)
           v == [i \in CountsIn(r) |-> r[i].n]
           w == [i \in CountsIn(s) |-> s[i].n]
           last == Len(r) + 1
<1>1. e \in Items /\ e.type = "count" /\ e.n = n
  BY DEF CountLine, Items, CountItems
<1>2. /\ s \in Seq(Items)
      /\ \A k : k \in DOMAIN s <=> k \in DOMAIN r \/ k = last
      /\ \A k \in DOMAIN r : s[k] = r[k]
      /\ s[last] = e
  BY <1>1, Extended
<1>3. last \notin DOMAIN r
  OBVIOUS
<1> HIDE DEF e, s, last
<1>4. CountsIn(s) = CountsIn(r) \cup {last} /\ last \notin CountsIn(r)
  BY <1>1, <1>2, <1>3 DEF CountsIn
<1>5. \A i \in CountsIn(r) : w[i] = v[i]
  BY <1>2, <1>4 DEF CountsIn
<1>6. \A i \in CountsIn(r) \cup {last} : w[i] \in Nat
  BY <1>2, <1>4, CountsFinite
<1>7. w[last] = n
  BY <1>1, <1>2, <1>4
<1> HIDE DEF v, w
<1>8. SumFunctionOnSet(w, CountsIn(r) \cup {last}) = n + SumFunctionOnSet(w, CountsIn(r))
  BY <1>4, <1>6, <1>7, CountsFinite, SumAdd
<1>9. SumFunctionOnSet(w, CountsIn(r)) = SumFunctionOnSet(v, CountsIn(r))
  BY <1>5, CountsFinite, SumAgree
<1> QED
  BY <1>4, <1>8, <1>9 DEF CountSum, v, w, s, e

(***************************************************************************)
(* What the mapping makes of the parts of the state.                       *)
(***************************************************************************)
LEMMA ChunksCountedIs == ChunksCounted = chunk_header_count + CountSum(report)
BY DEF ChunksCounted, CountSum, Counts, LinesOf, CountsIn

LEMMA ChunksCountedNext == ChunksCounted' = chunk_header_count' + CountSum(report')
BY DEF ChunksCounted, CountSum, Counts, LinesOf, CountsIn

LEMMA ScanStays ==
  ASSUME UNCHANGED <<image, start_time, stop_time, max_blk>>, reader'.kind = reader.kind,
         ScanBegun' <=> ScanBegun
  PROVE  /\ TypesToFind' = TypesToFind
         /\ blk' = blk => Examined' = Examined
<1>1. /\ first_blknum' = first_blknum
      /\ \A b : is_allocated(b)' = is_allocated(b) /\ TypesOf(b)' = TypesOf(b)
  BY SameBlocks
<1>2. Scanned(max_blk)' = Scanned(max_blk)
  BY <1>1 DEF Scanned
<1>3. blk' = blk => Scanned(blk)' = Scanned(blk)
  BY <1>1 DEF Scanned
<1> QED
  BY <1>1, <1>2, <1>3 DEF TypesToFind, Examined

LEMMA ReportStays ==
  ASSUME UNCHANGED <<report, chunk_header_count>>
  PROVE  Listed' = Listed /\ ChunksCounted' = ChunksCounted
BY DEF Listed, TableLines, LinesOf, ChunksCounted, Counts

MappedVars == <<TypesToFind, Examined, Listed, ChunksCounted, Progress>>

LEMMA InitImplements == Init => Carving!Init
<1> SUFFICES ASSUME Init
             PROVE  Carving!Init
  OBVIOUS
<1>1. ~ScanBegun /\ report = <<>> /\ chunk_header_count = 0 /\ pc = "window"
  BY DEF Init, ScanBegun
<1>2. Listed = {}
  BY <1>1 DEF Listed, TableLines, LinesOf
<1>3. ChunksCounted = 0
  <2>1. Counts = {}
    BY <1>1 DEF Counts, LinesOf
  <2>2. SumFunctionOnSet([i \in Counts |-> report[i].n], Counts) = 0
    BY <2>1, SumEmpty
  <2> QED
    BY <1>1, <2>2 DEF ChunksCounted
<1> QED
  BY <1>1, <1>2, <1>3 DEF Carving!Init, TypesToFind, Examined, Progress

(***************************************************************************)
(* Before the scan nothing happens that Carver knows of, but a failure.    *)
(***************************************************************************)
LEMMA BeforeScanImplements ==
  ASSUME IInv, ReaderInv, "file" \notin Faulty,
         \/ ComputeWindow \/ ParseCommandLine \/ RefuseCommandLine
         \/ Identify \/ Open \/ OpenThrows
  PROVE  [Carving!Next]_MappedVars
<1>1. /\ pc \in {"window", "parse", "identify", "open_ext2", "open_file"}
      /\ pc' \in {"parse", "identify", "open_ext2", "open_file", "refused", "start", "aborted"}
      /\ UNCHANGED scan
  BY DEF ComputeWindow, ParseCommandLine, RefuseCommandLine, Identify, Open,
         OpenThrows
<1>2. ~ScanBegun
  BY <1>1 DEF ScanBegun, ReaderInv, BeforeOpen
<1>3. ~ScanBegun'
  <2>1. CASE Open
    BY <2>1 DEF Open, ScanBegun
  <2>2. CASE ~Open
    <3>1. reader' = reader
      BY <2>2 DEF ComputeWindow, ParseCommandLine, RefuseCommandLine, Identify,
                  OpenThrows,
                  OpenExt2Throws, OpenFileThrows, reader_vars
    <3> QED
      BY <1>1, <3>1 DEF ScanBegun, ReaderInv, BeforeOpen
  <2> QED
    BY <2>1, <2>2
<1>4. TypesToFind' = TypesToFind /\ Examined' = Examined
  BY <1>2, <1>3 DEF TypesToFind, Examined
<1>5. Listed' = Listed /\ ChunksCounted' = ChunksCounted
  BY <1>1, ReportStays DEF scan
<1>6. Progress = "idle" /\ Progress' \in {"idle", "failed"}
  BY <1>1, <1>2, <1>3 DEF Progress
<1>7. CASE Progress' = "idle"
  BY <1>4, <1>5, <1>6, <1>7 DEF MappedVars
<1>8. CASE Progress' = "failed"
  BY <1>4, <1>5, <1>6, <1>8 DEF Carving!Next, Carving!Fail
<1> QED
  BY <1>6, <1>7, <1>8

LEMMA StartImplements ==
  ASSUME IInv, ReaderInv, StartScan
  PROVE  Carving!Begin
<1>1. /\ pc = "start" /\ pc' = "scan" /\ blk' = first_blknum
      /\ UNCHANGED <<reader_vars, options, window, chunk_header_count, report>>
  BY DEF StartScan
<1>2. ~ScanBegun /\ ScanBegun'
  BY <1>1 DEF ScanBegun, ReaderInv, Opened, NoReader, reader_vars
<1>3. Progress = "idle" /\ Progress' = "scanning"
  BY <1>1, <1>2 DEF Progress
<1>4. Examined = {} /\ Examined' = {}
  <2>1. first_blknum' = first_blknum /\ first_blknum \in Nat
    BY <1>1, FirstBlock DEF reader_vars, first_blknum, first_data_block, IInv
  <2>2. Scanned(blk)' = {}
    BY <1>1, <2>1 DEF Scanned
  <2> QED
    BY <1>2, <2>2 DEF Examined
<1>5. Listed' = Listed /\ ChunksCounted' = ChunksCounted
  BY <1>1, ReportStays
<1>6. \E found \in SUBSET (0 .. ScanLimit - 1) : TypesToFind' \in [found -> SUBSET Carving!Types]
  <2> DEFINE found == Scanned(max_blk)'
  <2>1. TypesToFind' = [b \in found |-> TypesOf(b)']
    BY <1>2 DEF TypesToFind
  <2>2. \A b : TypesOf(b)' \in SUBSET Carving!Types
    BY DEF TypesOf, Carving!Types, Carving!Tables
  <2>3. found \subseteq 0 .. ScanLimit - 1
    <3>1. max_blk' \in 0 .. ScanLimit /\ first_blknum' \in Nat
      <4>1. TypeOK'
        BY StartPreserves DEF IInv
      <4> QED
        BY <4>1, ImagesAssumption
           DEF TypeOK, ImageType, first_blknum, first_data_block
    <3>2. found \subseteq first_blknum' .. max_blk' - 1
      BY DEF Scanned
    <3> QED
      BY <3>1, <3>2, ScanLimitAssumption
  <2> QED
    BY <2>1, <2>2, <2>3
<1> QED
  BY <1>3, <1>4, <1>5, <1>6 DEF Carving!Begin

(***************************************************************************)
(* The scan.  What is read or skipped changes nothing Carver knows of.     *)
(***************************************************************************)
LEMMA ReadImplements ==
  ASSUME IInv, ReaderInv, "file" \notin Faulty, ReadBlock
  PROVE  UNCHANGED MappedVars
<1>1. /\ pc = "scan" /\ pc' = "classify"
      /\ UNCHANGED <<options, window, scan>>
      /\ image' = image /\ reader' = reader
  <2>1. reader.good
    BY DEF ReaderInv
  <2> QED
    BY <2>1 DEF ReadBlock, ReadReturns, Ext2ReadBlock, FileReadBlock,
                MmapReadBlock, ReadFails, ReadIgnored, reader_vars
<1>2. ScanBegun /\ ScanBegun'
  BY <1>1 DEF ScanBegun, ReaderInv, Opened, NoReader
<1>3. TypesToFind' = TypesToFind /\ Examined' = Examined
  BY <1>1, <1>2, ScanStays DEF window, scan
<1>4. Listed' = Listed /\ ChunksCounted' = ChunksCounted
  BY <1>1, ReportStays DEF scan
<1>5. Progress' = Progress
  BY <1>1, <1>2 DEF Progress
<1> QED
  BY <1>3, <1>4, <1>5 DEF MappedVars

LEMMA SkipImplements ==
  ASSUME IInv, ReaderInv, SkipAllocated
  PROVE  UNCHANGED MappedVars
<1>1. /\ pc = "scan" /\ blk < max_blk /\ is_allocated(blk) /\ blk' = blk + 1
      /\ UNCHANGED <<reader_vars, options, window, max_blk, chunk_header_count, report, pc>>
  BY DEF SkipAllocated
<1>2. ScanBegun /\ ScanBegun'
  BY <1>1 DEF ScanBegun, ReaderInv, Opened, NoReader, reader_vars
<1>3. TypesToFind' = TypesToFind
  BY <1>1, <1>2, ScanStays DEF window, reader_vars
<1>4. Examined' = Examined
  <2>1. Scanned(blk + 1) = Scanned(blk)
    <3>1. blk \in Nat /\ first_blknum \in Nat /\ first_blknum <= blk
      BY <1>1, Counters, FirstBlock DEF IInv, Behind
    <3> QED
      BY <1>1, <3>1, NextScanned
  <2>2. first_blknum' = first_blknum /\ \A b : is_allocated(b)' = is_allocated(b)
    BY <1>1, SameBlocks DEF window, reader_vars
  <2>3. Scanned(blk)' = Scanned(blk + 1) /\ Scanned(max_blk)' = Scanned(max_blk)
    BY <1>1, <2>2 DEF Scanned
  <2> QED
    BY <1>2, <2>1, <2>3 DEF Examined
<1>5. Listed' = Listed /\ ChunksCounted' = ChunksCounted
  BY <1>1, ReportStays
<1>6. Progress' = Progress
  BY <1>1, <1>2 DEF Progress
<1> QED
  BY <1>3, <1>4, <1>5, <1>6 DEF MappedVars

(***************************************************************************)
(* A block that is classified is examined: what is said of it is what it   *)
(* is, and what is said stays.                                             *)
(***************************************************************************)
LEMMA ClassifyCountsChunks ==
  ASSUME IInv, Classify
  PROVE  chunk_header_count' + CountSum(report')
           = chunk_header_count + CountSum(report)
               + (IF HasEncodedChunk(buffer) THEN 1 ELSE 0)
<1>1. blk \in Nat /\ chunk_header_count \in Nat /\ report \in Seq(Items)
  BY Counters DEF IInv, ReportGrows, WellFormed
<1>2. CountSum(report) \in Nat
  BY <1>1, CountsFinite
<1>3. \A t \in {"timestamps", "offsets", "chunk headers"} :
        Line(t, blk) \in Items /\ Line(t, blk).type # "count"
  BY <1>1 DEF Line, Items, LineItems
<1>4. CASE FindsNothing
  BY <1>1, <1>2, <1>4 DEF FindsNothing
<1>5. CASE ContinuesRun
  BY <1>1, <1>2, <1>5 DEF ContinuesRun
<1>6. CASE OpensRun
  <2>1. CountSum(report') = CountSum(report)
    BY <1>1, <1>3, <1>6, LineAddsNothing DEF OpensRun
  <2>2. chunk_header_count = 0 /\ chunk_header_count' = 1 /\ HasEncodedChunk(buffer)
    BY <1>6 DEF OpensRun
  <2> QED
    BY <1>2, <2>1, <2>2
<1>7. ASSUME NEW t \in {"timestamps", "offsets"}, FindsTable(t)
      PROVE  /\ ~HasEncodedChunk(buffer)
             /\ chunk_header_count' + CountSum(report') = chunk_header_count + CountSum(report)
  <2> DEFINE e == Line(t, blk)
             c == CountLine(chunk_header_count)
  <2>1. e \in Items /\ e.type # "count"
    BY <1>3
  <2>2. c \in Items
    BY <1>1 DEF CountLine, Items, CountItems
  <2>3. CountSum(Append(report, c)) = chunk_header_count + CountSum(report)
    BY <1>1, CountAdds
  <2>4. Append(report, c) \in Seq(Items)
    BY <1>1, <2>2, AppendProperties
  <2>5. chunk_header_count' = 0 /\ ~HasEncodedChunk(buffer)
    BY <1>7 DEF FindsTable
  <2>6. CASE chunk_header_count = 0
    <3>1. report' = Append(report, e)
      BY <1>7, <2>6 DEF FindsTable
    <3> HIDE DEF e
    <3>2. CountSum(report') = CountSum(report)
      BY <1>1, <2>1, <3>1, LineAddsNothing
    <3> QED
      BY <1>2, <2>5, <2>6, <3>2
  <2>7. CASE chunk_header_count > 0
    <3>1. report' = Append(Append(report, c), e)
      BY <1>7, <2>7 DEF FindsTable
    <3> HIDE DEF e, c
    <3>2. CountSum(report') = CountSum(Append(report, c))
      BY <2>1, <2>4, <3>1, LineAddsNothing
    <3> QED
      BY <1>1, <1>2, <2>3, <2>5, <3>2
  <2> QED
    BY <1>1, <2>6, <2>7
<1> QED
  BY <1>1, <1>2, <1>4, <1>5, <1>6, <1>7, ClassifyCases

LEMMA ClassifyImplements ==
  ASSUME IInv, ReaderInv, "file" \notin Faulty, Classify
  PROVE  Carving!Examine(blk)
<1>1. /\ pc = "classify" /\ pc' = "scan" /\ blk' = blk + 1
      /\ UNCHANGED <<reader_vars, options, window, max_blk>>
  BY DEF Classify
<1>2. /\ blk \in Nat /\ max_blk \in Nat /\ first_blknum \in Nat
      /\ first_blknum <= blk /\ blk < max_blk /\ ~is_allocated(blk)
      /\ Holds(blk, Size) /\ buffer = Block(blk, Size)
  BY <1>1, Counters, FirstBlock DEF IInv, Behind, Delivered, ReaderInv
<1>3. ScanBegun /\ ScanBegun'
  BY <1>1 DEF ScanBegun, ReaderInv, Opened, NoReader, reader_vars
<1>4. TypesToFind' = TypesToFind
  BY <1>1, <1>3, ScanStays DEF window, reader_vars
<1>5. blk \in Scanned(max_blk) /\ blk \notin Scanned(blk)
  BY <1>2 DEF Scanned
<1>6. blk \in DOMAIN TypesToFind \ Examined /\ TypesToFind[blk] = TypesOf(blk)
  BY <1>3, <1>5 DEF TypesToFind, Examined
<1>7. Examined' = Examined \cup {blk}
  <2>1. Scanned(blk + 1) = Scanned(blk) \cup {blk}
    BY <1>2, NextScanned
  <2>2. first_blknum' = first_blknum /\ \A b : is_allocated(b)' = is_allocated(b)
    BY <1>1, SameBlocks DEF window, reader_vars
  <2>3. Scanned(blk)' = Scanned(blk + 1) /\ Scanned(max_blk)' = Scanned(max_blk)
    BY <1>1, <2>2 DEF Scanned
  <2> QED
    BY <1>3, <1>5, <2>1, <2>3 DEF Examined
<1>8. Listed' = Listed \cup ((TypesOf(blk) \cap {"timestamps", "offsets"}) \X {blk})
  <2>1. ListedIn(report')
          = ListedIn(report) \cup {t \in {"timestamps", "offsets"} : IsTable(t)} \X {blk}
    BY ClassifyingReports
  <2>2. {t \in {"timestamps", "offsets"} : IsTable(t)}
          = TypesOf(blk) \cap {"timestamps", "offsets"}
    BY <1>2 DEF TypesOf, IsTable
  <2>3. Listed = ListedIn(report) /\ Listed' = ListedIn(report')
    BY DEF Listed, ListedIn, TableLines, LinesOf
  <2> QED
    BY <2>1, <2>2, <2>3
<1>9. ChunksCounted' = ChunksCounted + (IF "chunk" \in TypesOf(blk) THEN 1 ELSE 0)
  <2>1. "chunk" \in TypesOf(blk) <=> HasEncodedChunk(buffer)
    BY <1>2 DEF TypesOf
  <2> QED
    BY <2>1, ChunksCountedIs, ChunksCountedNext, ClassifyCountsChunks
<1>10. Progress = "scanning" /\ Progress' = "scanning"
  BY <1>1, <1>3 DEF Progress
<1>11. Listed' = Listed \cup ((TypesToFind[blk] \cap Carving!Tables) \X {blk})
  BY <1>6, <1>8 DEF Carving!Tables
<1>12. ChunksCounted' = ChunksCounted + (IF "chunk" \in TypesToFind[blk] THEN 1 ELSE 0)
  BY <1>6, <1>9
<1> QED
  BY <1>4, <1>6, <1>7, <1>10, <1>11, <1>12, Zenon DEF Carving!Examine

(***************************************************************************)
(* The end of the scan: nothing is left to examine, and the count pending  *)
(* is written.                                                             *)
(***************************************************************************)
LEMMA FinishImplements ==
  ASSUME IInv, ReaderInv, Finish
  PROVE  Carving!Complete
<1>1. /\ pc = "scan" /\ pc' = "exited" /\ blk >= max_blk
      /\ chunk_header_count' = 0 /\ report' = report \o CloseRun
      /\ UNCHANGED <<reader_vars, options, window, blk, max_blk>>
  BY DEF Finish
<1>2. ScanBegun /\ ScanBegun'
  BY <1>1 DEF ScanBegun, ReaderInv, Opened, NoReader, reader_vars
<1>3. TypesToFind' = TypesToFind /\ Examined' = Examined
  BY <1>1, <1>2, ScanStays DEF window, reader_vars
<1>4. Examined = DOMAIN TypesToFind
  <2>1. blk \in Nat /\ max_blk \in Nat /\ first_blknum \in Nat
    BY Counters, FirstBlock DEF IInv
  <2>2. Scanned(max_blk) \subseteq Scanned(blk)
    BY <1>1, <2>1 DEF Scanned
  <2> QED
    BY <1>2, <2>2 DEF Examined, TypesToFind
<1>5. Listed' = Listed /\ ChunksCounted' = ChunksCounted
  <2>1. /\ WellFormed(report, blk) /\ (chunk_header_count > 0 <=> PendingRun(report))
        /\ blk \in Nat /\ chunk_header_count \in Nat /\ report \in Seq(Items)
    BY Counters DEF IInv, ReportGrows, WellFormed
  <2>2. CASE chunk_header_count = 0
    <3>1. report' = report
      BY <1>1, <2>1, <2>2, ConcatEmptySeq DEF CloseRun
    <3> QED
      BY <1>1, <2>2, <3>1, ReportStays
  <2>3. CASE chunk_header_count > 0
    <3>1. report' = Append(report, CountLine(chunk_header_count))
      <4>1. CountLine(chunk_header_count) \in Items
        BY <2>1 DEF CountLine, Items, CountItems
      <4> QED
        BY <1>1, <2>1, <2>3, <4>1, AppendIsConcat DEF CloseRun
    <3>2. ListedIn(report') = ListedIn(report)
      BY <2>1, <2>3, <3>1, AppendCount
    <3>3. CountSum(report') = chunk_header_count + CountSum(report)
      BY <2>1, <3>1, CountAdds
    <3>4. Listed = ListedIn(report) /\ Listed' = ListedIn(report')
      BY DEF Listed, ListedIn, TableLines, LinesOf
    <3>5. CountSum(report) \in Nat
      BY <2>1, CountsFinite
    <3> QED
      BY <1>1, <2>1, <3>2, <3>3, <3>4, <3>5, ChunksCountedIs, ChunksCountedNext
  <2> QED
    BY <2>1, <2>2, <2>3
<1>6. Progress = "scanning" /\ Progress' = "complete"
  BY <1>1, <1>2 DEF Progress
<1> QED
  BY <1>3, <1>4, <1>5, <1>6 DEF Carving!Complete

LEMMA ReadThrowsImplements ==
  ASSUME ReaderInv, ReadBlockThrows
  PROVE  Carving!Fail
<1>1. /\ pc = "scan" /\ pc' = "aborted"
      /\ UNCHANGED <<reader_vars, options, window, scan>>
  BY DEF ReadBlockThrows, ReadThrows, Ext2ReadThrows, FileReadThrows, MmapReadThrows
<1>2. ScanBegun /\ ScanBegun'
  BY <1>1 DEF ScanBegun, ReaderInv, Opened, NoReader, reader_vars
<1>3. TypesToFind' = TypesToFind /\ Examined' = Examined
  BY <1>1, <1>2, ScanStays DEF window, scan, reader_vars
<1>4. Listed' = Listed /\ ChunksCounted' = ChunksCounted
  BY <1>1, ReportStays DEF scan
<1>5. Progress = "scanning" /\ Progress' = "failed"
  BY <1>1, <1>2 DEF Progress
<1> QED
  BY <1>3, <1>4, <1>5 DEF Carving!Fail

LEMMA StutterImplements ==
  ASSUME UNCHANGED vars
  PROVE  UNCHANGED MappedVars
<1>1. UNCHANGED <<image, reader, start_time, stop_time, blk, max_blk, chunk_header_count,
                  report, pc>>
  BY DEF vars, reader_vars, options, window, scan
<1>2. ScanBegun' <=> ScanBegun
  BY <1>1 DEF ScanBegun
<1>3. TypesToFind' = TypesToFind /\ Examined' = Examined
  BY <1>1, <1>2, ScanStays
<1>4. Listed' = Listed /\ ChunksCounted' = ChunksCounted
  BY <1>1, ReportStays
<1>5. Progress' = Progress
  BY <1>1, <1>2 DEF Progress
<1> QED
  BY <1>3, <1>4, <1>5 DEF MappedVars

LEMMA StepImplements ==
  ASSUME IInv, ReaderInv, "file" \notin Faulty, [Next]_vars
  PROVE  [Carving!Next]_MappedVars
<1>1. CASE \/ ComputeWindow \/ ParseCommandLine \/ RefuseCommandLine
           \/ Identify \/ Open \/ OpenThrows
  BY <1>1, BeforeScanImplements
<1>2. CASE StartScan
  BY <1>2, StartImplements DEF Carving!Next
<1>3. CASE SkipAllocated \/ ReadBlock \/ Terminated \/ UNCHANGED vars
  BY <1>3, SkipImplements, ReadImplements, StutterImplements DEF Terminated
<1>4. CASE Classify
  <2>1. blk \in 0 .. ScanLimit - 1
    <3>1. blk \in Nat /\ max_blk \in 0 .. ScanLimit /\ blk < max_blk
      BY <1>4, Counters DEF IInv, TypeOK, Delivered, Classify
    <3> QED
      BY <3>1, ScanLimitAssumption
  <2> QED
    BY <1>4, <2>1, ClassifyImplements DEF Carving!Next
<1>5. CASE Finish
  BY <1>5, FinishImplements DEF Carving!Next
<1>6. CASE ReadBlockThrows
  BY <1>6, ReadThrowsImplements DEF Carving!Next
<1> QED
  BY <1>1, <1>2, <1>3, <1>4, <1>5, <1>6 DEF Next

(***************************************************************************)
(* If the reads of a plain file do not fail, mcarve implements Carver, for *)
(* every image, command line and clock.                                    *)
(***************************************************************************)
THEOREM McarveImplementsCarver ==
  ASSUME "file" \notin Faulty
  PROVE  Spec => ImplementsCarver
<1>1. Init => ReaderInv
  BY DEF Init, ReaderInv, NoReader, BeforeOpen, Opened
<1>2. Spec => []ReaderInv
  BY <1>1, ReaderStep, PTL DEF Spec
<1>3. IInv /\ ReaderInv /\ [Next]_vars => [Carving!Next]_MappedVars
  BY StepImplements
<1> QED
  BY <1>2, <1>3, InitImplements, Invariance, PTL
     DEF Spec, ImplementsCarver, Carving!Spec, Carving!vars, MappedVars
=============================================================================
