------------------------ MODULE ReaderClient_proofs ------------------------
(***************************************************************************)
(* Proofs about ReaderClient: for every set of images and every pattern of *)
(* calls, the readers implement BlockSource if the calls below the         *)
(* ifstream reader do not fail, and a failing ifstream reader freezes the  *)
(* caller's buffer.                                                        *)
(***************************************************************************)
EXTENDS ReaderClient, TLAPS
-----------------------------------------------------------------------------
(***************************************************************************)
(* Facts about the readers that every program on top of them relies on.    *)
(***************************************************************************)
ReaderType == [kind : Kinds \cup {"none"}, total : Nat, good : BOOLEAN]

(***************************************************************************)
(* A reader of a file counts only blocks the file holds, so that each of   *)
(* its reads has a block to deliver.                                       *)
(***************************************************************************)
CountsWhatItHolds ==
  reader.kind \in {"file", "mmap"} => reader.total * Size <= Len(image.data)

(***************************************************************************)
(* A block that the image holds is a buffer.                               *)
(***************************************************************************)
LEMMA BlockIsBuffer ==
  ASSUME image \in Images, NEW b \in Nat, Holds(b, Size)
  PROVE  Block(b, Size) \in Buffer
<1>1. image.data \in Seq(Nat)
  BY ImagesAssumption DEF ImageType
<1>2. Size \in Nat /\ b * Size \in Nat
  BY SizeAssumption
<1>3. (b + 1) * Size = b * Size + Size
  BY <1>2
<1>4. ASSUME NEW k \in 0 .. Size - 1
      PROVE  b * Size + k + 1 \in 1 .. Len(image.data)
  BY <1>1, <1>2, <1>3 DEF Holds
<1>5. \A k \in 0 .. Size - 1 : image.data[b * Size + k + 1] \in Nat
  BY <1>1, <1>4
<1> QED
  BY <1>5 DEF Block, Buffer, Index

(***************************************************************************)
(* Whole blocks are counted: their words are no more than the file's.      *)
(***************************************************************************)
LEMMA WholeBlocks ==
  ASSUME NEW n \in Nat
  PROVE  /\ n \div Size \in Nat
         /\ (n \div Size) * Size <= n
BY SizeAssumption

LEMMA BlockCounted ==
  ASSUME image \in Images, reader \in ReaderType, CountsWhatItHolds, NEW b \in Nat,
         reader.kind \in {"file", "mmap"}, b < reader.total
  PROVE  Holds(b, Size)
<1>1. reader.total \in Nat /\ Size \in Nat /\ b + 1 <= reader.total
  BY SizeAssumption DEF ReaderType
<1>2. (b + 1) * Size <= reader.total * Size
  BY <1>1
<1>3. Len(image.data) \in Nat
  BY ImagesAssumption DEF ImageType
<1> QED
  BY <1>1, <1>2, <1>3 DEF CountsWhatItHolds, Holds

(***************************************************************************)
(* A new prefix in front of an old rest is a buffer, too.                  *)
(***************************************************************************)
LEMMA PartialReadIsBuffer ==
  ASSUME image \in Images, buffer \in Buffer, NEW b \in Nat, Holds(b, Size), ReadFails(b)
  PROVE  buffer' \in Buffer
<1>1. Block(b, Size) \in Buffer
  BY BlockIsBuffer
<1>2. PICK n \in 0 .. Size - 1 :
        buffer' = [k \in Index |-> IF k < n THEN Block(b, Size)[k] ELSE buffer[k]]
  BY DEF ReadFails
<1> QED
  BY <1>1, <1>2 DEF Buffer
-----------------------------------------------------------------------------
(***************************************************************************)
(* A constructor leaves a reader that counts what its file holds, and a    *)
(* stream that is good unless the file cannot seek.                        *)
(***************************************************************************)
LEMMA ConstructorsCount ==
  ASSUME image \in Images, OpenExt2 \/ OpenFile \/ OpenFileUnseekable \/ OpenMmap
  PROVE  /\ image' = image /\ buffer' = buffer
         /\ reader' \in ReaderType
         /\ CountsWhatItHolds'
         /\ ~reader'.good => reader'.kind = "file" /\ "file" \in Faulty
<1>1. image' = image /\ buffer' = buffer
  BY DEF OpenExt2, OpenFile, OpenFileUnseekable, OpenMmap
<1>2. Len(image.data) \in Nat /\ image.fs_blocks \in Nat
  BY ImagesAssumption DEF ImageType
<1>3. /\ Len(image.data) \div Size \in Nat
      /\ (Len(image.data) \div Size) * Size <= Len(image.data)
  BY <1>2, WholeBlocks
<1>4. CASE OpenExt2
  BY <1>1, <1>2, <1>4 DEF OpenExt2, fs_blocks_count, CountsWhatItHolds, ReaderType, Kinds
<1>5. CASE OpenFile
  BY <1>1, <1>3, <1>5 DEF OpenFile, CountsWhatItHolds, ReaderType, Kinds
<1>6. CASE OpenFileUnseekable
  BY <1>1, <1>2, <1>6, SizeAssumption
     DEF OpenFileUnseekable, CountsWhatItHolds, ReaderType, Kinds
<1>7. CASE OpenMmap
  BY <1>1, <1>3, <1>7 DEF OpenMmap, CountsWhatItHolds, ReaderType, Kinds
<1> QED
  BY <1>4, <1>5, <1>6, <1>7

(***************************************************************************)
(* A read that returns, in whichever of the three ways, leaves a buffer;   *)
(* it is the block as long as the stream is good.                          *)
(***************************************************************************)
LEMMA ReadsDeliverWhileGood ==
  ASSUME image \in Images, reader \in ReaderType, buffer \in Buffer, CountsWhatItHolds,
         NEW b \in Nat, ReadReturns(b) \/ ReadFails(b) \/ ReadIgnored(b)
  PROVE  /\ image' = image
         /\ buffer' \in Buffer
         /\ reader' \in ReaderType
         /\ reader'.kind = reader.kind /\ reader'.total = reader.total
         /\ CountsWhatItHolds'
         /\ reader'.good => reader.good /\ Holds(b, Size) /\ buffer' = Block(b, Size)
         /\ ~reader'.good => ~reader.good \/ (reader.kind = "file" /\ "file" \in Faulty)
<1>1. image' = image
  BY DEF ReadReturns, Ext2ReadBlock, FileReadBlock, MmapReadBlock, ReadFails,
         ReadIgnored, reader_vars
<1>2. CASE ReadReturns(b)
  <2>1. buffer' \in Buffer
    BY <1>2, BlockIsBuffer DEF ReadReturns, Ext2ReadBlock, FileReadBlock, MmapReadBlock
  <2> QED
    BY <1>1, <1>2, <2>1
       DEF ReadReturns, Ext2ReadBlock, FileReadBlock, MmapReadBlock, CountsWhatItHolds
<1>3. CASE ReadFails(b)
  <2>1. buffer' \in Buffer
    BY <1>3, BlockCounted, PartialReadIsBuffer DEF ReadFails
  <2>2. reader' = [kind |-> reader.kind, total |-> reader.total, good |-> FALSE]
    BY <1>3 DEF ReadFails, ReaderType
  <2>3. reader.kind = "file" /\ "file" \in Faulty
    BY <1>3 DEF ReadFails
  <2>4. reader' \in ReaderType /\ CountsWhatItHolds'
    BY <1>1, <2>2 DEF CountsWhatItHolds, ReaderType
  <2> QED
    BY <1>1, <2>1, <2>2, <2>3, <2>4
<1>4. CASE ReadIgnored(b)
  BY <1>1, <1>4 DEF ReadIgnored, reader_vars, CountsWhatItHolds
<1> QED
  BY <1>2, <1>3, <1>4
-----------------------------------------------------------------------------
(***************************************************************************)
(* The inductive invariant: a reader of a file counts only blocks the file *)
(* holds; nothing was asked before a reader was open; only a stream is not *)
(* good, and only if calls below it fail; and while it is good a read      *)
(* delivers the block.                                                     *)
(***************************************************************************)
NothingAskedYet == reader = NoReader => last = NoCall

GoodUntilAFault == ~reader.good => reader.kind = "file" /\ "file" \in Faulty

DeliversWhileGood ==
  last.result = "returned" /\ reader.good => buffer = Block(last.blk, Size)

IInv ==
  /\ TypeOK
  /\ CountsWhatItHolds
  /\ NothingAskedYet
  /\ GoodUntilAFault
  /\ DeliversWhileGood
-----------------------------------------------------------------------------
LEMMA InitialStates == Init => IInv
BY ClientAssumption
   DEF Init, IInv, TypeOK, CountsWhatItHolds, NothingAskedYet,
       GoodUntilAFault, DeliversWhileGood, NoReader, NoCall, Kinds

LEMMA OpenPreserves ==
  ASSUME IInv, Open
  PROVE  IInv'
<1>1. alive' = alive /\ last' = last /\ last = NoCall
  BY DEF Open, IInv, NothingAskedYet
<1>2. /\ image' = image /\ buffer' = buffer
      /\ reader' \in ReaderType
      /\ CountsWhatItHolds'
      /\ GoodUntilAFault'
  BY ConstructorsCount DEF Open, IInv, TypeOK, GoodUntilAFault
<1>3. TypeOK' /\ NothingAskedYet' /\ DeliversWhileGood'
  BY <1>1, <1>2
     DEF IInv, TypeOK, NothingAskedYet, DeliversWhileGood, NoCall, ReaderType
<1> QED
  BY <1>2, <1>3 DEF IInv

(***************************************************************************)
(* A read that returns, in whichever of the three ways.                    *)
(***************************************************************************)
LEMMA ReadPreserves ==
  ASSUME IInv, NEW b \in Numbers, Read(b)
  PROVE  IInv'
<1>1. b \in Nat
  BY ClientAssumption
<1>2. /\ last' = [op |-> "read", blk |-> b, result |-> "returned"]
      /\ alive' = alive
      /\ reader # NoReader
  BY DEF Read, Opened
<1>3. image \in Images /\ reader \in ReaderType /\ buffer \in Buffer
  BY DEF IInv, TypeOK, ReaderType
<1>4. /\ image' = image
      /\ buffer' \in Buffer
      /\ reader' \in ReaderType
      /\ reader'.kind = reader.kind /\ reader'.total = reader.total
      /\ CountsWhatItHolds'
      /\ reader'.good => reader.good /\ Holds(b, Size) /\ buffer' = Block(b, Size)
      /\ ~reader'.good => ~reader.good \/ (reader.kind = "file" /\ "file" \in Faulty)
  BY <1>1, <1>3, ReadsDeliverWhileGood DEF Read, IInv
<1>5. TypeOK' /\ GoodUntilAFault'
  BY <1>1, <1>2, <1>4 DEF IInv, TypeOK, GoodUntilAFault, ReaderType
<1>6. reader' # NoReader
  BY <1>2, <1>3, <1>4
     DEF Read, ReadReturns, Ext2ReadBlock, FileReadBlock, MmapReadBlock, ReadFails,
         ReadIgnored, ReaderType, NoReader, reader_vars
<1>7. NothingAskedYet' /\ DeliversWhileGood'
  BY <1>2, <1>4, <1>6 DEF NothingAskedYet, DeliversWhileGood, Block
<1> QED
  BY <1>4, <1>5, <1>7 DEF IInv

(***************************************************************************)
(* The other steps leave the reader and the buffer alone, and none of them *)
(* claims that a read returned.                                            *)
(***************************************************************************)
LEMMA OthersPreserve ==
  ASSUME IInv,
         \/ OpenFails
         \/ \E b \in Numbers : ReadFaults(b) \/ Die(b) \/ AskAllocated(b)
         \/ UNCHANGED vars
  PROVE  IInv'
<1>1. UNCHANGED <<image, reader, buffer>>
  BY DEF OpenFails, OpenExt2Throws, OpenFileThrows, OpenMmapThrows, reader_vars,
         ReadFaults, ReadThrows, Die, ReadKills, AskAllocated, vars
<1>2. alive' \in BOOLEAN
  BY DEF IInv, TypeOK, OpenFails, ReadFaults, Die, AskAllocated, vars
<1>3. \/ last' = last
      \/ /\ reader # NoReader
         /\ \E b \in Numbers : \E o \in {"read", "is_allocated"} :
              \E r \in {"thrown", "used", "free"} :
                last' = [op |-> o, blk |-> b, result |-> r]
  BY DEF OpenFails, ReadFaults, Die, AskAllocated, Opened, vars
<1>4. TypeOK'
  BY <1>1, <1>2, <1>3, ClientAssumption DEF IInv, TypeOK
<1>5. CountsWhatItHolds' /\ NothingAskedYet' /\ GoodUntilAFault'
  BY <1>1, <1>3 DEF IInv, CountsWhatItHolds, NothingAskedYet, GoodUntilAFault
<1>6. DeliversWhileGood'
  BY <1>1, <1>3 DEF IInv, DeliversWhileGood, Block
<1> QED
  BY <1>4, <1>5, <1>6 DEF IInv

LEMMA StepPreserves == IInv /\ [Next]_vars => IInv'
<1> SUFFICES ASSUME IInv, [Next]_vars
             PROVE  IInv'
  OBVIOUS
<1>1. CASE Open
  BY <1>1, OpenPreserves
<1>2. ASSUME NEW b \in Numbers, Read(b)
      PROVE  IInv'
  BY <1>2, ReadPreserves
<1>3. CASE \/ OpenFails
           \/ \E b \in Numbers : ReadFaults(b) \/ Die(b) \/ AskAllocated(b)
           \/ UNCHANGED vars
  BY <1>3, OthersPreserve
<1> QED
  BY <1>1, <1>2, <1>3 DEF Next

THEOREM Invariance == Spec => []IInv
BY InitialStates, StepPreserves, PTL DEF Spec

(***************************************************************************)
(* Whatever a file holds and whichever calls fail, the caller's buffer     *)
(* stays an array of words, the part of a block a failed read left in it   *)
(* included.                                                               *)
(***************************************************************************)
THEOREM TypeCorrect == Spec => []TypeOK
<1>1. IInv => TypeOK
  BY DEF IInv
<1> QED
  BY <1>1, Invariance, PTL
-----------------------------------------------------------------------------
(***************************************************************************)
(* A FileBlockReader that has once returned something else than the block  *)
(* never writes the caller's buffer again, for every image and every order *)
(* of calls: FileBlockReader::read_block does not clear() the stream.      *)
(***************************************************************************)
THEOREM FrozenAfterAFailedRead == Spec => FrozenOnceMisdelivered
<1>1. IInv /\ [Next]_vars => [Misdelivered => buffer' = buffer]_vars
  <2> SUFFICES ASSUME IInv, Next, Misdelivered
               PROVE  buffer' = buffer
    OBVIOUS
  <2>1. ~reader.good /\ reader.kind = "file"
    BY DEF IInv, DeliversWhileGood, GoodUntilAFault, Misdelivered
  <2>2. CASE Open
    BY <2>2 DEF Open, OpenExt2, OpenFile, OpenFileUnseekable, OpenMmap
  <2>3. ASSUME NEW b \in Numbers, Read(b)
        PROVE  buffer' = buffer
    BY <2>1, <2>3
       DEF Read, ReadReturns, Ext2ReadBlock, FileReadBlock, MmapReadBlock, ReadFails,
           ReadIgnored, reader_vars
  <2>4. CASE OpenFails \/ \E b \in Numbers : ReadFaults(b) \/ Die(b) \/ AskAllocated(b)
    BY <2>4 DEF OpenFails, OpenExt2Throws, OpenFileThrows, OpenMmapThrows,
                ReadFaults, ReadThrows, Die, ReadKills, AskAllocated, reader_vars
  <2> QED
    BY <2>2, <2>3, <2>4 DEF Next
<1> QED
  BY <1>1, Invariance, PTL DEF Spec, FrozenOnceMisdelivered
-----------------------------------------------------------------------------
(***************************************************************************)
(* The refinement.  The image is never written, so the content is not.     *)
(***************************************************************************)
LEMMA ContentUnchanged ==
  ASSUME image' = image
  PROVE  SourceContent' = SourceContent
BY DEF SourceContent, Holds, Block

LEMMA InitImplements == Init => Source!Init
BY DEF Init, Source!Init, SourceAllocated, SourceAnswer, NoReader, NoCall

LEMMA OpenImplements ==
  ASSUME IInv, Open
  PROVE  Source!Attach
<1>1. image' = image /\ last' = last /\ last = NoCall
  BY DEF Open, OpenExt2, OpenFile, OpenFileUnseekable, OpenMmap, IInv, NothingAskedYet
<1>2. SourceAnswer = <<"none", 0>> /\ SourceAnswer' = <<"none", 0>>
  BY <1>1 DEF SourceAnswer, NoCall
<1>3. SourceAllocated' \in SUBSET Numbers
  BY DEF SourceAllocated
<1> QED
  BY <1>1, <1>2, <1>3, ContentUnchanged DEF Source!Attach

LEMMA ReadImplements ==
  ASSUME IInv, "file" \notin Faulty, NEW b \in Numbers, Read(b)
  PROVE  Source!Read(b)
<1>1. ReadReturns(b)
  BY DEF Read, ReadFails, ReadIgnored, IInv, GoodUntilAFault
<1>2. image' = image /\ reader' = reader /\ Holds(b, Size) /\ buffer' = Block(b, Size)
  BY <1>1 DEF ReadReturns, Ext2ReadBlock, FileReadBlock, MmapReadBlock
<1>3. b \in DOMAIN SourceContent /\ SourceContent[b] = Block(b, Size)
  BY <1>2 DEF SourceContent
<1>4. SourceAnswer' = <<"block", b, buffer'>>
  BY DEF Read, SourceAnswer
<1>5. SourceAllocated' = SourceAllocated
  BY <1>2 DEF SourceAllocated
<1> QED
  BY <1>2, <1>3, <1>4, <1>5, ContentUnchanged DEF Source!Read

LEMMA FaultImplements ==
  ASSUME NEW b \in Numbers, ReadFaults(b)
  PROVE  Source!Read(b)
<1>1. image' = image /\ reader' = reader
  BY DEF ReadFaults, ReadThrows, reader_vars
<1>2. SourceAnswer' = <<"thrown", b>>
  BY DEF ReadFaults, SourceAnswer
<1>3. SourceAllocated' = SourceAllocated
  BY <1>1 DEF SourceAllocated
<1> QED
  BY <1>1, <1>2, <1>3, ContentUnchanged DEF Source!Read

LEMMA AskImplements ==
  ASSUME NEW b \in Numbers, AskAllocated(b)
  PROVE  Source!AskAllocated(b)
<1>1. image' = image /\ reader' = reader
  BY DEF AskAllocated
<1>2. is_allocated(b) <=> b \in SourceAllocated
  BY DEF is_allocated, block_is_used, SourceAllocated
<1>3. SourceAnswer' = <<IF b \in SourceAllocated THEN "used" ELSE "free", b>>
  BY <1>2 DEF AskAllocated, SourceAnswer
<1>4. SourceAllocated' = SourceAllocated
  BY <1>1 DEF SourceAllocated
<1> QED
  BY <1>1, <1>3, <1>4, ContentUnchanged DEF Source!AskAllocated

(***************************************************************************)
(* A constructor that throws and a page that kills the process answer      *)
(* nothing.                                                                *)
(***************************************************************************)
LEMMA OthersImplement ==
  ASSUME OpenFails \/ (\E b \in Numbers : Die(b)) \/ UNCHANGED vars
  PROVE  UNCHANGED <<SourceContent, SourceAllocated, SourceAnswer>>
<1>1. UNCHANGED <<image, reader, buffer, last>>
  BY DEF OpenFails, OpenExt2Throws, OpenFileThrows, OpenMmapThrows, Die,
         ReadKills, reader_vars, vars
<1> QED
  BY <1>1, ContentUnchanged DEF SourceAllocated, SourceAnswer

LEMMA StepImplements ==
  ASSUME "file" \notin Faulty, IInv, [Next]_vars
  PROVE  [Source!Next]_<<SourceContent, SourceAllocated, SourceAnswer>>
<1>1. CASE Open
  BY <1>1, OpenImplements DEF Source!Next
<1>2. ASSUME NEW b \in Numbers, Read(b) \/ ReadFaults(b) \/ AskAllocated(b)
      PROVE  Source!Next
  BY <1>2, ReadImplements, FaultImplements, AskImplements DEF Source!Next
<1>3. CASE OpenFails \/ (\E b \in Numbers : Die(b)) \/ UNCHANGED vars
  BY <1>3, OthersImplement
<1> QED
  BY <1>1, <1>2, <1>3 DEF Next

(***************************************************************************)
(* For every set of images and every order of calls, the readers keep the  *)
(* promise of BlockReader: they deliver the block or throw, and the block  *)
(* is always the same; provided that the calls whose failure               *)
(* FileBlockReader does not look at do not fail.  The run over the faults  *)
(* of an ifstream shows that the proviso is needed.                        *)
(***************************************************************************)
THEOREM ReadersImplementBlockSource ==
  ASSUME "file" \notin Faulty
  PROVE  Spec => ImplementsBlockSource
<1>1. IInv /\ [Next]_vars => [Source!Next]_<<SourceContent, SourceAllocated, SourceAnswer>>
  BY StepImplements
<1> QED
  BY <1>1, InitImplements, Invariance, PTL
     DEF Spec, ImplementsBlockSource, Source!Spec
=============================================================================
