----------------------- MODULE DumpUnusedBlocks_proofs -----------------------
(***************************************************************************)
(* Proofs about dump_unused_blocks' main: for every image, and whichever   *)
(* writes fail, its files are the beginnings of their lists, and the whole *)
(* of them when it reports success.                                        *)
(***************************************************************************)
EXTENDS DumpUnusedBlocks, SequenceTheorems, FiniteSetTheorems, TLAPS

(***************************************************************************)
(* Items 1 .. n of a list are listed by t; a stream that has not failed    *)
(* lists them in its file and what it holds, and its file begins the list  *)
(* in any case.                                                            *)
(***************************************************************************)
Lists(t, list, n) == Len(t) = n /\ \A i \in 1 .. n : t[i] = list[i]

Begins(t, list, total) == Len(t) <= total /\ \A i \in 1 .. Len(t) : t[i] = list[i]

Keeps(s, list, n) == ~s.bad => Lists(s.file \o s.held, list, n)

LEMMA MovedKeeps ==
  ASSUME NEW Item, NEW s \in Stream(Item), NEW items \in Seq(Item), NEW list,
         NEW total \in Nat, NEW n \in Nat, n <= total,
         Lists(s.file \o items, list, n), NEW m \in 0 .. Len(items)
  PROVE  /\ Moved(s, items, m) \in Stream(Item)
         /\ Begins(Moved(s, items, m).file, list, total)
         /\ Keeps(Moved(s, items, m), list, n)
         /\ Moved(s, items, m).bad = s.bad
         /\ m = Len(items) => Lists(Moved(s, items, m).file, list, n)
         /\ Broken(s, items, m) \in Stream(Item)
         /\ Begins(Broken(s, items, m).file, list, total)
         /\ Broken(s, items, m).bad
<1>1. /\ s.file \in Seq(Item) /\ s.open \in BOOLEAN /\ s.bad \in BOOLEAN
      /\ DOMAIN s = {"open", "file", "held", "bad"}
  BY DEF Stream
<1> DEFINE file == s.file
<1>2. file \in Seq(Item)
  BY <1>1
<1> HIDE DEF file
<1> DEFINE f == file \o SubSeq(items, 1, m)
           h == SubSeq(items, m + 1, Len(items))
<1>3. /\ Len(items) \in Nat /\ m \in Nat /\ m <= Len(items)
      /\ \A i \in 1 .. Len(items) : items[i] \in Item
  BY LenProperties
<1>4. /\ SubSeq(items, 1, m) \in Seq(Item) /\ Len(SubSeq(items, 1, m)) = m
      /\ \A i \in 1 .. m : SubSeq(items, 1, m)[i] = items[i]
  <2>1. \A i \in 1 .. m : items[i] \in Item
    BY <1>3
  <2>2. SubSeq(items, 1, m) \in Seq(Item)
    BY <1>3, <2>1, SubSeqProperties
  <2> QED
    BY <1>3, <2>1, <2>2
<1>5. h \in Seq(Item)
  <2>1. \A i \in m + 1 .. Len(items) : items[i] \in Item
    BY <1>3
  <2> QED
    BY <1>3, <2>1, SubSeqProperties
<1>6. SubSeq(items, 1, m) \o h = items
  <2>1. 1 \in 1 .. Len(items) + 1 /\ m \in 1 - 1 .. Len(items) /\ Len(items) \in m .. Len(items)
    BY <1>3
  <2>2. SubSeq(items, 1, m) \o h = SubSeq(items, 1, Len(items))
    BY <2>1, ConcatAdjacentSubSeq
  <2> QED
    BY <2>2, SubSeqFull
<1>7. f \o h = file \o items
  <2> DEFINE a == SubSeq(items, 1, m)
             b == h
  <2>1. a \in Seq(Item) /\ b \in Seq(Item)
    BY <1>4, <1>5
  <2>2. a \o b = items
    BY <1>6
  <2> HIDE DEF a, b, h
  <2>3. (file \o a) \o b = file \o (a \o b)
    BY <1>2, <2>1, ConcatAssociative
  <2>4. (file \o a) \o b = file \o items
    BY <2>2, <2>3
  <2> QED
    BY <2>4 DEF a, b
<1>8. f \in Seq(Item) /\ Len(f) = Len(file) + m /\ Len(file) \in Nat
  BY <1>2, <1>4, ConcatProperties, LenProperties
<1>9. \A i \in 1 .. Len(file) + m : f[i] = (file \o items)[i]
  <2> TAKE i \in 1 .. Len(file) + m
  <2>1. f[i] = IF i <= Len(file) THEN file[i] ELSE SubSeq(items, 1, m)[i - Len(file)]
    BY <1>2, <1>4, ConcatProperties
  <2>2. i \in 1 .. Len(file) + Len(items)
    BY <1>3, <1>8
  <2>3. (file \o items)[i] = IF i <= Len(file) THEN file[i] ELSE items[i - Len(file)]
    BY <1>2, <2>2, ConcatProperties
  <2>4. ~(i <= Len(file)) => i - Len(file) \in 1 .. m
    BY <1>3, <1>8
  <2> QED
    BY <1>4, <2>1, <2>3, <2>4
<1>10. /\ f \in Seq(Item) /\ h \in Seq(Item) /\ f \o h = file \o items
       /\ Len(f) = Len(file) + m
       /\ \A i \in 1 .. Len(f) : f[i] = (file \o items)[i]
  BY <1>5, <1>7, <1>8, <1>9
<1>11. /\ Moved(s, items, m) = [open |-> s.open, file |-> f, held |-> h, bad |-> s.bad]
       /\ Broken(s, items, m) = [open |-> s.open, file |-> f, held |-> <<>>, bad |-> TRUE]
  BY Zenon DEF Moved, Broken, file
<1>12. Len(file \o items) = Len(file) + Len(items) /\ Len(items) \in Nat /\ Len(file) \in Nat
  <2>1. Len(items) \in Nat /\ Len(file) \in Nat
    BY <1>2, LenProperties
  <2>2. Len(file \o items) = Len(file) + Len(items)
    BY <1>2, ConcatProperties
  <2> QED
    BY <2>1, <2>2
<1> HIDE DEF f, h
<1>13. Lists(file \o items, list, n)
  BY DEF file
<1>14. Len(f) <= n /\ Len(f) \in Nat /\ \A i \in 1 .. Len(f) : f[i] = list[i]
  <2>1. Len(f) <= n /\ Len(f) \in Nat
    BY <1>10, <1>12, <1>13 DEF Lists
  <2>2. \A i \in 1 .. Len(f) : i \in 1 .. n
    BY <2>1
  <2> QED
    BY <1>10, <1>13, <2>1, <2>2 DEF Lists
<1>15. m = Len(items) => Len(f) = n
  BY <1>10, <1>12, <1>13 DEF Lists
<1>16. Begins(f, list, total)
  BY <1>14 DEF Begins
<1>17. Lists(f \o h, list, n)
  BY <1>10, <1>13
<1>18. m = Len(items) => Lists(f, list, n)
  BY <1>14, <1>15 DEF Lists
<1>19. <<>> \in Seq(Item)
  OBVIOUS
<1>20. /\ Moved(s, items, m) \in Stream(Item) /\ Broken(s, items, m) \in Stream(Item)
       /\ Moved(s, items, m).file = f /\ Moved(s, items, m).held = h
       /\ Moved(s, items, m).bad = s.bad
       /\ Broken(s, items, m).file = f /\ Broken(s, items, m).bad
  BY <1>1, <1>10, <1>11, <1>19 DEF Stream
<1> QED
  BY <1>16, <1>17, <1>18, <1>20 DEF Keeps

LEMMA AppendAfter ==
  ASSUME NEW Item, NEW f \in Seq(Item), NEW h \in Seq(Item), NEW item \in Item
  PROVE  Append(h, item) \in Seq(Item) /\ f \o Append(h, item) = Append(f \o h, item)
<1> DEFINE one == <<item>>
<1>1. one \in Seq(Item) /\ Append(h, item) = h \o one /\ Append(h, item) \in Seq(Item)
  BY AppendProperties, AppendIsConcat
<1>2. f \o h \in Seq(Item)
  BY ConcatProperties
<1>3. Append(f \o h, item) = (f \o h) \o one
  BY <1>2, AppendIsConcat
<1> HIDE DEF one
<1>4. (f \o h) \o one = f \o (h \o one)
  BY <1>1, ConcatAssociative
<1> QED
  BY <1>1, <1>3, <1>4

LEMMA WrittenKeeps ==
  ASSUME NEW Item, NEW s \in Stream(Item), NEW item \in Item, NEW list,
         NEW total \in Nat, NEW n \in Nat, n + 1 <= total, list[n + 1] = item,
         Begins(s.file, list, total), Keeps(s, list, n), NEW t \in Written(s, item)
  PROVE  t \in Stream(Item) /\ Begins(t.file, list, total) /\ Keeps(t, list, n + 1)
<1>1. s.file \in Seq(Item) /\ s.held \in Seq(Item)
  BY DEF Stream
<1>2. CASE s.bad
  BY <1>2 DEF Written, Keeps
<1>3. CASE ~s.bad
  <2> DEFINE items == Append(s.held, item)
  <2>1. items \in Seq(Item) /\ s.file \o items = Append(s.file \o s.held, item)
    <3> DEFINE f == s.file
               h == s.held
    <3>1. f \in Seq(Item) /\ h \in Seq(Item)
      BY <1>1
    <3> HIDE DEF f, h
    <3>2. Append(h, item) \in Seq(Item) /\ f \o Append(h, item) = Append(f \o h, item)
      BY <3>1, AppendAfter
    <3> QED
      BY <3>2 DEF f, h
  <2>2. Lists(s.file \o items, list, n + 1)
    <3> DEFINE old == s.file \o s.held
    <3>1. Lists(old, list, n) /\ old \in Seq(Item)
      BY <1>1, <1>3, ConcatProperties DEF Keeps
    <3> HIDE DEF old
    <3>2. /\ Len(Append(old, item)) = n + 1
          /\ \A i \in 1 .. n : Append(old, item)[i] = old[i]
          /\ Append(old, item)[n + 1] = item
      BY <3>1, AppendProperties DEF Lists
    <3>3. \A i \in 1 .. n + 1 : i \in 1 .. n \/ i = n + 1
      OBVIOUS
    <3>4. Lists(Append(old, item), list, n + 1)
      BY <3>1, <3>2, <3>3 DEF Lists
    <3> QED
      BY <2>1, <3>4 DEF old
  <2>3. \/ \E m \in 0 .. Len(items) : t = Moved(s, items, m)
        \/ \E m \in 0 .. Len(items) - 1 : t = Broken(s, items, m)
    <3>1. Written(s, item) = {Moved(s, items, m) : m \in 0 .. Len(items)} \cup Failures(s, items)
      BY <1>3, Zenon DEF Written
    <3> QED
      BY <3>1 DEF Failures
  <2>4. Len(items) \in Nat /\ n + 1 \in Nat
    BY <2>1, LenProperties
  <2> HIDE DEF items
  <2>5. CASE \E m \in 0 .. Len(items) : t = Moved(s, items, m)
    <3>1. PICK m \in 0 .. Len(items) : t = Moved(s, items, m)
      BY <2>5
    <3> QED
      BY <2>1, <2>2, <2>4, <3>1, MovedKeeps
  <2>6. CASE \E m \in 0 .. Len(items) - 1 : t = Broken(s, items, m)
    <3>1. PICK m \in 0 .. Len(items) - 1 : t = Broken(s, items, m)
      BY <2>6
    <3>2. m \in 0 .. Len(items)
      BY <2>4
    <3> QED
      BY <2>1, <2>2, <2>4, <3>1, <3>2, MovedKeeps DEF Keeps
  <2> QED
    BY <2>3, <2>5, <2>6
<1> QED
  BY <1>2, <1>3

LEMMA FlushedKeeps ==
  ASSUME NEW Item, NEW s \in Stream(Item), NEW list, NEW total \in Nat, NEW n \in Nat, n <= total,
         Begins(s.file, list, total), Keeps(s, list, n), NEW t \in Flushed(s)
  PROVE  /\ t \in Stream(Item) /\ Begins(t.file, list, total)
         /\ ~t.bad => Lists(t.file, list, n)
<1>1. s.file \in Seq(Item) /\ s.held \in Seq(Item) /\ Len(s.held) \in Nat
  BY LenProperties DEF Stream
<1>2. CASE s.bad
  BY <1>2 DEF Flushed
<1>3. CASE ~s.bad
  <2>1. Lists(s.file \o s.held, list, n) /\ Len(s.held) \in 0 .. Len(s.held)
    BY <1>1, <1>3 DEF Keeps
  <2>2. CASE t = Moved(s, s.held, Len(s.held))
    BY <1>1, <2>1, <2>2, MovedKeeps
  <2>3. CASE t \in Failures(s, s.held)
    <3>1. PICK m \in 0 .. Len(s.held) - 1 : t = Broken(s, s.held, m)
      BY <2>3 DEF Failures
    <3>2. m \in 0 .. Len(s.held)
      BY <1>1
    <3> QED
      BY <1>1, <2>1, <3>1, <3>2, MovedKeeps
  <2> QED
    BY <1>3, <2>2, <2>3 DEF Flushed
<1> QED
  BY <1>2, <1>3
-----------------------------------------------------------------------------
(***************************************************************************)
(* The lists.  Below block number n, Rank(n) blocks are to be dumped; so   *)
(* if block n is one, it is the next.                                      *)
(***************************************************************************)
Total == Cardinality(Dumped)
Rank(n) == Cardinality({b \in Dumped : b < n})

LEMMA ImageNumbers ==
  ASSUME image \in Images
  PROVE  /\ first_data_block \in Nat /\ fs_blocks_count \in Nat
         /\ blocksize \in Nat /\ blocksize <= Size /\ blocksize > 0 /\ Size \in Nat
BY ImagesAssumption, BlocksFitAssumption, SizeAssumption
   DEF ImageType, first_data_block, fs_blocks_count, blocksize

LEMMA DumpedFinite ==
  ASSUME image \in Images
  PROVE  /\ IsFiniteSet(Dumped) /\ Total \in Nat
         /\ \A b \in Dumped : b \in Nat /\ first_data_block <= b /\ b < fs_blocks_count
         /\ \A T \in SUBSET Dumped :
              /\ IsFiniteSet(T) /\ Cardinality(T) \in Nat /\ Cardinality(T) <= Total
              /\ Cardinality(T) = Total => T = Dumped
<1>1. \A b \in Dumped : b \in first_data_block .. fs_blocks_count - 1
  BY DEF Dumped, Unused
<1>2. IsFiniteSet(first_data_block .. fs_blocks_count - 1)
  BY ImageNumbers, FS_Interval
<1>3. IsFiniteSet(Dumped)
  <2>1. Dumped \in SUBSET (first_data_block .. fs_blocks_count - 1)
    BY <1>1
  <2> QED
    BY <1>2, <2>1, FS_Subset
<1>4. \A b \in Dumped : b \in Nat /\ first_data_block <= b /\ b < fs_blocks_count
  BY <1>1, ImageNumbers
<1>5. ASSUME NEW T \in SUBSET Dumped
      PROVE  /\ IsFiniteSet(T) /\ Cardinality(T) \in Nat /\ Cardinality(T) <= Total
             /\ Cardinality(T) = Total => T = Dumped
  BY <1>3, FS_Subset, FS_CardinalityType DEF Total
<1>6. Total \in Nat
  BY <1>3, FS_CardinalityType DEF Total
<1> QED
  BY <1>3, <1>4, <1>5, <1>6

LEMMA RankBounds ==
  ASSUME image \in Images, NEW n \in Nat
  PROVE  /\ Rank(n) \in Nat /\ Rank(n) <= Total
         /\ n <= first_data_block \/ n = 0 => Rank(n) = 0
         /\ n >= fs_blocks_count => Rank(n) = Total
<1> DEFINE below == {b \in Dumped : b < n}
<1>1. below \in SUBSET Dumped
  OBVIOUS
<1>2. Rank(n) \in Nat /\ Rank(n) <= Total
  BY <1>1, DumpedFinite DEF Rank
<1>3. ASSUME n <= first_data_block \/ n = 0
      PROVE  Rank(n) = 0
  <2>1. below = {}
    BY <1>3, DumpedFinite, ImageNumbers
  <2> QED
    BY <2>1, FS_EmptySet DEF Rank
<1>4. ASSUME n >= fs_blocks_count
      PROVE  Rank(n) = Total
  <2>1. below = Dumped
    BY <1>4, DumpedFinite, ImageNumbers
  <2> QED
    BY <2>1 DEF Rank, Total
<1> QED
  BY <1>2, <1>3, <1>4

LEMMA NextRank ==
  ASSUME image \in Images, NEW n \in Nat
  PROVE  /\ n \notin Dumped => Rank(n + 1) = Rank(n)
         /\ n \in Dumped => /\ Rank(n + 1) = Rank(n) + 1
                            /\ Rank(n) + 1 <= Total
                            /\ Ids[Rank(n) + 1] = n
<1> DEFINE upto(b) == {c \in Dumped : c <= b}
           below == {b \in Dumped : b < n}
<1>1. {b \in Dumped : b < n + 1} = IF n \in Dumped THEN below \cup {n} ELSE below
  BY DumpedFinite
<1>2. ASSUME n \notin Dumped
      PROVE  Rank(n + 1) = Rank(n)
  BY <1>1, <1>2 DEF Rank
<1>3. ASSUME n \in Dumped
      PROVE  Rank(n + 1) = Rank(n) + 1
  <2>1. IsFiniteSet(below) /\ n \notin below
    BY DumpedFinite
  <2>2. Cardinality(below \cup {n}) = Cardinality(below) + 1
    BY <2>1, FS_AddElement
  <2> QED
    BY <1>1, <1>3, <2>2 DEF Rank
<1>4. Rank(n) \in Nat /\ Rank(n + 1) <= Total /\ Total \in Nat
  BY RankBounds, DumpedFinite
<1>5. ASSUME n \in Dumped
      PROVE  Ids[Rank(n) + 1] = n
  <2> DEFINE i == Rank(n) + 1
  <2>1. i \in 1 .. Total
    BY <1>3, <1>4, <1>5
  <2>2. Cardinality(upto(n)) = i
    <3>1. upto(n) = {b \in Dumped : b < n + 1}
      BY DumpedFinite
    <3> QED
      BY <1>3, <1>5, <3>1 DEF Rank
  <2>3. ASSUME NEW b \in Dumped, Cardinality(upto(b)) = i
        PROVE  b = n
    <3>1. \A c, d \in Dumped : c <= d => upto(c) \in SUBSET upto(d)
      BY DumpedFinite
    <3>2. \A d \in Dumped : IsFiniteSet(upto(d))
      BY DumpedFinite
    <3>3. b \in Nat /\ (b <= n \/ n <= b)
      BY DumpedFinite
    <3>4. upto(b) = upto(n)
      BY <1>5, <2>2, <2>3, <3>1, <3>2, <3>3, FS_Subset
    <3>5. b \in upto(b) /\ n \in upto(n)
      BY <1>5, <3>3
    <3>6. b <= n /\ n <= b
      BY <3>4, <3>5
    <3> QED
      BY <3>3, <3>6
  <2>4. n = CHOOSE b \in Dumped : Cardinality(upto(b)) = i
    BY <1>5, <2>2, <2>3
  <2>5. Ids[i] = CHOOSE b \in Dumped : Cardinality(upto(b)) = i
    BY <2>1 DEF Ids, Total
  <2> QED
    BY <2>4, <2>5
<1> QED
  BY <1>2, <1>3, <1>4, <1>5

LEMMA ListLengths ==
  ASSUME image \in Images
  PROVE  /\ Len(Ids) = Total /\ DOMAIN Ids = 1 .. Total
         /\ Len(Data) = Total /\ DOMAIN Data = 1 .. Total
         /\ \A i \in 1 .. Total : Data[i] = Filled(Ids[i])
<1>1. Total \in Nat
  BY DumpedFinite
<1>2. DOMAIN Ids = 1 .. Total
  BY DEF Ids, Total
<1>3. DOMAIN Data = 1 .. Total
  BY <1>2 DEF Data
<1>4. Len(Ids) = Total
  BY <1>1, <1>2 DEF Ids, Total
<1>5. Len(Data) = Total
  BY <1>1, <1>2, <1>3 DEF Data
<1> QED
  BY <1>2, <1>3, <1>4, <1>5 DEF Data
-----------------------------------------------------------------------------
(***************************************************************************)
(* The inductive invariant.  Behind the loop's position every unused block *)
(* has been read; a stream that has not failed has been given the part of  *)
(* its list that belongs to the blocks behind, and to the block at hand    *)
(* once it has been written.                                               *)
(***************************************************************************)
Opening == {"parse", "open_image", "open_output", "open_table"}
Looping == {"loop", "filter", "write_block", "errcheck"}

Position ==
  /\ pc \in Opening => blk = 0
  /\ pc \in Looping => first_data_block <= blk /\ \A b \in Unused : b < blk => Reads(b)
  /\ pc \in Looping \ {"loop"} => blk \in Unused /\ Reads(blk) /\ block_buffer = Filled(blk)
  /\ pc \in {"write_block", "errcheck"} => blk \in Dumped
  /\ \A k \in Index : k >= blocksize => block_buffer[k] = 0

KeptIds(s, label, b) ==
  Keeps(s, Ids, IF conf.table
                  THEN Rank(IF label \in {"write_block", "errcheck"} THEN b + 1 ELSE b)
                  ELSE 0)

KeptData(s, label, b) ==
  Keeps(s, Data, IF conf.output THEN Rank(IF label = "errcheck" THEN b + 1 ELSE b) ELSE 0)

Streams ==
  /\ Begins(id_output.file, Ids, Total)
  /\ Begins(data_output.file, Data, Total)
  /\ pc \in Opening \cup Looping => KeptIds(id_output, pc, blk) /\ KeptData(data_output, pc, blk)

IInv ==
  /\ TypeOK
  /\ Position
  /\ Streams
  /\ SuccessIsComplete

LEMMA ImageStays ==
  ASSUME image' = image, conf' = conf
  PROVE  /\ first_data_block' = first_data_block /\ fs_blocks_count' = fs_blocks_count
         /\ blocksize' = blocksize
         /\ Unused' = Unused /\ Dumped' = Dumped /\ Ids' = Ids /\ Data' = Data
         /\ \A b : Reads(b)' = Reads(b) /\ Filled(b)' = Filled(b)
         /\ Streams' <=>
              /\ Begins(id_output'.file, Ids, Total)
              /\ Begins(data_output'.file, Data, Total)
              /\ pc' \in Opening \cup Looping =>
                   KeptIds(id_output', pc', blk') /\ KeptData(data_output', pc', blk')
<1>1. /\ first_data_block' = first_data_block /\ fs_blocks_count' = fs_blocks_count
      /\ blocksize' = blocksize
  BY DEF first_data_block, fs_blocks_count, blocksize
<1>2. Unused' = Unused
  BY DEF Unused, first_data_block, fs_blocks_count, block_is_used
<1>3. \A b : Reads(b)' = Reads(b) /\ Filled(b)' = Filled(b) /\ Nonzero(b)' = Nonzero(b)
  BY DEF Reads, Holds, blocksize, Filled, Block, Nonzero
<1>4. Dumped' = Dumped
  BY <1>2, <1>3 DEF Dumped
<1>5. Ids' = Ids /\ Total' = Total
  BY <1>4 DEF Ids, Total
<1>6. Data' = Data
  BY <1>3, <1>5 DEF Data
<1>7. Streams' <=>
        /\ Begins(id_output'.file, Ids, Total)
        /\ Begins(data_output'.file, Data, Total)
        /\ pc' \in Opening \cup Looping =>
             KeptIds(id_output', pc', blk') /\ KeptData(data_output', pc', blk')
  BY <1>4, <1>5, <1>6 DEF Streams, KeptIds, KeptData, Rank, Begins, Keeps, Lists, Opening, Looping
<1> QED
  BY <1>1, <1>2, <1>3, <1>4, <1>5, <1>6, <1>7

LEMMA EmptyStreams ==
  ASSUME NEW list, NEW total \in Nat, NEW Item
  PROVE  \A s \in {Closed, Empty} :
           s \in Stream(Item) /\ Begins(s.file, list, total) /\ Keeps(s, list, 0)
<1>1. <<>> \o <<>> = <<>> /\ Len(<<>>) = 0 /\ <<>> \in Seq(Item)
  BY EmptySeq, ConcatEmptySeq
<1>2. ASSUME NEW o \in BOOLEAN, NEW s, s = [open |-> o, file |-> <<>>, held |-> <<>>, bad |-> FALSE]
      PROVE  s \in Stream(Item) /\ Begins(s.file, list, total) /\ Keeps(s, list, 0)
  <2>1. s.file = <<>> /\ s.held = <<>>
    BY <1>2
  <2>2. s \in Stream(Item)
    BY <1>1, <1>2 DEF Stream
  <2>3. Begins(<<>>, list, total) /\ Lists(<<>>, list, 0)
    BY <1>1 DEF Begins, Lists
  <2>4. s.file \o s.held = <<>>
    BY <1>1, <2>1, Zenon
  <2>5. Begins(s.file, list, total) /\ Keeps(s, list, 0)
    BY <2>1, <2>3, <2>4, Zenon DEF Keeps
  <2> QED
    BY <2>2, <2>5
<1>3. Closed = [open |-> FALSE, file |-> <<>>, held |-> <<>>, bad |-> FALSE]
  BY DEF Closed
<1>4. Empty = [open |-> TRUE, file |-> <<>>, held |-> <<>>, bad |-> FALSE]
  BY DEF Empty
<1> QED
  BY <1>2, <1>3, <1>4

LEMMA InitialStates == Init => IInv
<1> SUFFICES ASSUME Init
             PROVE  IInv
  OBVIOUS
<1>1. block_buffer \in Buffer
  BY DEF Init, Buffer
<1>2. image \in Images
  BY DEF Init
<1>3. Total \in Nat /\ Rank(0) = 0
  BY <1>2, DumpedFinite, RankBounds
<1>4. /\ id_output = Closed /\ data_output = Closed /\ pc = "parse" /\ blk = 0
      /\ conf \in CommandLines
  BY DEF Init
<1>5. TypeOK
  BY <1>1, <1>2, <1>3, <1>4, EmptyStreams DEF TypeOK
<1>6. Position
  BY <1>4 DEF Init, Position, Opening, Looping
<1>7. Streams
  BY <1>3, <1>4, EmptyStreams DEF Streams, KeptIds, KeptData
<1>8. SuccessIsComplete
  BY <1>4 DEF SuccessIsComplete
<1> QED
  BY <1>5, <1>6, <1>7, <1>8 DEF IInv
-----------------------------------------------------------------------------
(***************************************************************************)
(* Opening the image and the files.                                        *)
(***************************************************************************)
LEMMA OpeningPreserves ==
  IInv /\ (ParseCommandLine \/ OpenImage \/ OpenImageThrows \/ OpeningAFileFails) => IInv'
<1> SUFFICES ASSUME IInv, ParseCommandLine \/ OpenImage \/ OpenImageThrows \/ OpeningAFileFails
             PROVE  IInv'
  OBVIOUS
<1>1. /\ UNCHANGED <<image, conf, data_output, id_output, block_buffer, blk>>
      /\ pc \in Opening
      /\ pc' \in {"open_image", "open_output", "refused", "failure", "aborted"}
  BY DEF ParseCommandLine, OpenImage, OpenImageThrows, OpeningAFileFails, Goto, Opening
<1>2. TypeOK'
  BY <1>1 DEF IInv, TypeOK, Ended
<1>3. blk = 0
  BY <1>1 DEF IInv, Position
<1>4. Position'
  BY <1>1, <1>3, ImageStays DEF IInv, Position, Opening, Looping
<1>5. Streams'
  BY <1>1, <1>3, ImageStays DEF IInv, Streams, KeptIds, KeptData, Opening, Looping
<1>6. SuccessIsComplete'
  BY <1>1 DEF SuccessIsComplete
<1> QED
  BY <1>2, <1>4, <1>5, <1>6 DEF IInv

LEMMA FilesPreserve == IInv /\ (OpenOutput \/ OpenTable) => IInv'
<1> SUFFICES ASSUME IInv, OpenOutput \/ OpenTable
             PROVE  IInv'
  OBVIOUS
<1>1. /\ UNCHANGED <<image, conf, block_buffer>> /\ image \in Images
      /\ pc \in Opening
      /\ \/ pc' = "open_table" /\ blk' = blk
         \/ pc' = "loop" /\ blk' = first_data_block
      /\ data_output' \in {Closed, Empty, data_output}
      /\ id_output' \in {Closed, Empty, id_output}
  BY DEF IInv, TypeOK, OpenOutput, OpenTable, Goto, Opening
<1>2. blk = 0 /\ first_data_block \in Nat /\ Total \in Nat
  BY <1>1, ImageNumbers, DumpedFinite DEF IInv, Position
<1>3. Rank(0) = 0 /\ Rank(first_data_block) = 0
  BY <1>1, <1>2, RankBounds
<1>4. /\ Begins(id_output'.file, Ids, Total) /\ Keeps(id_output', Ids, 0)
      /\ id_output' \in Stream(Nat)
  <2>1. /\ Begins(id_output.file, Ids, Total) /\ Keeps(id_output, Ids, 0)
        /\ id_output \in Stream(Nat)
    BY <1>1, <1>2, <1>3 DEF IInv, TypeOK, Streams, KeptIds, Opening
  <2> QED
    BY <1>1, <1>2, <2>1, EmptyStreams
<1>5. /\ Begins(data_output'.file, Data, Total) /\ Keeps(data_output', Data, 0)
      /\ data_output' \in Stream(Buffer)
  <2>1. /\ Begins(data_output.file, Data, Total) /\ Keeps(data_output, Data, 0)
        /\ data_output \in Stream(Buffer)
    BY <1>1, <1>2, <1>3 DEF IInv, TypeOK, Streams, KeptData, Opening
  <2> QED
    BY <1>1, <1>2, <2>1, EmptyStreams
<1>6. TypeOK'
  BY <1>1, <1>2, <1>4, <1>5 DEF IInv, TypeOK
<1>7. Position'
  <2>1. \A b \in Unused : ~(b < first_data_block)
    BY <1>1, ImageNumbers DEF Unused
  <2> QED
    BY <1>1, <1>2, <2>1, ImageStays DEF IInv, Position, Opening, Looping
<1>8. Streams'
  BY <1>1, <1>2, <1>3, <1>4, <1>5, ImageStays DEF KeptIds, KeptData
<1>9. SuccessIsComplete'
  BY <1>1 DEF SuccessIsComplete
<1> QED
  BY <1>6, <1>7, <1>8, <1>9 DEF IInv
-----------------------------------------------------------------------------
(***************************************************************************)
(* The loop.  A block that is filtered out adds nothing to the lists, and  *)
(* one that is written adds one item to each.                              *)
(***************************************************************************)
LEMMA FilledBlock ==
  ASSUME image \in Images, NEW b \in Nat, Reads(b)
  PROVE  /\ Filled(b) \in Buffer
         /\ \A k \in Index : k >= blocksize => Filled(b)[k] = 0
         /\ (\A k \in Index : Filled(b)[k] = 0) <=> ~Nonzero(b)
<1> DEFINE n == blocksize
<1>1. n \in Nat /\ n <= Size /\ n > 0 /\ Size \in Nat
  BY ImageNumbers
<1>2. image.data \in Seq(Nat) /\ Len(image.data) \in Nat
  BY ImagesAssumption DEF ImageType
<1>3. (b + 1) * n <= Len(image.data)
  BY DEF Reads, Holds
<1> HIDE DEF n
<1>4. b * n \in Nat /\ (b + 1) * n = b * n + n
  BY <1>1
<1>5. \A k \in 0 .. n - 1 : Block(b, n)[k] \in Nat
  <2> TAKE k \in 0 .. n - 1
  <2>1. b * n + k + 1 \in 1 .. Len(image.data)
    BY <1>1, <1>2, <1>3, <1>4
  <2> DEFINE at == b * n + k + 1
  <2>2. image.data[at] \in Nat
    BY <1>2, <2>1, ElementOfSeq
  <2> QED
    BY <2>2 DEF Block
<1>6. \A k \in Index : k \in Nat /\ (k < n <=> k \in 0 .. n - 1)
  BY <1>1 DEF Index
<1>7. 0 .. n - 1 \subseteq Index
  BY <1>1 DEF Index
<1>8. Filled(b) = [k \in Index |-> IF k < n THEN Block(b, n)[k] ELSE 0]
  BY DEF Filled, n
<1>9. Filled(b) \in Buffer
  BY <1>5, <1>6, <1>8 DEF Buffer
<1>10. Nonzero(b) <=> \E k \in 0 .. n - 1 : Block(b, n)[k] # 0
  BY DEF Nonzero, n
<1>11. \A k \in Index : k >= n => Filled(b)[k] = 0
  BY <1>1, <1>6, <1>8
<1>12. (\A k \in Index : Filled(b)[k] = 0) <=> ~Nonzero(b)
  BY <1>6, <1>7, <1>8, <1>10
<1> QED
  BY <1>9, <1>11, <1>12 DEF n

LEMMA LoopPreserves == IInv /\ (SkipUsed \/ SkipZeroes \/ Continue) => IInv'
<1> SUFFICES ASSUME IInv, SkipUsed \/ SkipZeroes \/ Continue
             PROVE  IInv'
  OBVIOUS
<1>1. /\ UNCHANGED <<image, conf, id_output, data_output, block_buffer>>
      /\ image \in Images /\ blk \in Nat /\ blk' = blk + 1 /\ pc' = "loop"
      /\ pc \in Looping
      /\ first_data_block \in Nat /\ first_data_block <= blk
  BY ImageNumbers DEF IInv, TypeOK, Position, SkipUsed, SkipZeroes, Continue, Goto, Looping
<1>2. \A b \in Unused : b \in Nat
  BY <1>1, ImageNumbers DEF Unused
<1>3. /\ blk \notin Unused \/ Reads(blk)
      /\ KeptIds(id_output, "loop", blk + 1) /\ KeptData(data_output, "loop", blk + 1)
  <2>1. CASE SkipUsed
    <3>1. blk \notin Unused /\ pc = "loop"
      BY <1>1, <2>1 DEF SkipUsed, Unused
    <3>2. Rank(blk + 1) = Rank(blk)
      BY <1>1, <3>1, NextRank DEF Dumped
    <3> QED
      BY <1>1, <3>1, <3>2 DEF IInv, Streams, KeptIds, KeptData
  <2>2. CASE SkipZeroes
    <3>1. pc = "filter" /\ blk \in Unused /\ Reads(blk) /\ block_buffer = Filled(blk)
      BY <2>2 DEF SkipZeroes, IInv, Position, Looping
    <3>2. ~Nonzero(blk)
      BY <1>1, <2>2, <3>1, FilledBlock DEF SkipZeroes, AllZeroes
    <3>3. Rank(blk + 1) = Rank(blk)
      BY <1>1, <3>2, NextRank DEF Dumped
    <3> QED
      BY <1>1, <3>1, <3>3 DEF IInv, Streams, KeptIds, KeptData
  <2>3. CASE Continue
    <3>1. pc = "errcheck" /\ Reads(blk)
      BY <2>3 DEF Continue, IInv, Position, Looping
    <3> QED
      BY <1>1, <3>1 DEF IInv, Streams, KeptIds, KeptData
  <2> QED
    BY <2>1, <2>2, <2>3
<1>4. TypeOK'
  BY <1>1 DEF IInv, TypeOK
<1>5. Position'
  <2>1. \A b \in Unused : b < blk + 1 => Reads(b)
    BY <1>1, <1>2, <1>3 DEF IInv, Position
  <2> QED
    BY <1>1, <2>1, ImageStays DEF IInv, Position, Opening, Looping
<1>6. Streams'
  BY <1>1, <1>3, ImageStays DEF IInv, Streams
<1>7. SuccessIsComplete'
  BY <1>1 DEF SuccessIsComplete
<1> QED
  BY <1>4, <1>5, <1>6, <1>7 DEF IInv

LEMMA ReadingPreserves == IInv /\ (ReadBlock \/ ReadBlockThrows) => IInv'
<1> SUFFICES ASSUME IInv, ReadBlock \/ ReadBlockThrows
             PROVE  IInv'
  OBVIOUS
<1>1. /\ UNCHANGED <<image, conf, id_output, data_output, blk>>
      /\ image \in Images /\ blk \in Nat /\ pc = "loop"
      /\ blk \in Unused
      /\ \/ pc' = "filter" /\ Reads(blk)
         \/ pc' = "aborted" /\ block_buffer' = block_buffer
  <2>1. blk < fs_blocks_count /\ ~block_is_used(blk) /\ blk \in Nat /\ first_data_block <= blk
    BY DEF IInv, TypeOK, Position, ReadBlock, ReadBlockThrows, Looping
  <2>2. blk \in Unused
    BY <2>1, ImageNumbers DEF IInv, TypeOK, Unused
  <2> QED
    BY <2>2 DEF IInv, TypeOK, ReadBlock, ReadBlockThrows, Goto
<1>2. pc' = "filter" => block_buffer' = Filled(blk)
  <2> SUFFICES ASSUME pc' = "filter"
               PROVE  block_buffer' = Filled(blk)
    OBVIOUS
  <2>1. block_buffer' = [k \in Index |-> IF k < blocksize THEN Block(blk, blocksize)[k]
                                                          ELSE block_buffer[k]]
    BY DEF ReadBlock, ReadBlockThrows, Goto
  <2>2. \A k \in Index : k \in Nat /\ (k < blocksize \/ k >= blocksize)
    BY <1>1, ImageNumbers DEF Index
  <2>3. \A k \in Index : ~(k < blocksize) => block_buffer[k] = 0
    BY <2>2 DEF IInv, Position
  <2> QED
    BY <2>1, <2>3 DEF Filled
<1>3. /\ block_buffer' \in Buffer
      /\ \A k \in Index : k >= blocksize => block_buffer'[k] = 0
  BY <1>1, <1>2, FilledBlock DEF IInv, TypeOK, Position
<1>4. TypeOK'
  BY <1>1, <1>3 DEF IInv, TypeOK, Ended
<1>5. Position'
  BY <1>1, <1>2, <1>3, ImageStays DEF IInv, Position, Opening, Looping
<1>6. Streams'
  BY <1>1, ImageStays DEF IInv, Streams, KeptIds, KeptData, Opening, Looping
<1>7. SuccessIsComplete'
  BY <1>1 DEF SuccessIsComplete
<1> QED
  BY <1>4, <1>5, <1>6, <1>7 DEF IInv

LEMMA WritingPreserves == IInv /\ (WriteId \/ WriteBlock) => IInv'
<1> SUFFICES ASSUME IInv, WriteId \/ WriteBlock
             PROVE  IInv'
  OBVIOUS
<1>1. /\ UNCHANGED <<image, conf, block_buffer, blk>>
      /\ image \in Images /\ blk \in Nat /\ block_buffer \in Buffer
      /\ id_output \in Stream(Nat) /\ data_output \in Stream(Buffer)
      /\ blk \in Unused /\ Reads(blk) /\ block_buffer = Filled(blk)
      /\ pc \in Looping
      /\ pc' \in {"write_block", "errcheck"}
  BY DEF IInv, TypeOK, Position, WriteId, WriteBlock, Goto, Looping
<1>2. blk \in Dumped
  <2>1. CASE WriteId
    <3>1. Nonzero(blk)
      BY <1>1, <2>1, FilledBlock DEF WriteId, AllZeroes
    <3> QED
      BY <1>1, <3>1 DEF Dumped
  <2>2. CASE WriteBlock
    BY <2>2 DEF WriteBlock, IInv, Position
  <2> QED
    BY <2>1, <2>2
<1>3. /\ Rank(blk) \in Nat /\ Total \in Nat /\ Rank(blk + 1) = Rank(blk) + 1
      /\ Rank(blk) + 1 <= Total /\ Ids[Rank(blk) + 1] = blk
      /\ Data[Rank(blk) + 1] = Filled(blk)
  <2>1. /\ Rank(blk) \in Nat /\ Total \in Nat /\ Rank(blk + 1) = Rank(blk) + 1
        /\ Rank(blk) + 1 <= Total /\ Ids[Rank(blk) + 1] = blk
    BY <1>1, <1>2, RankBounds, NextRank, DumpedFinite
  <2>2. Rank(blk) + 1 \in 1 .. Total
    BY <2>1
  <2>3. Data[Rank(blk) + 1] = Filled(Ids[Rank(blk) + 1])
    BY <1>1, <2>2, ListLengths
  <2> QED
    BY <2>1, <2>3
<1>4. /\ id_output' \in Stream(Nat) /\ Begins(id_output'.file, Ids, Total)
      /\ KeptIds(id_output', pc', blk)
  <2>1. Begins(id_output.file, Ids, Total)
    BY DEF IInv, Streams
  <2>2. CASE WriteId /\ conf.table
    <3>1. id_output' \in Written(id_output, blk) /\ pc = "filter" /\ pc' = "write_block"
      BY <2>2 DEF WriteId, Goto
    <3>2. Keeps(id_output, Ids, Rank(blk))
      BY <2>2, <3>1 DEF IInv, Streams, KeptIds, Looping
    <3>3. /\ id_output' \in Stream(Nat) /\ Begins(id_output'.file, Ids, Total)
          /\ Keeps(id_output', Ids, Rank(blk) + 1)
      BY <1>1, <1>3, <2>1, <3>1, <3>2, WrittenKeeps
    <3> QED
      BY <1>3, <2>2, <3>1, <3>3 DEF KeptIds
  <2>3. CASE ~(WriteId /\ conf.table)
    <3>1. id_output' = id_output
      BY <2>3 DEF WriteId, WriteBlock
    <3>2. conf.table => pc = "write_block" /\ pc' = "errcheck"
      BY <2>3 DEF WriteId, WriteBlock, Goto
    <3> QED
      BY <1>1, <2>1, <3>1, <3>2 DEF IInv, Streams, KeptIds
  <2> QED
    BY <2>2, <2>3
<1>5. /\ data_output' \in Stream(Buffer) /\ Begins(data_output'.file, Data, Total)
      /\ KeptData(data_output', pc', blk)
  <2>1. Begins(data_output.file, Data, Total)
    BY DEF IInv, Streams
  <2>2. CASE WriteBlock /\ conf.output
    <3>1. /\ data_output' \in Written(data_output, block_buffer)
          /\ pc = "write_block" /\ pc' = "errcheck"
      BY <2>2 DEF WriteBlock, Goto
    <3>2. Keeps(data_output, Data, Rank(blk))
      BY <2>2, <3>1 DEF IInv, Streams, KeptData, Looping
    <3>3. /\ data_output' \in Stream(Buffer) /\ Begins(data_output'.file, Data, Total)
          /\ Keeps(data_output', Data, Rank(blk) + 1)
      BY <1>1, <1>3, <2>1, <3>1, <3>2, WrittenKeeps
    <3> QED
      BY <1>3, <2>2, <3>1, <3>3 DEF KeptData
  <2>3. CASE ~(WriteBlock /\ conf.output)
    <3>1. data_output' = data_output
      BY <2>3 DEF WriteId, WriteBlock
    <3>2. conf.output => pc = "filter" /\ pc' = "write_block"
      BY <2>3 DEF WriteId, WriteBlock, Goto
    <3> QED
      BY <1>1, <2>1, <3>1, <3>2 DEF IInv, Streams, KeptData
  <2> QED
    BY <2>2, <2>3
<1>6. TypeOK'
  BY <1>1, <1>4, <1>5 DEF IInv, TypeOK
<1>7. Position'
  BY <1>1, <1>2, ImageStays DEF IInv, Position, Opening, Looping
<1>8. Streams'
  BY <1>1, <1>4, <1>5, ImageStays
<1>9. SuccessIsComplete'
  BY <1>1 DEF SuccessIsComplete
<1> QED
  BY <1>6, <1>7, <1>8, <1>9 DEF IInv
-----------------------------------------------------------------------------
(***************************************************************************)
(* Closing the files.  At the end of the loop every block of the lists is  *)
(* behind.                                                                 *)
(***************************************************************************)
LEMMA WholeLists ==
  ASSUME image \in Images
  PROVE  /\ \A t \in Seq(Nat) : Lists(t, Ids, Total) => t = Ids
         /\ \A t \in Seq(Buffer) : Lists(t, Data, Total) => t = Data
<1>1. /\ Ids = [i \in 1 .. Total |-> Ids[i]]
      /\ Data = [i \in 1 .. Total |-> Data[i]]
  BY ListLengths DEF Ids, Data, Total
<1>2. ASSUME NEW Item, NEW t \in Seq(Item)
      PROVE  t = [i \in 1 .. Len(t) |-> t[i]]
  OBVIOUS
<1> QED
  BY <1>1, <1>2 DEF Lists

LEMMA ClosingPreserves == IInv /\ (Stop \/ Flush) => IInv'
<1> SUFFICES ASSUME IInv, Stop \/ Flush
             PROVE  IInv'
  OBVIOUS
<1>1. /\ UNCHANGED <<image, conf, block_buffer, blk>>
      /\ image \in Images /\ blk \in Nat
      /\ id_output \in Stream(Nat) /\ data_output \in Stream(Buffer)
      /\ id_output' \in Flushed(id_output) /\ data_output' \in Flushed(data_output)
      /\ pc \in Looping /\ pc' \in {"failure", "success"}
      /\ pc' = "success" => /\ pc = "loop" /\ blk >= fs_blocks_count
                            /\ ~id_output'.bad /\ ~data_output'.bad
  BY DEF IInv, TypeOK, Stop, Flush, Goto, Looping
<1>2. Total \in Nat /\ \A n \in {0, blk, blk + 1} : Rank(n) \in Nat /\ Rank(n) <= Total
  BY <1>1, DumpedFinite, RankBounds
<1>3. PICK n \in Nat : n <= Total /\ Keeps(id_output, Ids, n)
                       /\ (pc = "loop" /\ conf.table => n = Rank(blk))
  BY <1>1, <1>2 DEF IInv, Streams, KeptIds
<1>4. /\ id_output' \in Stream(Nat) /\ Begins(id_output'.file, Ids, Total)
      /\ ~id_output'.bad => Lists(id_output'.file, Ids, n)
  BY <1>1, <1>2, <1>3, FlushedKeeps DEF IInv, Streams
<1>5. PICK m \in Nat : m <= Total /\ Keeps(data_output, Data, m)
                       /\ (pc = "loop" /\ conf.output => m = Rank(blk))
  BY <1>1, <1>2 DEF IInv, Streams, KeptData
<1>6. /\ data_output' \in Stream(Buffer) /\ Begins(data_output'.file, Data, Total)
      /\ ~data_output'.bad => Lists(data_output'.file, Data, m)
  BY <1>1, <1>2, <1>5, FlushedKeeps DEF IInv, Streams
<1>7. TypeOK'
  BY <1>1, <1>4, <1>6 DEF IInv, TypeOK, Ended
<1>8. Position'
  BY <1>1, ImageStays DEF IInv, Position, Opening, Looping
<1>9. Streams'
  BY <1>1, <1>4, <1>6, ImageStays DEF Opening, Looping
<1>10. SuccessIsComplete'
  <2> SUFFICES ASSUME pc' = "success"
               PROVE  /\ \A b \in Unused : Reads(b)
                      /\ conf.table => id_output'.file = Ids
                      /\ conf.output => data_output'.file = Data
    BY <1>1, ImageStays DEF SuccessIsComplete
  <2>1. Rank(blk) = Total
    BY <1>1, RankBounds
  <2>2. \A b \in Unused : Reads(b)
    <3>1. \A b \in Unused : b < blk
      BY <1>1, ImageNumbers DEF Unused
    <3> QED
      BY <1>1, <3>1 DEF IInv, Position
  <2>3. conf.table => id_output'.file = Ids
    <3>1. id_output'.file \in Seq(Nat)
      BY <1>4 DEF Stream
    <3> QED
      BY <1>1, <1>3, <1>4, <2>1, <3>1, WholeLists
  <2>4. conf.output => data_output'.file = Data
    <3>1. data_output'.file \in Seq(Buffer)
      BY <1>6 DEF Stream
    <3> QED
      BY <1>1, <1>5, <1>6, <2>1, <3>1, WholeLists
  <2> QED
    BY <2>2, <2>3, <2>4
<1> QED
  BY <1>7, <1>8, <1>9, <1>10 DEF IInv
-----------------------------------------------------------------------------
LEMMA StutteringPreserves == IInv /\ UNCHANGED vars => IInv'
<1> SUFFICES ASSUME IInv, UNCHANGED vars
             PROVE  IInv'
  OBVIOUS
<1>1. /\ UNCHANGED <<image, conf, id_output, data_output, block_buffer, blk, pc>>
  BY DEF vars
<1>2. TypeOK'
  BY <1>1 DEF IInv, TypeOK
<1>3. Position'
  BY <1>1, ImageStays DEF IInv, Position
<1>4. Streams'
  BY <1>1, ImageStays DEF IInv, Streams
<1>5. SuccessIsComplete'
  BY <1>1, ImageStays DEF IInv, SuccessIsComplete
<1> QED
  BY <1>2, <1>3, <1>4, <1>5 DEF IInv

(* The invariant holds in every reachable state.                           *)
THEOREM Invariance == Spec => []IInv
<1>1. IInv /\ [Next]_vars => IInv'
  BY OpeningPreserves, FilesPreserve, LoopPreserves, ReadingPreserves, WritingPreserves,
     ClosingPreserves, StutteringPreserves DEF Next, Terminated
<1> QED
  BY <1>1, InitialStates, PTL DEF Spec

(***************************************************************************)
(* main keeps every variable within its type; in particular a block never  *)
(* takes the buffer past its size.                                         *)
(***************************************************************************)
THEOREM TypeCorrect == Spec => []TypeOK
<1>1. IInv => TypeOK
  BY DEF IInv
<1> QED
  BY <1>1, Invariance, PTL

(***************************************************************************)
(* The table and the data are at all times the beginnings of the lists of  *)
(* the unused blocks' numbers and contents, whichever writes have failed.  *)
(***************************************************************************)
THEOREM FilesBeginTheLists == Spec => []FilesArePrefixes
<1>1. IInv => FilesArePrefixes
  <2> SUFFICES ASSUME IInv
               PROVE  FilesArePrefixes
    OBVIOUS
  <2>1. /\ Begins(id_output.file, Ids, Total) /\ Begins(data_output.file, Data, Total)
        /\ Len(Ids) = Total /\ Len(Data) = Total
    BY ListLengths DEF IInv, TypeOK, Streams
  <2>2. id_output.file \in Seq(Nat) /\ data_output.file \in Seq(Buffer)
    BY DEF IInv, TypeOK, Stream
  <2> QED
    BY <2>1, <2>2 DEF FilesArePrefixes, IsPrefix, Begins
<1> QED
  BY <1>1, Invariance, PTL

(***************************************************************************)
(* A run that reports success has put every unused block that holds        *)
(* anything into the files that were asked for.                            *)
(***************************************************************************)
THEOREM SuccessMeansComplete == Spec => []SuccessIsComplete
<1>1. IInv => SuccessIsComplete
  BY DEF IInv
<1> QED
  BY <1>1, Invariance, PTL
=============================================================================
