------------------------ MODULE MCDumpUnusedBlocks ------------------------
(***************************************************************************)
(* Filesystems of up to four blocks.  The contents of the nonzero blocks   *)
(* differ, and a block of the buffer's size has its nonzero word last, but *)
(* for one image that mixes those with blocks whose first word is not zero.*)
(***************************************************************************)
EXTENDS DumpUnusedBlocks

Img(data, opens, bs, first, used) ==
  [data |-> data, magic |-> TRUE, ext2 |-> opens, blocksize |-> bs,
   first |-> first, fs_blocks |-> 4, used |-> used]

(* Blocks that fill the buffer, all but the ones in zero nonzero; the file *)
(* may end before the last one does.                                       *)
Large(zero, used, len) ==
  Img([i \in 1 .. len |-> IF i % 2 = 1 \/ (i \div 2) - 1 \in zero THEN 0 ELSE i],
      TRUE, 2, 0, used)

(* Blocks of half the buffer, numbered from one.                           *)
Small(zero, used) ==
  Img([i \in 1 .. 4 |-> IF i - 1 \in zero THEN 0 ELSE i], TRUE, 1, 1, used)

MCImages ==
  {Large(zero, used, len) :
     zero \in SUBSET {0, 2}, used \in SUBSET {1, 2}, len \in {7, 8}}
  \cup {Small(zero, used) : zero \in SUBSET {2, 3}, used \in SUBSET {1, 2}}
  \cup {Img(<<0, 1>>, FALSE, 2, 0, {}), Img(<<0, 1, 2, 0, 3, 4, 0, 5>>, TRUE, 2, 0, {2})}

MCCommandLines == CommandLine
=============================================================================
