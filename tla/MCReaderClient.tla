--------------------------- MODULE MCReaderClient ---------------------------
(***************************************************************************)
(* Images of up to three blocks of two words.                              *)
(***************************************************************************)
EXTENDS ReaderClient

Img(data, magic, ext2, bs, first, fs_blocks, used) ==
  [data |-> data, magic |-> magic, ext2 |-> ext2, blocksize |-> bs,
   first |-> first, fs_blocks |-> fs_blocks, used |-> used]

(***************************************************************************)
(* Nothing; less than a block; a plain file with a partial block at its    *)
(* end; a filesystem; one cut off before its last block; one followed by   *)
(* other data; one with smaller blocks; one whose bitmaps are lost.        *)
(***************************************************************************)
MCImages ==
  { Img(<<>>, FALSE, FALSE, 2, 0, 0, {}),
    Img(<<7>>, FALSE, FALSE, 2, 0, 0, {}),
    Img(<<1, 2, 3, 4, 5, 6, 7>>, FALSE, FALSE, 2, 0, 0, {}),
    Img(<<1, 2, 3, 4, 5, 6>>, TRUE, TRUE, 2, 0, 3, {0, 2}),
    Img(<<1, 2, 3, 4>>, TRUE, TRUE, 2, 0, 3, {0}),
    Img(<<1, 2, 3, 4, 5, 6>>, TRUE, TRUE, 2, 0, 2, {1}),
    Img(<<1, 2, 3, 4, 5, 6>>, TRUE, TRUE, 1, 1, 6, {1, 4}),
    Img(<<1, 2, 3, 4, 5, 6>>, TRUE, FALSE, 2, 0, 3, {0}) }

MCNumbers == 0 .. 3

MCInitial == { [k \in Index |-> v] : v \in {0, 9} }
=============================================================================
