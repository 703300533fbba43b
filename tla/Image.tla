------------------------------- MODULE Image -------------------------------
(***************************************************************************)
(* The image file a program works on.  It is not written while the program *)
(* runs; reading it may fail.                                              *)
(***************************************************************************)
EXTENDS Buffers, Sequences

CONSTANTS
  Images,   \* the images of an instance
  Faulty    \* the ways of reading that may fail

Kinds == {"ext2", "file", "mmap"}

ImageType ==
  [ data      : Seq(Nat),     \* the words of the file
    magic     : BOOLEAN,      \* it has the bytes 53 ef at offset 1080
    ext2      : BOOLEAN,      \* libext2fs opens it and reads its bitmaps
    blocksize : Nat \ {0},    \* of the filesystem, in words, and so on:
    first     : Nat,          \* s_first_data_block
    fs_blocks : Nat,          \* ext2fs_blocks_count
    used      : SUBSET Nat ]  \* the block bitmap

ASSUME ImagesAssumption == Images \subseteq ImageType
ASSUME FaultyAssumption == Faulty \subseteq Kinds \cup {"identify"}

VARIABLE image   \* never written

(***************************************************************************)
(* Block b of the image when blocks have n words.                          *)
(***************************************************************************)
Holds(b, n) == (b + 1) * n <= Len(image.data)
Block(b, n) == [k \in 0 .. n - 1 |-> image.data[b * n + k + 1]]
=============================================================================
