------------------------------ MODULE Buffers ------------------------------
(***************************************************************************)
(* The data every component exchanges: a block's worth of bytes, seen as   *)
(* an array of 32-bit words.  A word stands for its four bytes in buffer   *)
(* order, given as a big-endian number.  Words are naturals here: nothing  *)
(* in the code computes a new word, so the 32 bits never overflow.         *)
(***************************************************************************)
EXTENDS Integers

CONSTANT Size   \* words in a buffer: 1024 for a block of BLOCKSIZE = 4096 bytes
ASSUME SizeAssumption == Size \in Nat \ {0}

Index == 0 .. Size - 1
Buffer == [Index -> Nat]
=============================================================================
