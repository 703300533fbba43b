------------------------------ MODULE MCMcarve ------------------------------
(***************************************************************************)
(* Small instances of Mcarve: blocks of four words, so that four chunks    *)
(* fill an offset table, and a clock that may have run past the end of its *)
(* 32 bits, which here is at 200000000.                                    *)
(***************************************************************************)
EXTENDS Mcarve, SequencesExt

Empty == <<0, 0, 0, 0>>
Timestamps == <<150000000, 0, 120000000, 0>>
Offsets == <<513, 769, 1282, 1793>>
Chunk == <<700, 41458690, 99, 99>>

Img(blocks, tail, isfs, fs_blocks, used) ==
  [data |-> FlattenSeq(blocks) \o tail, magic |-> isfs, ext2 |-> isfs,
   blocksize |-> Size, first |-> 0, fs_blocks |-> fs_blocks, used |-> used]

Sequence(n) == [1 .. n -> {Empty, Timestamps, Offsets, Chunk}]

PlainImages == {Img(blocks, <<7>>, FALSE, 0, {}) : blocks \in Sequence(4)}

(* Filesystems of three blocks in which one or two are unused; the last    *)
(* may have been cut off.                                                  *)
Filesystems ==
  {Img(blocks, <<>>, TRUE, 3, used) :
     blocks \in Sequence(3) \cup Sequence(2), used \in {{}, {0}, {1}, {0, 2}}}

(* Neither: smaller blocks, or a magic number by accident.                 *)
Unusable ==
  {[Img(<<Empty>>, <<>>, TRUE, 1, {}) EXCEPT !.blocksize = 1],
   [Img(<<Empty>>, <<>>, TRUE, 1, {}) EXCEPT !.ext2 = FALSE]}

MCImages == PlainImages \cup Filesystems \cup Unusable

MCFaultImages ==
  Unusable \cup {Img(blocks, <<>>, isfs, 3, {1}) :
                   blocks \in Sequence(3), isfs \in BOOLEAN}

MCCommandLines ==
  {[valid |-> valid, start |-> start, stop |-> DefaultStop] :
     valid \in BOOLEAN, start \in {DefaultStart, "2012-01-01"}}

MCTimeOf ==
  [date \in {DefaultStart, "2012-01-01"} |->
     IF date = DefaultStart THEN 100000000 ELSE 140000000]

MCGarbage == {[k \in Index |-> w[k + 1]] : w \in {Empty, Offsets}}
=============================================================================
