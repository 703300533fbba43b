-------------------------- MODULE MCSectorClasses --------------------------
(***************************************************************************)
(* Buffers of twelve words, on which all four questions have both answers. *)
(***************************************************************************)
EXTENDS SectorClasses

Entry(offset, length) == 256 * offset + length

(***************************************************************************)
(* An absent chunk, chunks that fit together or overlap, a chunk in        *)
(* the header, an empty entry with the offset of a chunk, and a chunk at   *)
(* and just beyond the largest offset.                                     *)
(***************************************************************************)
Entries ==
  {0} \cup { Entry(1, 1), Entry(2, 1), Entry(3, 1), Entry(4, 0), Entry(4, 1),
             Entry(5, 3), Entry(7, 2), Entry(MaxOffset, 2), Entry(MaxOffset + 1, 1) }

(* Every table of five entries; the others are absent.                     *)
Tables ==
  {[k \in Index |-> IF k < 5 THEN t[k] ELSE 0] : t \in [0 .. 4 -> Entries]}

(***************************************************************************)
(* Two leading words of interest, then a mixture of two fillings: nothing, *)
(* an offset table, timestamps, words whose first byte is zero and that    *)
(* fit no table.                                                           *)
(***************************************************************************)
Leading == {0, 1, 1048576, 1048577, 41458688, 41458943, 41458944, 1500000000}

Fillings ==
  { [k \in Index |-> 0], [k \in Index |-> Entry(k + 3, 1)],
    [k \in Index |-> 1400000000 + k], [k \in Index |-> 16777215] }

Mixtures ==
  { [k \in Index |-> CASE k = 0 -> w0 [] k = 1 -> w1
                       [] k \in 2 .. m -> f[k] [] OTHER -> g[k]] :
      w0 \in Leading, w1 \in Leading \cup {Entry(2, 2)}, f \in Fillings,
      g \in Fillings, m \in {4, 8, 10} }

MCSubjects == Tables \cup Mixtures
=============================================================================
