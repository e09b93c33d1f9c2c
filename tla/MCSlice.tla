------------------------------ MODULE MCSlice ------------------------------
(* Two slices over three blocks, with header types scaled down so that two    *)
(* letters already change the type of a header.                             *)
EXTENDS Slice, TLC
MCTypeMax == [t \in HeaderTypes |-> <<1, 3, 5, 9, 20>>[t + 1]]
MCHdrSize == [t \in HeaderTypes |-> IF t = 0 THEN 1 ELSE 2^t + 1]
MCTexts == {<<>>, <<1>>, <<1, 0>>}
Symmetry == Permutations(Blocks) \union Permutations(Slices)
=============================================================================
