---------------------------- MODULE MCCardCounter ----------------------------
(* Readers of the card's counter; they are interchangeable. *)
EXTENDS CardCounter, TLC

SmallOffsets == {-1, 0, 2}
Interchangeable == Permutations(Readers)
==============================================================================
