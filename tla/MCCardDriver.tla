------------------------------ MODULE MCCardDriver ------------------------------
(* Two cards; what kmalloc() returns and the files are interchangeable. *)
EXTENDS CardDriver, TLC

Interchangeable == Permutations(Objects) \union Permutations(Files)
=================================================================================
