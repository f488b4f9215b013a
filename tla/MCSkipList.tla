------------------------------ MODULE MCSkipList ------------------------------
(* SkipList with interchangeable values.                                   *)
EXTENDS SkipList, TLC

Interchangeable == Permutations(Value)
=============================================================================
