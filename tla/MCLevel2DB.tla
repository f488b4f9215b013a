------------------------------ MODULE MCLevel2DB ------------------------------
(* Three keys and two values over the std::map and over a skip list of two *)
(* levels and two nodes.                                                   *)
EXTENDS Level2DB

\* Values are compared for equality only.
ValueSymmetry == Permutations(Value)
=============================================================================
