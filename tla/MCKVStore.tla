------------------------------ MODULE MCKVStore ------------------------------
(* KVStore on two words, of which b as key and value is too long a line.   *)
EXTENDS KVStore

CONSTANTS a, b

MCWord == {a, b}
MCOverlong == {<<b, b>>}
=============================================================================
