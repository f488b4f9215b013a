----------------------------- MODULE MCReassembly -----------------------------
(* Two connections, of which the first may be numbered from 1, wrap in the *)
(* middle, or have its first byte at number 0.                             *)
EXTENDS Reassembly
CONSTANTS c1, c2
MCIsns == {[c \in Conn |-> IF c = c1 THEN n ELSE 2] : n \in {1, 5, 7}}
=============================================================================
