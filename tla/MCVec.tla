-------------------------------- MODULE MCVec --------------------------------
(* Two vectors of up to three elements.                                    *)
EXTENDS Vec
=============================================================================
