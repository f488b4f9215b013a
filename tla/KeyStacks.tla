------------------------------- MODULE KeyStacks -------------------------------
(***************************************************************************)
(* What the skip list of storage-retrieval/skiplist/skiplist.h is, seen by *)
(* its callers: for each key a stack of values.  insert never replaces a   *)
(* value, and remove takes the newest one of its key away.                 *)
(***************************************************************************)
EXTENDS Sequences

CONSTANTS Key, Value

VARIABLE held  \* held[k]: the values of key k, newest first

AInit == held = [k \in Key |-> <<>>]

AInsert(k, v) == held' = [held EXCEPT ![k] = <<v>> \o @]

ARemove(k) == /\ held[k] # <<>>
              /\ held' = [held EXCEPT ![k] = Tail(@)]

ANext == \E k \in Key : ARemove(k) \/ \E v \in Value : AInsert(k, v)

ASpec == AInit /\ [][ANext]_held
=============================================================================
