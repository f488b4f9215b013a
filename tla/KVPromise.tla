------------------------------ MODULE KVPromise ------------------------------
(***************************************************************************)
(* What the key-value store of distributed-systems/kvstore/main.cpp        *)
(* promises to the user at its prompt.  One map, one command at a time:    *)
(*                                                                         *)
(*   - a get answers with the entry of the key asked for;                  *)
(*   - a set replaces the entry it names by the value it names, and is in  *)
(*     progress until its save ends;                                       *)
(*   - the program may stop at any time.  Stopping between two commands    *)
(*     keeps the map, unless it holds an entry whose line is too long to   *)
(*     be read back.  Stopping in the middle of a save may forget entries, *)
(*     but an entry that survives has its newest value: a forgotten entry  *)
(*     never falls back to an older value.                                 *)
(***************************************************************************)
CONSTANTS Item,       \* the legal keys and values
          Input,      \* what the user may type
          TooLong(_,_), \* is the line of this key and value over the buffer?
          NotFound    \* the answer to a get of an absent key

VARIABLES db,     \* the map
          input,  \* what the user typed last
          busy,   \* a set is in progress
          reply   \* the answer to the last get

avars == <<db, input, busy, reply>>

Maps == UNION {[D -> Item] : D \in SUBSET Item}

\* m without some of its entries.
Part(p, m) == /\ DOMAIN p \subseteq DOMAIN m
              /\ \A k \in DOMAIN p : p[k] = m[k]

Update(m, k, v) == [x \in DOMAIN m \cup {k} |-> IF x = k THEN v ELSE m[x]]

AInit == /\ db = [k \in {} |-> NotFound]
         /\ input \in Input
         /\ busy = FALSE
         /\ reply = NotFound

AType == /\ ~busy
         /\ input' \in Input
         /\ UNCHANGED <<db, busy, reply>>

AGet == /\ ~busy
        /\ input.verb = "get"
        /\ reply' = IF input.key \in DOMAIN db THEN db[input.key] ELSE NotFound
        /\ UNCHANGED <<db, input, busy>>

ASet == /\ ~busy
        /\ input.verb = "set"
        /\ {input.key, input.value} \subseteq Item
        /\ db' = Update(db, input.key, input.value)
        /\ busy' = TRUE
        /\ UNCHANGED <<input, reply>>

ASaved == /\ busy
          /\ busy' = FALSE
          /\ UNCHANGED <<db, input, reply>>

\* Stopping in the middle of a save, or with an entry that is too long.
AForget == /\ \/ busy
              \/ \E k \in DOMAIN db : TooLong(k, db[k])
           /\ busy' = FALSE
           /\ db' \in Maps
           /\ Part(db', db)
           /\ UNCHANGED <<input, reply>>

ANext == AType \/ AGet \/ ASet \/ ASaved \/ AForget

ASpec == AInit /\ [][ANext]_avars
=============================================================================
