------------------------------- MODULE Level2DB -------------------------------
(***************************************************************************)
(* storage-retrieval/ldb-architecture-project-setup/level2db: a database   *)
(* interface over a std::map or, when m_useSkipList is set, over the skip  *)
(* list, and the iterator that RangeScan hands out over the std::map.      *)
(*                                                                         *)
(* A std::map iterator is the key of the element it stands on, or End.     *)
(* Erasing that element leaves it dangling; moving, comparing or reading a *)
(* dangling iterator, and moving or reading End, is undefined and ends the *)
(* model in the fault "iterator".                                          *)
(***************************************************************************)
EXTENDS SkipList

CONSTANTS Modes,       \* what the constructor is given for m_useSkipList
          KeyNotFound  \* ErrorCode::KEY_NOT_FOUND

ASSUME ModesAssumption == Modes \subseteq BOOLEAN

VARIABLES useSkipList,  \* m_useSkipList
          map,   \* m_keyValueStore
          iter,  \* the iterator of the last RangeScan
          ret,   \* the last call that returned, its key and its result
          last,  \* history: for each key, the last value put and not deleted
          rewritten  \* history: the keys that were put while present

dbvars == <<useSkipList, map, iter, ret, last, rewritten>>
vars == <<slvars, dbvars>>

End == 0
NoIter == [state |-> "none"]
OK == "ok"

Returns(call, k, r) == ret' = [call |-> call, key |-> k, result |-> r]

Lookup(k) == IF useSkipList THEN Find(k)
             ELSE IF k \in DOMAIN map THEN map[k] ELSE None

Init == /\ SLInit
        /\ useSkipList \in Modes
        /\ map = [k \in {} |-> None]
        /\ iter = NoIter
        /\ ret = [call |-> "none", key |-> End, result |-> OK]
        /\ last = [k \in Key |-> None]
        /\ rewritten = {}

\* Get and Has: they change nothing but what they return.
Get(k) == /\ op = "idle"
          /\ Returns("Get", k, IF Lookup(k) = None THEN KeyNotFound
                                                   ELSE Lookup(k))
          /\ UNCHANGED <<slvars, useSkipList, map, iter, last, rewritten>>

Has(k) == /\ op = "idle"
          /\ Returns("Has", k, Lookup(k) # None)
          /\ UNCHANGED <<slvars, useSkipList, map, iter, last, rewritten>>

\* Mutant of Put: std::map::insert, which keeps the value of a present key.
PutByInsert(k, v) ==
    /\ op = "idle"
    /\ IF useSkipList
          THEN Insert(k, v) /\ UNCHANGED map
          ELSE /\ map' = [x \in DOMAIN map \cup {k} |->
                             IF x \in DOMAIN map THEN map[x] ELSE v]
               /\ UNCHANGED slvars
    /\ last' = [last EXCEPT ![k] = v]
    /\ rewritten' = rewritten \cup (IF last[k] = None THEN {} ELSE {k})
    /\ Returns("Put", k, OK)
    /\ UNCHANGED <<useSkipList, iter>>

Put(k, v) == /\ op = "idle"
             /\ IF useSkipList
                   THEN Insert(k, v) /\ UNCHANGED map
                   ELSE /\ map' = [x \in DOMAIN map \cup {k} |->
                                      IF x = k THEN v ELSE map[x]]
                        /\ UNCHANGED slvars
             /\ last' = [last EXCEPT ![k] = v]
             /\ rewritten' = rewritten \cup (IF last[k] = None THEN {} ELSE {k})
             /\ Returns("Put", k, OK)
             /\ UNCHANGED <<useSkipList, iter>>

\* An element is erased under an iterator that stands on it or ends at it.
Invalidate(k) ==
    IF iter.state \in {"ready", "more", "done"} /\ k \in {iter.cur, iter.end}
    THEN [iter EXCEPT !.state = "dangling", !.stable = @ \ {k}]
    ELSE IF iter.state = "none" THEN iter
    ELSE [iter EXCEPT !.stable = @ \ {k}]

\* Delete over the std::map.
DeleteMap(k) ==
    /\ op = "idle"
    /\ ~useSkipList
    /\ map' = [x \in DOMAIN map \ {k} |-> map[x]]
    /\ iter' = IF k \in DOMAIN map THEN Invalidate(k) ELSE iter
    /\ Returns("Delete", k, IF k \in DOMAIN map THEN OK ELSE KeyNotFound)
    /\ last' = [last EXCEPT ![k] = None]
    /\ UNCHANGED <<slvars, useSkipList, rewritten>>

\* Delete over the skip list: remove does not say whether it found the key.
DeleteList(k) ==
    /\ useSkipList
    /\ RemoveSearch(k)
    /\ ret' = [call |-> "deleting", key |-> k, result |-> OK]
    /\ UNCHANGED <<useSkipList, map, iter, last, rewritten>>

\* remove goes on; when it comes back Delete returns std::nullopt.
DeleteListStep ==
    /\ UnlinkBelow \/ Unlink \/ Erase \/ EraseEnd
    /\ IF op' = "idle"
          THEN /\ Returns("Delete", ret.key, OK)
               /\ last' = [last EXCEPT ![ret.key] = None]
          ELSE UNCHANGED <<ret, last>>
    /\ UNCHANGED <<useSkipList, map, iter, rewritten>>

-----------------------------------------------------------------------------
(* The iterator.                                                           *)

AtOrEnd(k) == IF k \in DOMAIN map THEN k ELSE End

\* Mutant of Successor: the iterator skips to the last element.
SuccessorLast(k) == LET above == {j \in DOMAIN map : j > k}
                    IN  IF above = {} THEN End ELSE Max(above)

\* The element after k, End after the last one.
Successor(k) == LET above == {j \in DOMAIN map : j > k}
                IN  IF above = {} THEN End ELSE Min(above)

\* RangeScan: two lookups in the std::map, also when the skip list is in use.
\* seen: the keys the caller could read; stable: the keys there ever since.
RangeScan(s, e) ==
    /\ op = "idle"
    /\ iter' = [state |-> "ready", cur |-> AtOrEnd(s), end |-> AtOrEnd(e),
                stable |-> DOMAIN map,
                seen |-> IF s \in DOMAIN map THEN <<s>> ELSE <<>>]
    /\ Returns("RangeScan", s, OK)
    /\ UNCHANGED <<slvars, useSkipList, map, last, rewritten>>

\* Undefined behaviour of an iterator.
IterFault == /\ fault' = "iterator"
             /\ op' = "dead"
             /\ UNCHANGED <<nodes, node, next, genAt, level, previous, target,
                            dbvars>>

\* Iterator::Next: m_current == m_end || ++m_current == m_end
IterNextAtEnd ==
    /\ op = "idle"
    /\ iter.state \in {"ready", "more", "done"}
    /\ iter.cur = iter.end
    /\ iter' = [iter EXCEPT !.state = "done"]
    /\ Returns("Next", iter.cur, FALSE)
    /\ UNCHANGED <<slvars, useSkipList, map, last, rewritten>>

IterNextMoves ==
    /\ op = "idle"
    /\ iter.state \in {"ready", "more", "done"}
    /\ iter.cur # iter.end
    /\ iter.cur # End
    /\ LET to == Successor(iter.cur)
       IN  /\ iter' = [iter EXCEPT !.cur = to,
                          !.state = IF to = iter.end THEN "done" ELSE "more",
                          !.seen = IF to = iter.end THEN @ ELSE Append(@, to)]
           /\ Returns("Next", to, to # iter.end)
    /\ UNCHANGED <<slvars, useSkipList, map, last, rewritten>>

\* Mutant of IterNextFaults: Next does not look whether it is at the end.
IterNextUnchecked ==
    /\ op = "idle"
    /\ \/ iter.state = "dangling"
       \/ iter.state \in {"ready", "more"} /\ iter.cur = End
       \/ iter.state = "done" /\ iter.cur = End
    /\ IterFault

\* ++ on End (m_end is elsewhere), or any use of a dangling iterator.
IterNextFaults ==
    /\ op = "idle"
    /\ \/ iter.state = "dangling"
       \/ iter.state \in {"ready", "more"} /\ iter.cur = End /\ iter.end # End
    /\ IterFault

\* Iterator::Key and Iterator::Value.  The caller reads after RangeScan or after
\* a Next that returned true.
IterRead ==
    /\ op = "idle"
    /\ iter.state \in {"ready", "more"}
    /\ iter.cur # End
    /\ Returns("Read", iter.cur, map[iter.cur])
    /\ UNCHANGED <<slvars, useSkipList, map, iter, last, rewritten>>

IterReadFaults ==
    /\ op = "idle"
    /\ iter.state \in {"ready", "more"}
    /\ iter.cur = End
    /\ IterFault

Next == \/ \E k \in Key : Get(k) \/ Has(k) \/ DeleteMap(k) \/ DeleteList(k)
        \/ \E k \in Key, v \in Value : Put(k, v)
        \/ DeleteListStep
        \/ \E s, e \in Key : RangeScan(s, e)
        \/ IterNextAtEnd \/ IterNextMoves \/ IterNextFaults
        \/ IterRead \/ IterReadFaults

Spec == Init /\ [][Next]_vars

-----------------------------------------------------------------------------
Scanning == iter.state # "none"

\* The range RangeScan was asked for starts at a key that was there and does
\* not end before it.
GoodRange == iter.seen # <<>> /\ (iter.end # End => iter.seen[1] <= iter.end)

\* The key k is in a good range, which ends with iter.end, or nowhere if the end
\* key was absent.
InRange(k) == k >= iter.seen[1] /\ (iter.end # End => k <= iter.end)

\* Type invariant.
TypeOK ==
    /\ SLTypeOK
    /\ useSkipList \in Modes
    /\ map \in UNION {[D -> Value] : D \in SUBSET Key}
    /\ last \in [Key -> Value \cup {None}]
    /\ rewritten \subseteq Key
    /\ iter.state \in {"none", "ready", "more", "done", "dangling"}
    /\ Scanning => /\ {iter.cur, iter.end} \subseteq Key \cup {End}
                   /\ iter.seen \in Seq(Key \cup {End})

\* Get and Has answer from the last Put and Delete of the key, over the map
\* for every key, over the skip list for the keys that were never put twice.
AnswersFollowWrites ==
    LET k == ret.key
    IN  ~useSkipList \/ k \notin rewritten =>
          /\ ret.call = "Get" =>
                ret.result = IF last[k] = None THEN KeyNotFound ELSE last[k]
          /\ ret.call = "Has" => ret.result = (last[k] # None)

\* Whatever is put and deleted between two calls of Next, the keys a scan of a
\* good range shows ascend and stay inside the range; when it came to its end it
\* has shown every key of the range that was in the map all along.  The end key
\* itself is left open: Next stops in front of it, the repository's test of
\* RangeScan expects it to be shown.
ScanShowsRange ==
    Scanning /\ GoodRange =>
        /\ \A i \in 1..(Len(iter.seen) - 1) : iter.seen[i] < iter.seen[i + 1]
        /\ \A i \in 2..Len(iter.seen) : InRange(iter.seen[i])
        /\ iter.state = "done" =>
              \A k \in iter.stable \ {iter.end} :
                 InRange(k) => \E i \in DOMAIN iter.seen : iter.seen[i] = k

\* Defined behaviour is left in three ways only: the iterator was given a start
\* key that is missing or an end key before it, or lost an element under it; the
\* skip list removed a key it did not hold, or walked up from below its array
\* to remove one it held.  Otherwise the variables keep their types.
FaultCauses ==
    /\ TypeOK
    /\ fault = "iterator" => iter.state = "dangling" \/ ~GoodRange
    /\ fault = "erase" => useSkipList /\ Held(ret.key) = <<>>
    /\ fault = "index" => useSkipList /\ Held(ret.key) # <<>>

\* DeleteRemovesExistingKey expects Has to return false after a Delete.
DeletedKeyIsGone == ret.call = "Delete" => Lookup(ret.key) = None
=============================================================================
