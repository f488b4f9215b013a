------------------------------- MODULE SkipList -------------------------------
(***************************************************************************)
(* storage-retrieval/skiplist/skiplist.h: a skip list of key/value nodes.  *)
(*                                                                         *)
(* Nodes live in the vector d_nodes, the header first, and are linked by   *)
(* the pointers next[n][l], l from 1 (d_nextNode[0]) up.  insert and find  *)
(* are one step each.  remove is stepped through, because its walk back up *)
(* the levels leaves the bounds of previousNodes: an access at index -1 is *)
(* undefined, and a build either faults there or reads a stray word that   *)
(* makes no difference.                                                    *)
(*                                                                         *)
(* Keys are natural numbers: all the list does with a key is compare it.   *)
(***************************************************************************)
EXTENDS Naturals, Sequences, SequencesExt, FiniteSetsExt

CONSTANTS Key,       \* keys, a set of positive numbers
          Value,     \* values
          MaxLevel,  \* Constants::MAX_LEVEL
          MaxNodes,  \* bound on the number of nodes besides the header
          GenLevel,  \* d_maxLevel of the level generator, 0 for none
          None       \* std::nullopt

ASSUME KeyAssumption == Key \subseteq Nat \ {0}
ASSUME NoneAssumption == None \notin Value
ASSUME MaxLevelAssumption == MaxLevel \in Nat \ {0}
ASSUME GenLevelAssumption == GenLevel \in 0..MaxLevel
ASSUME MaxNodesAssumption == MaxNodes \in Nat

VARIABLES nodes,      \* d_nodes: the identities of the nodes, in vector order
          node,       \* node[n]: the key, value and level of node n
          next,       \* next[n][l]: d_nextNode[l - 1] of node n
          genAt,      \* d_level of the level generator
          op,         \* "idle", or the part of remove that runs
          level,      \* the local variable level of remove
          previous,   \* the local array previousNodes of remove
          target,     \* nodeToRemove
          fault       \* "none", or the undefined behaviour that ended it all

slvars == <<nodes, node, next, genAt, op, level, previous, target, fault>>

Header == 0
Null == MaxNodes + 1
NodeId == 0..MaxNodes
Levels == 1..MaxLevel
Blank == [key |-> 0, value |-> None, level |-> MaxLevel]
FreshIds == (1..MaxNodes) \ {nodes[i] : i \in DOMAIN nodes}

\* Mutant of Advance: the descent also passes nodes with an equal key.
AdvancePastEqual(n, l, k) ==
    LET at[m \in NodeId] ==
          LET r == next[m][l] IN IF r # Null /\ node[r].key <= k THEN at[r] ELSE m
    IN  at[n]

\* The node the descent leaves level l at when it enters it at n: it moves
\* right while the next key is smaller.
Advance(n, l, k) ==
    LET at[m \in NodeId] ==
          LET r == next[m][l] IN IF r # Null /\ node[r].key < k THEN at[r] ELSE m
    IN  at[n]

\* previousNodes: the descent enters each level where it left the one above.
Previous(l, k) ==
    LET at[j \in Levels] == Advance(IF j = MaxLevel THEN Header ELSE at[j + 1], j, k)
    IN  at[l]

\* Mutant of FindFrom: after a move to the right the level is not raised again,
\* and it goes on one level down.
FindFromLower(n, l, k) ==
    LET from[s \in NodeId \X (0..MaxLevel)] ==
          LET m == next[s[1]][s[2]]
          IN  IF s[2] = 0 THEN None
              ELSE IF m # Null /\ node[m].key = k THEN node[m].value
              ELSE IF m # Null /\ node[m].key < k THEN from[<<m, s[2] - 1>>]
              ELSE from[<<s[1], s[2] - 1>>]
    IN  from[<<n, l>>]

\* find: like the descent, but it stops at the first node with the key, and
\* after a move to the right it starts again at the top level of that node.
FindFrom(n, l, k) ==
    LET from[s \in NodeId \X (0..MaxLevel)] ==
          LET m == next[s[1]][s[2]]
          IN  IF s[2] = 0 THEN None
              ELSE IF m # Null /\ node[m].key = k THEN node[m].value
              ELSE IF m # Null /\ node[m].key < k THEN from[<<m, node[m].level>>]
              ELSE from[<<s[1], s[2] - 1>>]
    IN  from[<<n, l>>]

Find(k) == FindFrom(Header, MaxLevel, k)

\* The levels computeLevel may return: a coin per level without a generator,
\* 1, 2, ..., d_maxLevel over and over with one.
ComputeLevel == IF GenLevel = 0 THEN Levels ELSE {(genAt % GenLevel) + 1}

-----------------------------------------------------------------------------
SLInit == /\ nodes = <<Header>>
          /\ node = [n \in NodeId |-> Blank]
          /\ next = [n \in NodeId |-> [l \in Levels |-> Null]]
          /\ genAt = 0
          /\ op = "idle"
          /\ level = 0
          /\ previous = [l \in Levels |-> Null]
          /\ target = Null
          /\ fault = "none"

\* insert: a new node in front of the nodes that are not smaller, on the
\* levels up to the one drawn for it.
Insert(k, v) ==
    /\ op = "idle"
    /\ FreshIds # {}
    /\ \E h \in ComputeLevel :
         LET new == Min(FreshIds)
             linked == 1..h
         IN  /\ node' = [node EXCEPT ![new] = [key |-> k, value |-> v,
                                               level |-> h]]
             /\ next' = [n \in NodeId |-> [l \in Levels |->
                           IF n = new
                           THEN IF l \in linked
                                THEN next[Previous(l, k)][l] ELSE Null
                           ELSE IF l \in linked /\ n = Previous(l, k)
                                THEN new ELSE next[n][l]]]
             /\ genAt' = IF GenLevel = 0 THEN genAt ELSE h
             /\ nodes' = Append(nodes, new)
    /\ UNCHANGED <<op, level, previous, target, fault>>

\* remove, first loop: the descent, which ends with level = 0.
RemoveSearch(k) ==
    /\ op = "idle"
    /\ level' = 0
    /\ previous' = [l \in Levels |-> Previous(l, k)]
    /\ LET m == next[Previous(1, k)][1]
       IN  IF m # Null /\ node[m].key = k
           THEN target' = m /\ op' = "unlink"
           ELSE target' = Null /\ op' = "erase"
    /\ UNCHANGED <<nodes, node, next, genAt, fault>>

\* remove, second loop, with level below the array: previousNodes[-1] is
\* whatever lies there; a build that survives the two loads goes on.
UnlinkBelow ==
    /\ op = "unlink"
    /\ level = 0
    /\ \/ fault' = "index" /\ op' = "dead" /\ UNCHANGED level
       \/ level' = level + 1 /\ UNCHANGED <<fault, op>>
    /\ UNCHANGED <<nodes, node, next, genAt, previous, target>>

\* Mutant of Unlink: the walk up stops one level short of the top.
UnlinkShort ==
    /\ op = "unlink"
    /\ level \in Levels
    /\ next' = [next EXCEPT ![previous[level]][level] =
                   IF @ = target /\ level < MaxLevel
                   THEN next[target][level] ELSE @]
    /\ level' = level + 1
    /\ op' = IF level = MaxLevel THEN "erase" ELSE op
    /\ UNCHANGED <<nodes, node, genAt, previous, target, fault>>

\* remove, second loop: skip over the node on this level.
Unlink ==
    /\ op = "unlink"
    /\ level \in Levels
    /\ next' = [next EXCEPT ![previous[level]][level] =
                   IF @ = target THEN next[target][level] ELSE @]
    /\ level' = level + 1
    /\ op' = IF level = MaxLevel THEN "erase" ELSE op
    /\ UNCHANGED <<nodes, node, genAt, previous, target, fault>>

\* remove, the end, when the key was found: its node leaves d_nodes and is
\* destroyed.
Erase ==
    /\ op = "erase"
    /\ target # Null
    /\ \E i \in DOMAIN nodes : nodes[i] = target /\ nodes' = RemoveAt(nodes, i)
    /\ node' = [node EXCEPT ![target] = Blank]
    /\ next' = [next EXCEPT ![target] = [l \in Levels |-> Null]]
    /\ op' = "idle"
    /\ level' = 0
    /\ previous' = [l \in Levels |-> Null]
    /\ target' = Null
    /\ UNCHANGED <<genAt, fault>>

\* remove, the end, when it was not: d_nodes.erase(d_nodes.end()) destroys the
\* last node of the vector, which stays linked.  Nothing after it is defined.
EraseEnd ==
    /\ op = "erase"
    /\ target = Null
    /\ nodes' = Front(nodes)
    /\ op' = "dead"
    /\ fault' = "erase"
    /\ UNCHANGED <<node, next, genAt, level, previous, target>>

SLNext == \/ \E k \in Key, v \in Value : Insert(k, v)
          \/ \E k \in Key : RemoveSearch(k)
          \/ UnlinkBelow
          \/ Unlink
          \/ Erase
          \/ EraseEnd

SLSpec == SLInit /\ [][SLNext]_slvars

-----------------------------------------------------------------------------
(* Properties.  They speak of a list that no undefined access has ended.   *)

\* The nodes of level l, following the pointers from n.
Chain(n, l) ==
    LET from[m \in NodeId] ==
          LET r == next[m][l] IN IF r = Null THEN <<>> ELSE <<r>> \o from[r]
    IN  from[n]

\* The nodes of key k from left to right, and their values.
NodesOf(k) ==
    LET from[m \in NodeId] ==
          LET r == next[m][1]
          IN  IF r = Null THEN <<>> ELSE (IF node[r].key = k THEN <<r>> ELSE <<>>) \o from[r]
    IN  from[Header]
Held(k)    == LET ns == NodesOf(k) IN [i \in DOMAIN ns |-> node[ns[i]].value]

Live == {nodes[i] : i \in DOMAIN nodes}
Data == Live \ {Header}
Quiet == op = "idle" /\ fault = "none"

\* Type invariant.
SLTypeOK ==
    /\ nodes \in Seq(NodeId) /\ IsInjective(nodes)
    /\ node \in [NodeId -> [key : Key \cup {0}, value : Value \cup {None},
                            level : Levels]]
    /\ next \in [NodeId -> [Levels -> NodeId \cup {Null}]]
    /\ genAt \in 0..MaxLevel
    /\ op \in {"idle", "unlink", "erase", "dead"}
    /\ level \in 0..(MaxLevel + 1)
    /\ previous \in [Levels -> NodeId \cup {Null}]
    /\ target \in NodeId \cup {Null}
    /\ fault \in {"none", "index", "erase", "iterator"}

\* insert and remove keep every level a sorted list of exactly the live nodes
\* that reach it: no node is lost, linked twice, left dangling or out of order.
\* The variables keep their types all along.
LevelsAreSorted ==
    /\ SLTypeOK
    /\ Quiet => \A l \in Levels :
          LET c == Chain(Header, l)
          IN  /\ IsInjective(c)
              /\ ToSet(c) = {n \in Data : node[n].level >= l}
              /\ \A i \in 1..(Len(c) - 1) : node[c[i]].key <= node[c[i + 1]].key

\* find's shortcut (restart at the top of the node reached, stop at the first
\* match on any level) finds a key exactly when some node holds it.  Of several
\* nodes it returns the first, and so the newest, of the highest ones.
FindReturnsNewestOfHighest ==
    Quiet => \A k \in Key :
        LET ns  == NodesOf(k)
            top == {i \in DOMAIN ns : \A j \in DOMAIN ns : node[ns[j]].level <= node[ns[i]].level}
        IN  Find(k) = IF ns = <<>> THEN None ELSE node[ns[Min(top)]].value

Abs == INSTANCE KeyStacks WITH held <- [k \in Key |-> Held(k)]

\* The list implements a stack of values per key, whatever levels were drawn: an
\* insert comes before the nodes that are equal to it, and remove, level by level,
\* takes away the newest node of its key and no other.
ImplementsKeyStacks == Abs!ASpec
=============================================================================
