---------------------------- MODULE Level2DB_proofs ----------------------------
(***************************************************************************)
(* For any keys, values, levels and number of nodes: what the skip list    *)
(* keeps while nodes are linked and unlinked, what find returns from it,   *)
(* and what the database answers over it and over the std::map.            *)
(***************************************************************************)
EXTENDS Level2DB, WellFoundedInduction, SequenceTheorems, TLAPS

-----------------------------------------------------------------------------
(* Numbers, and functions that are defined by recursion along a rank.      *)

LEMMA Least ==
    ASSUME NEW T, T \subseteq Nat, T # {}
    PROVE  \E n \in T : \A m \in T : n <= m
<1>1. IsWellFoundedOn(OpToRel(<, Nat), Nat)
  BY NatLessThanWellFounded
<1>2. PICK n \in T : \A m \in T : <<m, n>> \notin OpToRel(<, Nat)
  BY <1>1, WFMin
<1>3. ASSUME NEW m \in T PROVE n <= m
  <2>1. n \in Nat /\ m \in Nat
    OBVIOUS
  <2>2. ~(m < n)
    BY <1>2, <2>1 DEF OpToRel
  <2> QED
    BY <2>1, <2>2
<1> QED
  BY <1>3

LEMMA LeastIsMin ==
    ASSUME NEW T, T \subseteq Nat, T # {}
    PROVE  Min(T) \in T /\ \A m \in T : Min(T) <= m
BY Least DEF Min

LEMMA Induction ==
    ASSUME NEW S, 0 \in S, \A n \in Nat : n \in S => n + 1 \in S
    PROVE  Nat \subseteq S
<1> SUFFICES ASSUME Nat \ S # {} PROVE FALSE
  OBVIOUS
<1>1. Nat \ S \subseteq Nat
  OBVIOUS
<1>2. PICK n \in Nat \ S : \A m \in Nat \ S : n <= m
  BY <1>1, Least
<1>3. n # 0 /\ n \in Nat
  OBVIOUS
<1>4. n - 1 \in Nat /\ ~(n <= n - 1) /\ (n - 1) + 1 = n
  BY <1>3
<1>5. n - 1 \in S
  BY <1>2, <1>4
<1> QED
  BY <1>4, <1>5

\* Numbers given to finitely many nodes have a bound.
LEMMA Bounded ==
    ASSUME NEW place \in [NodeId -> Nat]
    PROVE  \E b \in Nat : \A n \in NodeId : place[n] <= b
<1> DEFINE P(j) == \E b \in Nat : \A n \in NodeId : n <= j => place[n] <= b
           S == {j \in Nat : P(j)}
<1>1. \A n \in NodeId : n \in Nat /\ n <= MaxNodes /\ place[n] \in Nat
  BY MaxNodesAssumption DEF NodeId
<1>2. P(0)
  <2>1. 0 \in NodeId /\ place[0] \in Nat /\ \A n \in NodeId : n <= 0 => n = 0
    BY <1>1, MaxNodesAssumption DEF NodeId
  <2> QED
    BY <2>1
<1>3. ASSUME NEW j \in Nat, P(j) PROVE P(j + 1)
  <2>1. PICK b \in Nat : \A n \in NodeId : n <= j => place[n] <= b
    BY <1>3
  <2>2. CASE j + 1 \notin NodeId
    <3>1. \A n \in NodeId : n <= j + 1 => n <= j
      BY <1>1, <2>2
    <3> QED
      BY <2>1, <3>1
  <2>3. CASE j + 1 \in NodeId
    <3>1. b + place[j + 1] \in Nat /\ \A n \in NodeId : n <= j + 1 => n <= j \/ n = j + 1
      BY <1>1, <2>3
    <3>2. \A n \in NodeId : n <= j + 1 => place[n] <= b + place[j + 1]
      BY <1>1, <2>1, <2>3, <3>1
    <3> QED
      BY <3>1, <3>2
  <2> QED
    BY <2>2, <2>3
<1> HIDE DEF P
<1>4. 0 \in S /\ \A j \in Nat : j \in S => j + 1 \in S
  BY <1>2, <1>3
<1>5. Nat \subseteq S
  BY <1>4, Induction
<1>6. P(MaxNodes)
  BY <1>5, MaxNodesAssumption
<1> QED
  BY <1>1, <1>6 DEF P

\* The member of a set of nodes with the highest number.
LEMMA Highest ==
    ASSUME NEW place \in [NodeId -> Nat], NEW T, T \subseteq NodeId, T # {}
    PROVE  \E n \in T : \A m \in T : place[m] <= place[n]
<1>1. PICK b \in Nat : \A n \in NodeId : place[n] <= b
  BY Bounded
<1> DEFINE D == {b - place[n] : n \in T}
<1>2. D \subseteq Nat /\ D # {}
  BY <1>1
<1>3. PICK d \in D : \A e \in D : d <= e
  BY <1>2, Least
<1>4. PICK n \in T : d = b - place[n]
  BY <1>3
<1>5. ASSUME NEW m \in T PROVE place[m] <= place[n]
  <2>1. b - place[n] <= b - place[m]
    BY <1>3, <1>4
  <2>2. place[n] \in Nat /\ place[m] \in Nat
    OBVIOUS
  <2> QED
    BY <2>1, <2>2
<1> QED
  BY <1>5

\* The rank sinks from each argument that does not stop to the next one.
Sinks(D, stop, val, step, rank, b) ==
    /\ DOMAIN val = D /\ step \in [D -> D] /\ b \in Nat /\ rank \in [D -> 0..b]
    /\ \A x \in D : x \notin stop => rank[step[x]] < rank[x]

\* A function that stops or goes on from another argument is well defined if
\* the rank sinks.
Stops(f, D, stop, val, step) == \A x \in D : f[x] = IF x \in stop THEN val[x] ELSE f[step[x]]

LEMMA TailRecursion ==
    ASSUME NEW D, NEW stop, NEW val, NEW step, NEW rank, NEW b, Sinks(D, stop, val, step, rank, b)
    PROVE  \E f : Stops(f, D, stop, val, step)
<1> USE DEF Sinks
<1> DEFINE Low(j) == {x \in D : rank[x] < j}
           P(j) == \E f : f = [x \in Low(j) |-> IF x \in stop THEN val[x] ELSE f[step[x]]]
           S == {j \in Nat : P(j)}
<1>1. P(0)
  <2> DEFINE f == [x \in Low(0) |-> 0]
  <2>1. Low(0) = {}
    OBVIOUS
  <2>2. f = [x \in Low(0) |-> IF x \in stop THEN val[x] ELSE f[step[x]]]
    BY <2>1
  <2> QED
    BY <2>2
<1>2. ASSUME NEW j \in Nat, P(j) PROVE P(j + 1)
  <2>1. PICK f : f = [x \in Low(j) |-> IF x \in stop THEN val[x] ELSE f[step[x]]]
    BY <1>2
  <2>2. Low(j) \subseteq Low(j + 1)
    OBVIOUS
  <2>3. \A x \in Low(j + 1) : x \notin stop => step[x] \in Low(j)
    OBVIOUS
  <2> HIDE DEF Low
  <2> DEFINE g == [x \in Low(j + 1) |-> IF x \in stop THEN val[x] ELSE f[step[x]]]
  <2>4. \A x \in Low(j) : f[x] = g[x]
    BY <2>1, <2>2
  <2>5. g = [x \in Low(j + 1) |-> IF x \in stop THEN val[x] ELSE g[step[x]]]
    BY <2>3, <2>4
  <2> QED
    BY <2>5
<1> HIDE DEF P
<1>3. 0 \in S /\ \A j \in Nat : j \in S => j + 1 \in S
  BY <1>1, <1>2
<1>4. Nat \subseteq S
  BY <1>3, Induction
<1>5. P(b + 1)
  BY <1>4
<1>6. Low(b + 1) = D
  OBVIOUS
<1> HIDE DEF Low
<1> QED
  BY <1>5, <1>6 DEF P, Stops

\* So is one that puts something before what it goes on with.
Collects(f, D, stop, pre, step) ==
    \A x \in D : f[x] = IF x \in stop THEN <<>> ELSE pre[x] \o f[step[x]]

LEMMA PrefixRecursion ==
    ASSUME NEW D, NEW stop, NEW pre, NEW step, NEW rank, NEW b, Sinks(D, stop, pre, step, rank, b)
    PROVE  \E f : Collects(f, D, stop, pre, step)
<1> USE DEF Sinks
<1> DEFINE Low(j) == {x \in D : rank[x] < j}
           P(j) == \E f : f = [x \in Low(j) |-> IF x \in stop THEN <<>> ELSE pre[x] \o f[step[x]]]
           S == {j \in Nat : P(j)}
<1>1. P(0)
  <2> DEFINE f == [x \in Low(0) |-> 0]
  <2>1. Low(0) = {}
    OBVIOUS
  <2>2. f = [x \in Low(0) |-> IF x \in stop THEN <<>> ELSE pre[x] \o f[step[x]]]
    BY <2>1
  <2> QED
    BY <2>2
<1>2. ASSUME NEW j \in Nat, P(j) PROVE P(j + 1)
  <2>1. PICK f : f = [x \in Low(j) |-> IF x \in stop THEN <<>> ELSE pre[x] \o f[step[x]]]
    BY <1>2
  <2>2. Low(j) \subseteq Low(j + 1)
    OBVIOUS
  <2>3. \A x \in Low(j + 1) : x \notin stop => step[x] \in Low(j)
    OBVIOUS
  <2> HIDE DEF Low
  <2> DEFINE g == [x \in Low(j + 1) |-> IF x \in stop THEN <<>> ELSE pre[x] \o f[step[x]]]
  <2>4. \A x \in Low(j) : f[x] = g[x]
    BY <2>1, <2>2
  <2>5. g = [x \in Low(j + 1) |-> IF x \in stop THEN <<>> ELSE pre[x] \o g[step[x]]]
    BY <2>3, <2>4
  <2> QED
    BY <2>5
<1> HIDE DEF P
<1>3. 0 \in S /\ \A j \in Nat : j \in S => j + 1 \in S
  BY <1>1, <1>2
<1>4. Nat \subseteq S
  BY <1>3, Induction
<1>5. P(b + 1)
  BY <1>4
<1>6. Low(b + 1) = D
  OBVIOUS
<1> HIDE DEF Low
<1> QED
  BY <1>5, <1>6 DEF P, Collects

-----------------------------------------------------------------------------
(* The shape of the list.  place numbers the nodes from left to right.     *)

\* remove has found its node and walks up to unlink it.
Removing == op \in {"unlink", "erase"} /\ target # Null

\* The nodes linked on level l: those below the level the walk has come to no
\* longer include the node that is removed.
On(l, n) == n \in Live /\ node[n].level >= l /\ ~(Removing /\ n = target /\ l < level)

Places(place) ==
    /\ place \in [NodeId -> Nat]
    /\ Header \in Live /\ node[Header] = Blank
    /\ \A n \in Data : node[n].key \in Key
    /\ \A n, m \in Live : place[n] = place[m] => n = m
    /\ \A n, m \in Live : place[n] < place[m] => node[n].key <= node[m].key

\* On each level a node points to the next one to the right.
Links(place) ==
    \A l \in Levels :
        /\ \A n \in NodeId : next[n][l] # Null =>
              n \in Live /\ node[n].level >= l /\ next[n][l] \in Data /\ place[n] < place[next[n][l]]
        /\ \A n \in NodeId : On(l, n) /\ next[n][l] # Null => On(l, next[n][l])
        /\ \A n, m \in NodeId : On(l, n) /\ On(l, m) /\ place[n] < place[m] =>
              next[n][l] # Null /\ place[next[n][l]] <= place[m]

\* The node that is removed is the first of its key, and previous[l] is next to
\* it on the levels still to come.
Walk(place) ==
    /\ op = "unlink" => target # Null
    /\ Removing =>
         /\ target \in Data
         /\ op = "erase" => level = MaxLevel + 1
         /\ \A m \in Live : node[m].key = node[target].key => place[target] <= place[m]
         /\ \A l \in Levels : level <= l =>
              /\ On(l, previous[l]) /\ place[previous[l]] < place[target]
              /\ \A m \in NodeId : On(l, m) => place[m] <= place[previous[l]] \/ place[target] <= place[m]

Shape(place) == SLTypeOK /\ Places(place) /\ Links(place) /\ Walk(place)

SLInv == SLTypeOK /\ (op # "dead" => fault = "none" /\ \E place : Shape(place))

LEMMA LiveIsNodes == ASSUME SLTypeOK PROVE Live \subseteq NodeId /\ \A n \in NodeId : n \in Nat /\ n # Null
<1>1. nodes \in Seq(NodeId)
  BY DEF SLTypeOK
<1> QED
  BY <1>1, MaxNodesAssumption DEF Live, NodeId, Null

\* What the type invariant and the order say of two live nodes.
LEMMA Ordered ==
    ASSUME NEW place, SLTypeOK, Places(place), NEW n \in Live, NEW m \in Live
    PROVE  /\ n \in NodeId /\ place[n] \in Nat /\ place[m] \in Nat
           /\ node[n].key \in Nat /\ node[n].level \in Levels /\ node[n].level \in Nat
           /\ place[n] <= place[m] => node[n].key <= node[m].key
           /\ node[n].key < node[m].key => place[n] < place[m]
           /\ n = Header => node[n].key = 0 /\ node[n].level = MaxLevel
           /\ n # Header => node[n].key > 0
<1>1. n \in NodeId /\ m \in NodeId
  BY LiveIsNodes
<1>2. /\ node[n].key \in Nat /\ node[m].key \in Nat
      /\ node[n].level \in Levels /\ node[n].level \in Nat
  <2>1. \A x \in NodeId : node[x].key \in Key \cup {0} /\ node[x].level \in Levels
    BY DEF SLTypeOK
  <2>2. Key \cup {0} \subseteq Nat /\ Levels \subseteq Nat
    BY KeyAssumption, MaxLevelAssumption DEF Levels
  <2> QED
    BY <1>1, <2>1, <2>2
<1>3. place[n] \in Nat /\ place[m] \in Nat
  BY <1>1 DEF Places
<1>4. place[n] <= place[m] => node[n].key <= node[m].key
  BY <1>2, <1>3 DEF Places
<1>5. node[n].key < node[m].key => place[n] < place[m]
  BY <1>2, <1>3 DEF Places
<1>6. n = Header => node[n].key = 0 /\ node[n].level = MaxLevel
  BY DEF Places, Blank
<1>7. n # Header => node[n].key > 0
  BY <1>2, KeyAssumption DEF Places, Data
<1> QED
  BY <1>1, <1>2, <1>3, <1>4, <1>5, <1>6, <1>7

\* The last node of level l before those of key k and more.
LastBelow(place, l, k, p) ==
    /\ On(l, p) /\ node[p].key < k
    /\ \A m \in NodeId : On(l, m) /\ node[m].key < k => place[m] <= place[p]

\* The rank that sinks along the pointers.
LEMMA RightwardRank ==
    ASSUME NEW place \in [NodeId -> Nat]
    PROVE  \E b \in Nat : \E rank \in [NodeId -> 0..b] :
             \A n, m \in NodeId : place[n] < place[m] => rank[m] < rank[n]
<1>1. PICK b \in Nat : \A n \in NodeId : place[n] <= b
  BY Bounded
<1> DEFINE rank == [n \in NodeId |-> b - place[n]]
<1>2. \A n \in NodeId : place[n] \in Nat /\ b - place[n] \in 0..b
  BY <1>1
<1>3. rank \in [NodeId -> 0..b]
  BY <1>2
<1>4. \A n, m \in NodeId : place[n] < place[m] => rank[m] < rank[n]
  BY <1>2
<1> QED
  BY <1>3, <1>4

LEMMA AdvanceEquation ==
    ASSUME NEW place, Shape(place), NEW l \in Levels, NEW k, NEW n \in NodeId
    PROVE  LET r == next[n][l]
           IN  Advance(n, l, k) = IF r # Null /\ node[r].key < k THEN Advance(r, l, k) ELSE n
<1> DEFINE stop == {m \in NodeId : ~(next[m][l] # Null /\ node[next[m][l]].key < k)}
           val == [m \in NodeId |-> m]
           step == [m \in NodeId |-> IF m \in stop THEN m ELSE next[m][l]]
           at == CHOOSE f : f = [m \in NodeId |->
                     IF next[m][l] # Null /\ node[next[m][l]].key < k THEN f[next[m][l]] ELSE m]
<1>1. \A m \in NodeId : next[m][l] # Null => next[m][l] \in NodeId /\ place[m] < place[next[m][l]]
  BY LiveIsNodes DEF Shape, Links, Data
<1>b. PICK b \in Nat : \E rank \in [NodeId -> 0..b] :
        \A x, y \in NodeId : place[x] < place[y] => rank[y] < rank[x]
  BY RightwardRank DEF Shape, Places
<1>2. PICK rank \in [NodeId -> 0..b] :
        \A x, y \in NodeId : place[x] < place[y] => rank[y] < rank[x]
  BY <1>b
<1>3. Sinks(NodeId, stop, val, step, rank, b)
  BY <1>b, <1>1, <1>2 DEF Sinks
<1>4. PICK f : Stops(f, NodeId, stop, val, step)
  <2> HIDE DEF stop, val, step
  <2> QED
    BY <1>3, TailRecursion
<1> DEFINE g == [m \in NodeId |-> f[m]]
<1>5. g = [m \in NodeId |->
             IF next[m][l] # Null /\ node[next[m][l]].key < k THEN g[next[m][l]] ELSE m]
  BY <1>1, <1>4 DEF Stops
<1>6. at = [m \in NodeId |->
             IF next[m][l] # Null /\ node[next[m][l]].key < k THEN at[next[m][l]] ELSE m]
  BY <1>5
<1>7. \A m : Advance(m, l, k) = at[m]
  BY DEF Advance
<1> HIDE DEF at
<1>8. at[n] = IF next[n][l] # Null /\ node[next[n][l]].key < k THEN at[next[n][l]] ELSE n
  BY <1>6
<1>9. Advance(n, l, k) = at[n] /\ Advance(next[n][l], l, k) = at[next[n][l]]
  BY <1>7
<1> QED
  BY <1>8, <1>9

LEMMA AdvanceReachesLast ==
    ASSUME NEW place, Shape(place), NEW l \in Levels, NEW k \in Nat, NEW n, On(l, n), node[n].key < k
    PROVE  LastBelow(place, l, k, Advance(n, l, k))
<1> DEFINE T == {m \in NodeId : On(l, m) /\ node[m].key < k /\ ~LastBelow(place, l, k, Advance(m, l, k))}
<1>1. n \in NodeId
  BY LiveIsNodes DEF On, Shape
<1> SUFFICES ASSUME T # {} PROVE FALSE
  BY <1>1
<1>2. PICK m \in T : \A x \in T : place[x] <= place[m]
  BY Highest DEF Shape, Places
<1> DEFINE r == next[m][l]
<1>3. CASE r # Null /\ node[r].key < k
  <2>1. On(l, r) /\ place[m] < place[r] /\ r \in NodeId
    BY <1>2, <1>3, LiveIsNodes DEF Shape, Links, On
  <2>2. Advance(m, l, k) = Advance(r, l, k)
    BY <1>3, AdvanceEquation
  <2>3. r \in T
    BY <1>2, <1>3, <2>1, <2>2
  <2>4. place[m] \in Nat /\ place[r] \in Nat
    BY <2>1 DEF Shape, Places
  <2> QED
    BY <1>2, <2>1, <2>3, <2>4
<1>4. CASE ~(r # Null /\ node[r].key < k)
  <2>1. Advance(m, l, k) = m
    BY <1>4, AdvanceEquation
  <2>2. ASSUME NEW x \in NodeId, On(l, x), node[x].key < k, ~(place[x] <= place[m])
        PROVE  FALSE
    <3>1. m \in Live /\ x \in Live
      BY <1>2, <2>2 DEF On
    <3>2. place[m] < place[x]
      BY <2>2, <3>1, Ordered DEF Shape
    <3>3. r # Null /\ place[r] <= place[x] /\ r \in Live
      BY <1>2, <2>2, <3>2 DEF Shape, Links, Data
    <3>4. node[r].key <= node[x].key /\ node[r].key \in Nat /\ node[x].key \in Nat
      BY <3>1, <3>3, Ordered DEF Shape
    <3> QED
      BY <1>4, <2>2, <3>3, <3>4
  <2> QED
    BY <1>2, <2>1, <2>2 DEF LastBelow
<1> QED
  BY <1>3, <1>4

LEMMA LastExists ==
    ASSUME NEW place, Shape(place), NEW l \in Levels, NEW k \in Nat \ {0}
    PROVE  /\ \E p \in NodeId : LastBelow(place, l, k, p)
           /\ \A p, q : LastBelow(place, l, k, p) /\ LastBelow(place, l, k, q) => p = q
<1>1. On(l, Header) /\ node[Header].key < k /\ Header \in NodeId
  <2>1. Header # target \/ ~Removing
    BY DEF Shape, Places, Walk, Data
  <2>2. Header \in Live
    BY DEF Shape, Places
  <2>3. node[Header].key = 0 /\ node[Header].level = MaxLevel /\ Header \in NodeId
    BY <2>2, Ordered DEF Shape
  <2>4. MaxLevel >= l /\ 0 < k
    BY MaxLevelAssumption DEF Levels
  <2> QED
    BY <2>1, <2>2, <2>3, <2>4 DEF On
<1> DEFINE T == {n \in NodeId : On(l, n) /\ node[n].key < k}
<1>2. PICK p \in T : \A m \in T : place[m] <= place[p]
  <2>1. T # {} /\ T \subseteq NodeId
    BY <1>1
  <2> QED
    BY <2>1, Highest DEF Shape, Places
<1>3. LastBelow(place, l, k, p)
  BY <1>2 DEF LastBelow
<1>4. ASSUME NEW q, NEW r, LastBelow(place, l, k, q), LastBelow(place, l, k, r)
      PROVE  q = r
  <2>1. q \in Live /\ r \in Live
    BY <1>4 DEF LastBelow, On
  <2>2. q \in NodeId /\ r \in NodeId /\ place[q] \in Nat /\ place[r] \in Nat
    BY <2>1, Ordered DEF Shape
  <2>3. place[q] <= place[r] /\ place[r] <= place[q]
    BY <1>4, <2>2 DEF LastBelow
  <2> QED
    BY <2>1, <2>2, <2>3 DEF Shape, Places
<1> QED
  BY <1>2, <1>3, <1>4

\* The descent of insert and remove leaves each level at the last smaller node.
LEMMA PreviousIsLast ==
    ASSUME NEW place, Shape(place), op = "idle", NEW k \in Nat \ {0}, NEW l \in Levels
    PROVE  LastBelow(place, l, k, Previous(l, k)) /\ Previous(l, k) \in NodeId
<1> DEFINE start(f, j) == IF j = MaxLevel THEN Header ELSE f[j + 1]
           at == CHOOSE f : f = [j \in Levels |-> Advance(IF j = MaxLevel THEN Header ELSE f[j + 1], j, k)]
           w == [j \in Levels |-> CHOOSE p : LastBelow(place, j, k, p)]
<1>1. \A j \in Levels : LastBelow(place, j, k, w[j])
  BY LastExists
<1>2. ASSUME NEW f, NEW j \in Levels, j # MaxLevel => LastBelow(place, j + 1, k, f[j + 1])
      PROVE  LastBelow(place, j, k, Advance(start(f, j), j, k))
  <2>1. ~Removing
    BY DEF Removing
  <2>2. CASE j = MaxLevel
    <3>1. Header \in Live
      BY DEF Shape, Places
    <3>2. node[Header].key = 0 /\ node[Header].level = MaxLevel
      BY <3>1, Ordered DEF Shape
    <3>3. On(j, Header) /\ node[Header].key < k
      BY <2>1, <2>2, <3>1, <3>2, MaxLevelAssumption DEF On
    <3> QED
      BY <2>2, <3>3, AdvanceReachesLast
  <2>3. CASE j # MaxLevel
    <3>1. On(j + 1, f[j + 1]) /\ node[f[j + 1]].key < k
      BY <1>2, <2>3 DEF LastBelow
    <3>2. node[f[j + 1]].level \in Nat /\ j \in Nat
      BY <3>1, Ordered DEF On, Shape, Levels
    <3>3. On(j, f[j + 1])
      BY <2>1, <3>1, <3>2 DEF On
    <3> QED
      BY <2>3, <3>1, <3>3, AdvanceReachesLast
  <2> QED
    BY <2>2, <2>3
<1>3. \A j \in Levels : j # MaxLevel => j + 1 \in Levels
  BY MaxLevelAssumption DEF Levels
<1>4. \A j \in Levels : w[j] = Advance(start(w, j), j, k)
  BY <1>1, <1>2, <1>3, LastExists
<1>5. w = [j \in Levels |-> Advance(IF j = MaxLevel THEN Header ELSE w[j + 1], j, k)]
  <2>1. w = [j \in Levels |-> w[j]]
    OBVIOUS
  <2> HIDE DEF w
  <2>2. \A j \in Levels : w[j] = Advance(IF j = MaxLevel THEN Header ELSE w[j + 1], j, k)
    BY <1>4
  <2> QED
    BY <2>1, <2>2
<1>6. at = [j \in Levels |-> Advance(IF j = MaxLevel THEN Header ELSE at[j + 1], j, k)]
  <2> HIDE DEF w
  <2> QED
    BY <1>5
<1> HIDE DEF w, at
<1> DEFINE T == {d \in Nat : \E j \in Levels : d = MaxLevel - j /\ ~LastBelow(place, j, k, at[j])}
<1>7. T = {}
  <2> SUFFICES ASSUME T # {} PROVE FALSE
    OBVIOUS
  <2>1. PICK d \in T : \A e \in T : d <= e
    BY Least
  <2>2. PICK j \in Levels : d = MaxLevel - j /\ ~LastBelow(place, j, k, at[j])
    BY <2>1
  <2>3. at[j] = Advance(start(at, j), j, k)
    BY <1>6
  <2>4. j # MaxLevel /\ ~LastBelow(place, j + 1, k, at[j + 1])
    BY <1>2, <2>2, <2>3
  <2>5. j + 1 \in Levels /\ MaxLevel - (j + 1) \in Nat /\ MaxLevel - (j + 1) < d
    BY <1>3, <2>2, <2>4, MaxLevelAssumption DEF Levels
  <2>6. MaxLevel - (j + 1) \in T
    BY <2>4, <2>5
  <2> QED
    BY <2>1, <2>5, <2>6
<1>8. LastBelow(place, l, k, at[l])
  <2>1. MaxLevel - l \in Nat
    BY MaxLevelAssumption DEF Levels
  <2> QED
    BY <1>7, <2>1
<1>9. Previous(l, k) = at[l]
  BY DEF Previous, at
<1>10. at[l] \in NodeId
  BY <1>8, LiveIsNodes DEF LastBelow, On, Shape
<1> QED
  BY <1>8, <1>9, <1>10

-----------------------------------------------------------------------------
(* Nodes in order.                                                         *)

\* c lists the nodes of S from left to right.
Lists(place, S, c) ==
    /\ c \in Seq(NodeId) /\ S = {c[i] : i \in DOMAIN c}
    /\ \A i, j \in DOMAIN c : i < j => place[c[i]] < place[c[j]]

LEMMA ListsNothing == ASSUME NEW place PROVE Lists(place, {}, <<>>)
BY DEF Lists

LEMMA ListsOneMore ==
    ASSUME NEW place \in [NodeId -> Nat], NEW S, NEW c, Lists(place, S, c), NEW x \in NodeId,
           \A y \in S : place[x] < place[y]
    PROVE  Lists(place, {x} \cup S, <<x>> \o c)
<1> DEFINE d == <<x>> \o c
<1>1. PICK n \in Nat : n = Len(c) /\ DOMAIN c = 1..n /\ c \in Seq(NodeId)
  BY DEF Lists
<1>2. d \in Seq(NodeId) /\ DOMAIN d = 1..(n + 1) /\ d[1] = x /\ \A i \in 1..n : d[i + 1] = c[i]
  BY <1>1
<1> HIDE DEF d
<1>3. {d[i] : i \in 1..(n + 1)} = {x} \cup S
  <2>1. \A i \in 1..(n + 1) : i = 1 \/ (i - 1 \in 1..n /\ i = (i - 1) + 1)
    OBVIOUS
  <2>2. \A i \in 1..(n + 1) : d[i] = x \/ (i - 1 \in 1..n /\ d[i] = c[i - 1])
    BY <1>2, <2>1
  <2>3. \A i \in 1..n : i + 1 \in 1..(n + 1) /\ d[i + 1] = c[i]
    BY <1>2
  <2>4. 1 \in 1..(n + 1) /\ S = {c[i] : i \in 1..n}
    <3>1. S = {c[i] : i \in DOMAIN c} /\ DOMAIN c = 1..n
      BY <1>1, Zenon DEF Lists
    <3>2. 1 \in 1..(n + 1)
      OBVIOUS
    <3> QED
      BY <3>1, <3>2, Zenon
  <2>5. ASSUME NEW y \in {x} \cup S PROVE y \in {d[i] : i \in 1..(n + 1)}
    <3>1. CASE y = x
      BY <1>2, <2>4, <3>1
    <3>2. CASE y \in S
      <4>1. PICK i \in 1..n : y = c[i]
        BY <2>4, <3>2
      <4> QED
        BY <2>3, <4>1
    <3> QED
      BY <3>1, <3>2
  <2>6. ASSUME NEW i \in 1..(n + 1) PROVE d[i] \in {x} \cup S
    BY <2>2, <2>4
  <2> QED
    BY <2>5, <2>6
<1>4. ASSUME NEW i \in 1..(n + 1), NEW j \in 1..(n + 1), i < j
      PROVE  place[d[i]] < place[d[j]]
  <2>1. j - 1 \in 1..n /\ j = (j - 1) + 1
    BY <1>4
  <2>2. d[j] = c[j - 1] /\ c[j - 1] \in S
    BY <1>1, <1>2, <2>1 DEF Lists
  <2>3. CASE i = 1
    BY <1>2, <2>2, <2>3
  <2>4. CASE i # 1
    <3>1. i - 1 \in 1..n /\ i = (i - 1) + 1 /\ i - 1 < j - 1
      BY <1>4, <2>4
    <3>2. d[i] = c[i - 1]
      BY <1>2, <3>1
    <3> QED
      BY <1>1, <2>1, <2>2, <3>1, <3>2 DEF Lists
  <2> QED
    BY <2>3, <2>4
<1> QED
  BY <1>2, <1>3, <1>4 DEF Lists, d

\* A set of nodes is listed in one way only.
LEMMA ListedOnce ==
    ASSUME NEW place \in [NodeId -> Nat], NEW S, NEW c, NEW d, Lists(place, S, c), Lists(place, S, d)
    PROVE  c = d
<1>1. PICK n \in Nat : n = Len(c) /\ DOMAIN c = 1..n /\ c \in Seq(NodeId)
  BY DEF Lists
<1>2. PICK m \in Nat : m = Len(d) /\ DOMAIN d = 1..m /\ d \in Seq(NodeId)
  BY DEF Lists
<1>3. /\ \A i \in 1..n : \E j \in 1..m : c[i] = d[j]
      /\ \A j \in 1..m : \E i \in 1..n : c[i] = d[j]
      /\ \A i \in 1..n : c[i] \in NodeId /\ place[c[i]] \in Nat
      /\ \A j \in 1..m : d[j] \in NodeId /\ place[d[j]] \in Nat
      /\ \A i, j \in 1..n : i < j => place[c[i]] < place[c[j]]
      /\ \A i, j \in 1..m : i < j => place[d[i]] < place[d[j]]
  <2>1. S = {c[i] : i \in 1..n} /\ S = {d[i] : i \in 1..m}
    BY <1>1, <1>2 DEF Lists
  <2>2. \A i \in 1..n : \E j \in 1..m : c[i] = d[j]
    BY <2>1
  <2>3. \A j \in 1..m : \E i \in 1..n : c[i] = d[j]
    BY <2>1
  <2>4. \A i \in 1..n : c[i] \in NodeId
    BY <1>1
  <2>5. \A i \in 1..m : d[i] \in NodeId
    BY <1>2
  <2>6. \A i, j \in 1..n : i < j => place[c[i]] < place[c[j]]
    BY <1>1 DEF Lists
  <2>7. \A i, j \in 1..m : i < j => place[d[i]] < place[d[j]]
    BY <1>2 DEF Lists
  <2> QED
    BY <2>2, <2>3, <2>4, <2>5, <2>6, <2>7
<1> DEFINE T == {i \in Nat : /\ i \in 1..n \/ i \in 1..m
                             /\ ~(i \in 1..n /\ i \in 1..m /\ c[i] = d[i])}
<1>4. T = {}
  <2> SUFFICES ASSUME T # {} PROVE FALSE
    OBVIOUS
  <2>1. PICK i \in T : \A j \in T : i <= j
    BY Least
  <2>2. ASSUME NEW j \in 1..(i - 1)
        PROVE  j \in 1..n /\ j \in 1..m /\ c[j] = d[j] /\ j < i
    <3>1. j \notin T /\ j \in Nat /\ j < i
      BY <2>1
    <3>2. j \in 1..n \/ j \in 1..m
      BY <2>1
    <3> QED
      BY <3>1, <3>2
  <2>3. CASE i \in 1..n /\ i \notin 1..m
    <3>1. PICK j \in 1..m : c[i] = d[j]
      BY <1>3, <2>3
    <3>2. j \in 1..(i - 1)
      BY <2>3
    <3> QED
      BY <1>3, <2>2, <2>3, <3>1, <3>2
  <2>4. CASE i \notin 1..n /\ i \in 1..m
    <3>1. PICK j \in 1..n : c[j] = d[i]
      BY <1>3, <2>4
    <3>2. j \in 1..(i - 1)
      BY <2>4
    <3> QED
      BY <1>3, <2>2, <2>4, <3>1, <3>2
  <2>5. CASE i \in 1..n /\ i \in 1..m /\ c[i] # d[i]
    <3>1. PICK j \in 1..m : c[i] = d[j]
      BY <1>3, <2>5
    <3>2. PICK k \in 1..n : c[k] = d[i]
      BY <1>3, <2>5
    <3>3. i < j
      <4>1. j < i => j \in 1..(i - 1)
        OBVIOUS
      <4>2. j < i => c[j] = c[i] /\ j \in 1..n
        BY <2>2, <3>1, <4>1
      <4> QED
        BY <1>3, <2>5, <3>1, <4>2
    <3>4. i < k
      <4>1. k < i => k \in 1..(i - 1)
        OBVIOUS
      <4>2. k < i => d[k] = d[i] /\ k \in 1..m
        BY <2>2, <3>2, <4>1
      <4> QED
        BY <1>3, <2>5, <3>2, <4>2
    <3>5. place[c[i]] < place[c[k]] /\ place[d[i]] < place[d[j]]
      BY <1>3, <2>5, <3>3, <3>4
    <3> QED
      BY <1>3, <2>5, <3>1, <3>2, <3>5
  <2> QED
    BY <2>1, <2>3, <2>4, <2>5
<1>5. n = m
  <2>1. n > 0 => n \in 1..n /\ n \in Nat
    OBVIOUS
  <2>2. m > 0 => m \in 1..m /\ m \in Nat
    OBVIOUS
  <2>3. n > 0 => n \in 1..m
    BY <1>4, <2>1
  <2>4. m > 0 => m \in 1..n
    BY <1>4, <2>2
  <2> QED
    BY <2>3, <2>4
<1>6. \A i \in 1..n : c[i] = d[i]
  BY <1>4
<1> QED
  BY <1>1, <1>2, <1>5, <1>6

\* What following the pointers of level l collects of the nodes in W.
Follows(f, l, W) ==
    \A m \in NodeId : LET r == next[m][l]
                      IN  f[m] = IF r = Null THEN <<>> ELSE (IF r \in W THEN <<r>> ELSE <<>>) \o f[r]

LEMMA FollowsExists ==
    ASSUME NEW place, Shape(place), NEW l \in Levels, NEW W
    PROVE  \E f : Follows(f, l, W)
<1> DEFINE stop == {m \in NodeId : next[m][l] = Null}
           pre == [m \in NodeId |-> IF next[m][l] \in W THEN <<next[m][l]>> ELSE <<>>]
           step == [m \in NodeId |-> IF m \in stop THEN m ELSE next[m][l]]
<1>1. \A m \in NodeId : next[m][l] # Null => next[m][l] \in NodeId /\ place[m] < place[next[m][l]]
  BY LiveIsNodes DEF Shape, Links, Data
<1>b. PICK b \in Nat : \E rank \in [NodeId -> 0..b] :
        \A x, y \in NodeId : place[x] < place[y] => rank[y] < rank[x]
  BY RightwardRank DEF Shape, Places
<1>2. PICK rank \in [NodeId -> 0..b] :
        \A x, y \in NodeId : place[x] < place[y] => rank[y] < rank[x]
  BY <1>b
<1>3. Sinks(NodeId, stop, pre, step, rank, b)
  BY <1>b, <1>1, <1>2 DEF Sinks
<1>4. PICK f : Collects(f, NodeId, stop, pre, step)
  <2> HIDE DEF stop, pre, step
  <2> QED
    BY <1>3, PrefixRecursion
<1>5. Follows(f, l, W)
  BY <1>1, <1>4 DEF Collects, Follows
<1> QED
  BY <1>5

LEMMA FollowsLists ==
    ASSUME NEW place, Shape(place), NEW l \in Levels, NEW W, NEW f, Follows(f, l, W),
           NEW n, On(l, n)
    PROVE  Lists(place, {m \in NodeId : On(l, m) /\ m \in W /\ place[n] < place[m]}, f[n])
<1> DEFINE R(x) == {m \in NodeId : On(l, m) /\ m \in W /\ place[x] < place[m]}
           T == {x \in NodeId : On(l, x) /\ ~Lists(place, R(x), f[x])}
<1>1. n \in NodeId
  BY LiveIsNodes DEF On, Shape
<1>2. place \in [NodeId -> Nat]
  BY DEF Shape, Places
<1> SUFFICES ASSUME T # {} PROVE FALSE
  BY <1>1
<1>3. PICK x \in T : \A y \in T : place[y] <= place[x]
  BY <1>2, Highest
<1> DEFINE r == next[x][l]
<1>4. CASE r = Null
  <2>1. R(x) = {}
    BY <1>3, <1>4 DEF Shape, Links
  <2>2. f[x] = <<>>
    BY <1>3, <1>4 DEF Follows
  <2> QED
    BY <1>3, <2>1, <2>2, ListsNothing
<1>5. CASE r # Null
  <2>1. On(l, r) /\ place[x] < place[r] /\ r \in NodeId
    BY <1>3, <1>5, LiveIsNodes DEF Shape, Links, On
  <2>2. f[x] = (IF r \in W THEN <<r>> ELSE <<>>) \o f[r]
    BY <1>3, <1>5 DEF Follows
  <2>3. Lists(place, R(r), f[r])
    BY <1>2, <1>3, <2>1
  <2>4. f[r] \in Seq(NodeId)
    BY <2>3 DEF Lists
  <2>5. \A m \in NodeId : On(l, m) /\ place[x] < place[m] => m = r \/ place[r] < place[m]
    <3> SUFFICES ASSUME NEW m \in NodeId, On(l, m), place[x] < place[m], m # r
                 PROVE  place[r] < place[m]
      OBVIOUS
    <3>1. place[r] <= place[m]
      BY <1>3 DEF Shape, Links
    <3>2. place[r] # place[m]
      BY <2>1 DEF Shape, Places, On
    <3> QED
      BY <1>2, <2>1, <3>1, <3>2
  <2>6. \A m \in NodeId : place[r] < place[m] => place[x] < place[m]
    BY <1>2, <1>3, <2>1
  <2>7. CASE r \in W
    <3>1. R(x) = {r} \cup R(r)
      BY <2>1, <2>5, <2>6, <2>7
    <3>2. \A y \in R(r) : place[r] < place[y]
      OBVIOUS
    <3> HIDE DEF R
    <3>3. Lists(place, {r} \cup R(r), <<r>> \o f[r])
      BY <1>2, <2>1, <2>3, <3>2, ListsOneMore
    <3> QED
      BY <1>3, <2>2, <2>7, <3>1, <3>3
  <2>8. CASE r \notin W
    <3>1. R(x) = R(r)
      BY <2>5, <2>6, <2>8
    <3>2. f[x] = f[r]
      BY <2>2, <2>4, <2>8
    <3> QED
      BY <1>3, <2>3, <3>1, <3>2
  <2> QED
    BY <2>7, <2>8
<1> QED
  BY <1>4, <1>5

\* Chain lists the nodes of a level, and NodesOf those of a key.
LEMMA ChainLists ==
    ASSUME NEW place, Shape(place), NEW l \in Levels, NEW n, On(l, n)
    PROVE  Lists(place, {m \in NodeId : On(l, m) /\ place[n] < place[m]}, Chain(n, l))
<1> DEFINE from == CHOOSE f : f = [m \in NodeId |->
                     IF next[m][l] = Null THEN <<>> ELSE <<next[m][l]>> \o f[next[m][l]]]
<1>1. PICK f : Follows(f, l, NodeId)
  BY FollowsExists
<1>2. \A m \in NodeId : next[m][l] # Null => next[m][l] \in NodeId
  BY LiveIsNodes DEF Shape, Links, Data
<1> DEFINE g == [m \in NodeId |-> f[m]]
<1>3. g = [m \in NodeId |-> IF next[m][l] = Null THEN <<>> ELSE <<next[m][l]>> \o g[next[m][l]]]
  BY <1>1, <1>2 DEF Follows
<1>4. from = [m \in NodeId |-> IF next[m][l] = Null THEN <<>> ELSE <<next[m][l]>> \o from[next[m][l]]]
  BY <1>3
<1>5. Chain(n, l) = from[n]
  BY DEF Chain
<1> HIDE DEF from, g
<1>6. Follows(from, l, NodeId)
  BY <1>2, <1>4 DEF Follows
<1>7. Lists(place, {m \in NodeId : On(l, m) /\ m \in NodeId /\ place[n] < place[m]}, from[n])
  BY <1>6, FollowsLists
<1>8. {m \in NodeId : On(l, m) /\ m \in NodeId /\ place[n] < place[m]}
         = {m \in NodeId : On(l, m) /\ place[n] < place[m]}
  OBVIOUS
<1> QED
  BY <1>5, <1>7, <1>8

LEMMA NodesOfLists ==
    ASSUME NEW place, Shape(place), NEW k \in Key
    PROVE  Lists(place, {m \in NodeId : On(1, m) /\ node[m].key = k}, NodesOf(k))
<1> DEFINE W == {m \in NodeId : node[m].key = k}
           from == CHOOSE f : f = [m \in NodeId |->
             IF next[m][1] = Null THEN <<>>
             ELSE (IF node[next[m][1]].key = k THEN <<next[m][1]>> ELSE <<>>) \o f[next[m][1]]]
<1>0. 1 \in Levels
  BY MaxLevelAssumption DEF Levels
<1>1. PICK f : Follows(f, 1, W)
  BY <1>0, FollowsExists
<1>2. \A m \in NodeId : next[m][1] # Null => next[m][1] \in NodeId
  BY <1>0, LiveIsNodes DEF Shape, Links, Data
<1> DEFINE g == [m \in NodeId |-> f[m]]
<1>3. g = [m \in NodeId |->
             IF next[m][1] = Null THEN <<>>
             ELSE (IF node[next[m][1]].key = k THEN <<next[m][1]>> ELSE <<>>) \o g[next[m][1]]]
  BY <1>1, <1>2 DEF Follows
<1>4. from = [m \in NodeId |->
             IF next[m][1] = Null THEN <<>>
             ELSE (IF node[next[m][1]].key = k THEN <<next[m][1]>> ELSE <<>>) \o from[next[m][1]]]
  BY <1>3
<1>5. NodesOf(k) = from[Header]
  BY DEF NodesOf
<1> HIDE DEF from, g
<1>6. Follows(from, 1, W)
  BY <1>2, <1>4 DEF Follows
<1>7. On(1, Header)
  <2>1. Header # target \/ ~Removing
    BY DEF Shape, Walk, Data
  <2>2. Header \in Live
    BY DEF Shape, Places
  <2>3. node[Header].level = MaxLevel
    BY <2>2, Ordered DEF Shape
  <2> QED
    BY <2>1, <2>2, <2>3, MaxLevelAssumption DEF On
<1>8. Lists(place, {m \in NodeId : On(1, m) /\ m \in W /\ place[Header] < place[m]}, from[Header])
  BY <1>0, <1>6, <1>7, FollowsLists
<1>9. ASSUME NEW m \in NodeId, On(1, m), node[m].key = k
      PROVE  place[Header] < place[m]
  <2>1. Header \in Live /\ m \in Live
    BY <1>9 DEF Shape, Places, On
  <2>2. node[Header].key = 0 /\ k > 0 /\ k \in Nat
    BY <2>1, Ordered, KeyAssumption DEF Shape
  <2>3. node[Header].key < node[m].key
    BY <1>9, <2>2
  <2> QED
    BY <2>1, <2>3, Ordered DEF Shape
<1>10. {m \in NodeId : On(1, m) /\ m \in W /\ place[Header] < place[m]}
         = {m \in NodeId : On(1, m) /\ node[m].key = k}
  BY <1>9
<1> QED
  BY <1>5, <1>8, <1>10

LEMMA ListsInjective ==
    ASSUME NEW place \in [NodeId -> Nat], NEW S, NEW c, Lists(place, S, c)
    PROVE  IsInjective(c) /\ ToSet(c) = S
<1>1. PICK n \in Nat : n = Len(c) /\ DOMAIN c = 1..n /\ c \in Seq(NodeId)
  BY DEF Lists
<1>2. ToSet(c) = S
  BY DEF Lists, ToSet
<1>3. ASSUME NEW i \in 1..n, NEW j \in 1..n, i < j
      PROVE  c[i] # c[j]
  <2>1. c[i] \in NodeId
    BY <1>1
  <2>2. place[c[i]] < place[c[j]]
    BY <1>1, <1>3 DEF Lists
  <2>3. place[c[i]] \in Nat
    BY <2>1
  <2> QED
    BY <2>2, <2>3
<1>4. \A i, j \in 1..n : c[i] = c[j] => i = j
  <2> SUFFICES ASSUME NEW i \in 1..n, NEW j \in 1..n, c[i] = c[j], i # j
               PROVE  FALSE
    OBVIOUS
  <2>1. i < j \/ j < i
    OBVIOUS
  <2> QED
    BY <1>3, <2>1
<1>5. IsInjective(c)
  BY <1>1, <1>4 DEF IsInjective
<1> QED
  BY <1>2, <1>5

LEMMA HeaderIsLinked ==
    ASSUME NEW place, Shape(place), NEW l \in Levels
    PROVE  /\ On(l, Header) /\ Header \in NodeId /\ Header \in Live
           /\ \A n \in Data : place[Header] < place[n]
<1>1. Header # target \/ ~Removing
  BY DEF Shape, Walk, Data
<1>2. Header \in Live
  BY DEF Shape, Places
<1>3. node[Header].level = MaxLevel /\ Header \in NodeId /\ node[Header].key = 0
  BY <1>2, Ordered DEF Shape
<1>4. On(l, Header)
  BY <1>1, <1>2, <1>3, MaxLevelAssumption DEF On, Levels
<1>5. ASSUME NEW n \in Data PROVE place[Header] < place[n]
  <2>1. n \in Live /\ n # Header
    BY DEF Data
  <2>2. node[Header].key < node[n].key
    BY <1>2, <1>3, <2>1, Ordered DEF Shape
  <2> QED
    BY <1>2, <2>1, <2>2, Ordered DEF Shape
<1> QED
  BY <1>2, <1>3, <1>4, <1>5

LEMMA ShapeIsSorted ==
    ASSUME NEW place, Shape(place), op = "idle"
    PROVE  LevelsAreSorted
<1>1. ~Removing
  BY DEF Removing
<1>2. ASSUME NEW l \in Levels
      PROVE  LET c == Chain(Header, l)
             IN  /\ IsInjective(c)
                 /\ ToSet(c) = {n \in Data : node[n].level >= l}
                 /\ \A i \in 1..(Len(c) - 1) : node[c[i]].key <= node[c[i + 1]].key
  <2> DEFINE c == Chain(Header, l)
             S == {m \in NodeId : On(l, m) /\ place[Header] < place[m]}
  <2>1. Lists(place, S, c)
    BY HeaderIsLinked, ChainLists
  <2>2. place \in [NodeId -> Nat] /\ Live \subseteq NodeId
    BY LiveIsNodes DEF Shape, Places
  <2> HIDE DEF c
  <2>3. S = {n \in Data : node[n].level >= l}
    <3>1. ASSUME NEW m \in S PROVE m \in Data /\ node[m].level >= l
      BY <2>2 DEF On, Data
    <3>2. ASSUME NEW m \in Data, node[m].level >= l PROVE m \in S
      BY <1>1, <2>2, <3>2, HeaderIsLinked DEF On, Data
    <3> QED
      BY <3>1, <3>2 DEF Data
  <2>4. ASSUME NEW i \in 1..(Len(c) - 1)
        PROVE  node[c[i]].key <= node[c[i + 1]].key
    <3>1. PICK n \in Nat : n = Len(c) /\ DOMAIN c = 1..n /\ c \in Seq(NodeId)
      BY <2>1 DEF Lists
    <3>2. i \in DOMAIN c /\ i + 1 \in DOMAIN c /\ i < i + 1
      BY <3>1
    <3>3. place[c[i]] < place[c[i + 1]] /\ c[i] \in S /\ c[i + 1] \in S
      BY <2>1, <3>2 DEF Lists
    <3>4. c[i] \in Live /\ c[i + 1] \in Live
      BY <3>3 DEF On
    <3> QED
      BY <3>3, <3>4 DEF Shape, Places
  <2> HIDE DEF S
  <2>5. IsInjective(c) /\ ToSet(c) = S
    BY <2>1, <2>2, ListsInjective
  <2> QED
    BY <2>3, <2>4, <2>5 DEF c
<1> QED
  BY <1>2 DEF LevelsAreSorted, Shape

-----------------------------------------------------------------------------
(* What find returns.                                                      *)

\* The rank of a node and a level of it: moving right counts more than any
\* number of levels.
LEMMA RankOfPair ==
    ASSUME NEW x \in Nat, NEW y \in Nat, NEW i \in 0..MaxLevel, NEW j \in 0..MaxLevel
    PROVE  /\ x * (MaxLevel + 1) + i \in Nat
           /\ x < y => x * (MaxLevel + 1) + i < y * (MaxLevel + 1) + j
           /\ x <= y => x * (MaxLevel + 1) + i <= y * (MaxLevel + 1) + MaxLevel
<1> DEFINE c == MaxLevel + 1
<1>1. c \in Nat /\ c > 0 /\ i \in Nat /\ j \in Nat /\ i < c /\ i <= MaxLevel /\ MaxLevel \in Nat
  BY MaxLevelAssumption
<1>2. \A u, v \in Nat : u * c \in Nat /\ (u + v) * c = u * c + v * c /\ 1 * c = c
  <2> HIDE DEF c
  <2> QED
    BY <1>1
<1> HIDE DEF c
<1>3. x < y => x * c + i < y * c + j
  <2> SUFFICES ASSUME x < y PROVE x * c + i < y * c + j
    OBVIOUS
  <2>1. PICK d \in Nat : y = x + 1 + d
    <3>1. y - x - 1 \in Nat /\ y = x + 1 + (y - x - 1)
      OBVIOUS
    <3> QED
      BY <3>1
  <2>2. y * c = x * c + c + d * c
    <3>1. x + 1 \in Nat /\ (x + 1) * c = x * c + 1 * c
      BY <1>2
    <3>2. (x + 1 + d) * c = (x + 1) * c + d * c
      BY <1>2, <3>1
    <3> QED
      BY <1>2, <2>1, <3>1, <3>2
  <2> QED
    BY <1>1, <1>2, <2>2
<1>4. x <= y => x * c + i <= y * c + MaxLevel
  <2>1. x = y \/ x < y \/ ~(x <= y)
    OBVIOUS
  <2>2. MaxLevel \in 0..MaxLevel
    BY <1>1
  <2>3. CASE x = y
    BY <1>1, <1>2, <2>3
  <2>4. CASE x < y
    BY <1>1, <1>2, <1>3, <2>4
  <2> QED
    BY <2>1, <2>3, <2>4
<1>5. x * c + i \in Nat
  BY <1>1, <1>2
<1> QED
  BY <1>3, <1>4, <1>5 DEF c

Pairs == NodeId \X (0..MaxLevel)

\* The pairs that find goes through have a rank that sinks.
LEMMA PairRank ==
    ASSUME NEW place \in [NodeId -> Nat]
    PROVE  \E b \in Nat : \E rank \in [Pairs -> 0..b] :
             /\ \A n, m \in NodeId : \A i, j \in 0..MaxLevel :
                   place[n] < place[m] => rank[<<m, i>>] < rank[<<n, j>>]
             /\ \A n \in NodeId : \A i, j \in 0..MaxLevel : i < j => rank[<<n, i>>] < rank[<<n, j>>]
<1>1. PICK b \in Nat : \A n \in NodeId : place[n] <= b
  BY Bounded
<1> DEFINE rank == [s \in Pairs |-> (b - place[s[1]]) * (MaxLevel + 1) + s[2]]
           e == b * (MaxLevel + 1) + MaxLevel
<1>2. \A n \in NodeId : place[n] \in Nat /\ b - place[n] \in Nat /\ b - place[n] <= b
  BY <1>1
<1>3. \A s \in Pairs : s[1] \in NodeId /\ s[2] \in 0..MaxLevel
  BY DEF Pairs
<1>4. \A n \in NodeId, i \in 0..MaxLevel :
          <<n, i>> \in Pairs /\ rank[<<n, i>>] = (b - place[n]) * (MaxLevel + 1) + i
  BY DEF Pairs
<1>5. e \in Nat
  BY RankOfPair, MaxLevelAssumption
<1>6. \A s \in Pairs : rank[s] \in Nat /\ rank[s] <= e
  BY <1>2, <1>3, RankOfPair
<1>7. \A n, m \in NodeId : \A i, j \in 0..MaxLevel :
          place[n] < place[m] => rank[<<m, i>>] < rank[<<n, j>>]
  <2> SUFFICES ASSUME NEW n \in NodeId, NEW m \in NodeId, NEW i \in 0..MaxLevel,
                      NEW j \in 0..MaxLevel, place[n] < place[m]
               PROVE  rank[<<m, i>>] < rank[<<n, j>>]
    OBVIOUS
  <2>1. b - place[m] < b - place[n] /\ b - place[m] \in Nat /\ b - place[n] \in Nat
    BY <1>2
  <2>2. (b - place[m]) * (MaxLevel + 1) + i < (b - place[n]) * (MaxLevel + 1) + j
    BY <2>1, RankOfPair
  <2> HIDE DEF rank
  <2> QED
    BY <1>4, <2>2
<1>8. \A n \in NodeId : \A i, j \in 0..MaxLevel : i < j => rank[<<n, i>>] < rank[<<n, j>>]
  <2> SUFFICES ASSUME NEW n \in NodeId, NEW i \in 0..MaxLevel, NEW j \in 0..MaxLevel, i < j
               PROVE  rank[<<n, i>>] < rank[<<n, j>>]
    OBVIOUS
  <2>1. (b - place[n]) * (MaxLevel + 1) + 0 \in Nat
    BY <1>2, RankOfPair, MaxLevelAssumption
  <2> DEFINE q == (b - place[n]) * (MaxLevel + 1)
  <2>2. rank[<<n, i>>] = q + i /\ rank[<<n, j>>] = q + j
    BY <1>4
  <2>3. q \in Int
    BY <1>2, MaxLevelAssumption
  <2> HIDE DEF rank, q
  <2> QED
    BY <2>2, <2>3
<1> HIDE DEF e
<1>9. rank \in [Pairs -> 0..e]
  BY <1>5, <1>6
<1> HIDE DEF rank
<1> QED
  BY <1>5, <1>7, <1>8, <1>9

LEMMA FindEquation ==
    ASSUME NEW place, Shape(place), NEW k, NEW n \in NodeId, NEW l \in 0..MaxLevel
    PROVE  LET m == next[n][l]
           IN  /\ l = 0 => FindFrom(n, l, k) = None
               /\ l # 0 /\ m # Null /\ node[m].key = k => FindFrom(n, l, k) = node[m].value
               /\ l # 0 /\ m # Null /\ node[m].key # k /\ node[m].key < k =>
                    FindFrom(n, l, k) = FindFrom(m, node[m].level, k)
               /\ l # 0 /\ (m = Null \/ (node[m].key # k /\ ~(node[m].key < k))) =>
                    FindFrom(n, l, k) = FindFrom(n, l - 1, k)
<1> DEFINE to(s) == next[s[1]][s[2]]
           stop == {s \in Pairs : s[2] = 0 \/ (to(s) # Null /\ node[to(s)].key = k)}
           val == [s \in Pairs |-> IF s[2] = 0 THEN None ELSE node[to(s)].value]
           step == [s \in Pairs |->
                      IF s \in stop THEN s
                      ELSE IF to(s) # Null /\ node[to(s)].key < k THEN <<to(s), node[to(s)].level>>
                      ELSE <<s[1], s[2] - 1>>]
           from == CHOOSE f : f = [s \in Pairs |->
                      LET m == next[s[1]][s[2]]
                      IN  IF s[2] = 0 THEN None
                          ELSE IF m # Null /\ node[m].key = k THEN node[m].value
                          ELSE IF m # Null /\ node[m].key < k THEN f[<<m, node[m].level>>]
                          ELSE f[<<s[1], s[2] - 1>>]]
<1>1. \A x \in NodeId : \A i \in Levels : next[x][i] # Null =>
          /\ next[x][i] \in NodeId /\ place[x] < place[next[x][i]]
          /\ node[next[x][i]].level \in 0..MaxLevel
  <2> SUFFICES ASSUME NEW x \in NodeId, NEW i \in Levels, next[x][i] # Null
               PROVE  /\ next[x][i] \in NodeId /\ place[x] < place[next[x][i]]
                      /\ node[next[x][i]].level \in 0..MaxLevel
    OBVIOUS
  <2>1. next[x][i] \in Live /\ place[x] < place[next[x][i]]
    BY DEF Shape, Links, Data
  <2>2. next[x][i] \in NodeId /\ node[next[x][i]].level \in Levels
    BY <2>1, Ordered DEF Shape
  <2>3. Levels \subseteq 0..MaxLevel
    BY MaxLevelAssumption DEF Levels
  <2> QED
    BY <2>1, <2>2, <2>3
<1>2. \A s \in Pairs : /\ s[1] \in NodeId /\ s[2] \in 0..MaxLevel /\ s = <<s[1], s[2]>>
                       /\ s[2] # 0 => s[2] \in Levels /\ s[2] - 1 \in 0..MaxLevel /\ s[2] - 1 < s[2]
  BY MaxLevelAssumption DEF Pairs, Levels
<1>b. PICK b \in Nat : \E rank \in [Pairs -> 0..b] :
             /\ \A x, y \in NodeId : \A i, j \in 0..MaxLevel :
                   place[x] < place[y] => rank[<<y, i>>] < rank[<<x, j>>]
             /\ \A x \in NodeId : \A i, j \in 0..MaxLevel : i < j => rank[<<x, i>>] < rank[<<x, j>>]
  BY PairRank DEF Shape, Places
<1>3. PICK rank \in [Pairs -> 0..b] :
             /\ \A x, y \in NodeId : \A i, j \in 0..MaxLevel :
                   place[x] < place[y] => rank[<<y, i>>] < rank[<<x, j>>]
             /\ \A x \in NodeId : \A i, j \in 0..MaxLevel : i < j => rank[<<x, i>>] < rank[<<x, j>>]
  BY <1>b
<1>4. \A s \in Pairs : s \notin stop => step[s] \in Pairs /\ rank[step[s]] < rank[s]
  <2> SUFFICES ASSUME NEW s \in Pairs, s \notin stop
               PROVE  step[s] \in Pairs /\ rank[step[s]] < rank[s]
    OBVIOUS
  <2>1. s[2] # 0 /\ s[2] \in Levels
    BY <1>2
  <2>2. CASE to(s) # Null /\ node[to(s)].key < k
    <3>1. step[s] = <<to(s), node[to(s)].level>>
      BY <2>2
    <3>2. to(s) \in NodeId /\ place[s[1]] < place[to(s)] /\ node[to(s)].level \in 0..MaxLevel
      BY <1>1, <1>2, <2>1, <2>2
    <3>3. rank[<<to(s), node[to(s)].level>>] < rank[<<s[1], s[2]>>]
      BY <1>2, <1>3, <3>2
    <3> QED
      BY <1>2, <3>1, <3>2, <3>3 DEF Pairs
  <2>3. CASE ~(to(s) # Null /\ node[to(s)].key < k)
    <3>1. step[s] = <<s[1], s[2] - 1>>
      BY <2>3
    <3>2. rank[<<s[1], s[2] - 1>>] < rank[<<s[1], s[2]>>]
      BY <1>2, <1>3, <2>1
    <3> QED
      BY <1>2, <2>1, <3>1, <3>2 DEF Pairs
  <2> QED
    BY <2>2, <2>3
<1>5. Sinks(Pairs, stop, val, step, rank, b)
  <2>1. \A s \in Pairs : s \in stop => step[s] = s
    OBVIOUS
  <2>2. \A s \in Pairs : step[s] \in Pairs
    BY <1>4, <2>1
  <2>3. DOMAIN val = Pairs /\ DOMAIN step = Pairs
    OBVIOUS
  <2>4. step = [s \in Pairs |-> step[s]]
    OBVIOUS
  <2> HIDE DEF stop, val, step
  <2>5. step \in [Pairs -> Pairs]
    BY <2>2, <2>4
  <2> QED
    BY <1>b, <1>3, <1>4, <2>3, <2>5 DEF Sinks
<1>6. PICK f : Stops(f, Pairs, stop, val, step)
  <2> HIDE DEF stop, val, step
  <2> QED
    BY <1>5, TailRecursion
<1> DEFINE body(f1, s) == LET m == next[s[1]][s[2]]
                          IN  IF s[2] = 0 THEN None
                              ELSE IF m # Null /\ node[m].key = k THEN node[m].value
                              ELSE IF m # Null /\ node[m].key < k THEN f1[<<m, node[m].level>>]
                              ELSE f1[<<s[1], s[2] - 1>>]
           g == [s \in Pairs |-> f[s]]
<1>7. \A s \in Pairs : f[s] = body(g, s)
  <2> SUFFICES ASSUME NEW s \in Pairs PROVE f[s] = body(g, s)
    OBVIOUS
  <2>1. CASE s \in stop
    BY <1>6, <2>1 DEF Stops
  <2>2. CASE s \notin stop
    <3>1. f[s] = f[step[s]] /\ step[s] \in Pairs
      BY <1>4, <1>6, <2>2 DEF Stops
    <3>2. f[s] = g[step[s]]
      BY <3>1
    <3> HIDE DEF g
    <3> QED
      BY <2>2, <3>2
  <2> QED
    BY <2>1, <2>2
<1>8. g = [s \in Pairs |-> body(g, s)]
  <2>1. \A s \in Pairs : g[s] = body(g, s)
    BY <1>7
  <2> HIDE DEF body
  <2>2. [s \in Pairs |-> f[s]] = [s \in Pairs |-> body(g, s)]
    BY <1>7
  <2> QED
    BY <2>2
<1> HIDE DEF g
<1>9. from = [s \in Pairs |-> body(from, s)]
  BY <1>8
<1>10. \A x \in NodeId, i \in 0..MaxLevel : FindFrom(x, i, k) = from[<<x, i>>]
  BY DEF FindFrom, Pairs
<1> HIDE DEF from
<1>11. \A s \in Pairs : from[s] = body(from, s)
  <2> HIDE DEF body
  <2> QED
    BY <1>9
<1>12. <<n, l>> \in Pairs /\ <<n, l>>[1] = n /\ <<n, l>>[2] = l
  BY DEF Pairs
<1>13. FindFrom(n, l, k) = body(from, <<n, l>>)
  BY <1>10, <1>11, <1>12
<1>14. l # 0 => l \in Levels /\ l - 1 \in 0..MaxLevel
  BY MaxLevelAssumption DEF Levels
<1>15. /\ l # 0 /\ next[n][l] # Null =>
             FindFrom(next[n][l], node[next[n][l]].level, k) = from[<<next[n][l], node[next[n][l]].level>>]
       /\ l # 0 => FindFrom(n, l - 1, k) = from[<<n, l - 1>>]
  BY <1>1, <1>10, <1>14
<1> QED
  BY <1>12, <1>13, <1>15

\* h is the first of the highest nodes of key k.
TopNode(place, k, h) ==
    /\ h \in Data /\ node[h].key = k
    /\ \A m \in Data : node[m].key = k =>
          \/ node[m].level < node[h].level
          \/ node[m].level = node[h].level /\ place[h] <= place[m]

Finds(place, k, v) ==
    /\ (\A m \in Data : node[m].key # k) => v = None
    /\ \A h : TopNode(place, k, h) => v = node[h].value

\* The pairs find may come to: before the key, and no node of it is higher.
Before(k, n, l) ==
    /\ n \in Live /\ node[n].key < k /\ l \in 0..MaxLevel /\ l <= node[n].level
    /\ \A m \in Data : node[m].key = k => node[m].level <= l

LEMMA FindFromFinds ==
    ASSUME NEW place, Shape(place), op = "idle", NEW k \in Nat \ {0}, NEW n, NEW l, Before(k, n, l)
    PROVE  Finds(place, k, FindFrom(n, l, k))
<1>1. place \in [NodeId -> Nat]
  BY DEF Shape, Places
<1>b. PICK b \in Nat : \E rank \in [Pairs -> 0..b] :
             /\ \A x, y \in NodeId : \A i, j \in 0..MaxLevel :
                   place[x] < place[y] => rank[<<y, i>>] < rank[<<x, j>>]
             /\ \A x \in NodeId : \A i, j \in 0..MaxLevel : i < j => rank[<<x, i>>] < rank[<<x, j>>]
  BY <1>1, PairRank
<1>2. PICK rank \in [Pairs -> 0..b] :
             /\ \A x, y \in NodeId : \A i, j \in 0..MaxLevel :
                   place[x] < place[y] => rank[<<y, i>>] < rank[<<x, j>>]
             /\ \A x \in NodeId : \A i, j \in 0..MaxLevel : i < j => rank[<<x, i>>] < rank[<<x, j>>]
  BY <1>b
<1> DEFINE Bad(x, i) == Before(k, x, i) /\ ~Finds(place, k, FindFrom(x, i, k))
           T == {rank[s] : s \in {t \in Pairs : Bad(t[1], t[2])}}
<1>3. \A x, i : Before(k, x, i) => <<x, i>> \in Pairs /\ x \in NodeId /\ i \in 0..MaxLevel
  BY Ordered DEF Before, Pairs, Shape
<1>4. \A x, i : Bad(x, i) => rank[<<x, i>>] \in T
  <2> SUFFICES ASSUME NEW x, NEW i, Bad(x, i) PROVE rank[<<x, i>>] \in T
    OBVIOUS
  <2> DEFINE s == <<x, i>>
  <2>1. s \in Pairs /\ s[1] = x /\ s[2] = i
    BY <1>3
  <2> HIDE DEF s
  <2>2. rank[s] \in T
    BY <2>1
  <2> QED
    BY <2>2 DEF s
<1>5. T \subseteq Nat
  BY <1>b, <1>2
<1> SUFFICES ASSUME T # {} PROVE FALSE
  BY <1>4
<1>6. PICK d \in T : \A e \in T : d <= e
  BY <1>5, Least
<1>7. PICK s \in Pairs : Bad(s[1], s[2]) /\ rank[s] = d
  BY <1>6
<1>8. PICK x \in NodeId, i \in 0..MaxLevel : Bad(x, i) /\ rank[<<x, i>>] = d
  <2>1. s = <<s[1], s[2]>> /\ s[1] \in NodeId /\ s[2] \in 0..MaxLevel
    BY DEF Pairs
  <2> QED
    BY <1>7, <2>1
<1>9. \A y, j : Before(k, y, j) /\ rank[<<y, j>>] < d => Finds(place, k, FindFrom(y, j, k))
  <2> SUFFICES ASSUME NEW y, NEW j, Before(k, y, j), rank[<<y, j>>] < d, Bad(y, j)
               PROVE  FALSE
    OBVIOUS
  <2>1. rank[<<y, j>>] \in T
    BY <1>4
  <2> DEFINE r == rank[<<y, j>>]
  <2>2. r \in T /\ r < d
    BY <2>1
  <2> HIDE DEF r, T
  <2>3. r \in Nat /\ d \in Nat /\ d <= r
    BY <1>5, <1>6, <2>2
  <2> QED
    BY <2>2, <2>3
<1> DEFINE m == next[x][i]
<1>10. \A y \in Live : node[y].key \in Nat /\ node[y].level \in Levels /\ node[y].level \in Nat
                       /\ place[y] \in Nat /\ y \in NodeId
  BY Ordered DEF Shape
<1>11. ~Removing
  BY DEF Removing
<1>12. CASE i = 0
  <2>1. FindFrom(x, i, k) = None
    BY <1>12, FindEquation
  <2>2. \A y \in Data : node[y].key # k
    <3> SUFFICES ASSUME NEW y \in Data, node[y].key = k PROVE FALSE
      OBVIOUS
    <3>1. node[y].level <= 0 /\ y \in Live
      BY <1>8, <1>12 DEF Before, Data
    <3> QED
      BY <1>10, <3>1 DEF Levels
  <2> QED
    BY <1>8, <2>1, <2>2 DEF Finds, TopNode
<1>13. CASE i # 0
  <2>1. i \in Levels /\ i - 1 \in 0..MaxLevel /\ x \in Live /\ node[x].key < k /\ i \in Nat
    BY <1>8, <1>13, MaxLevelAssumption DEF Before, Levels
  <2>2. On(i, x)
    BY <1>8, <1>10, <1>11, <2>1 DEF On, Before
  <2>3. ASSUME NEW y \in Data, node[y].key = k, node[y].level >= i
        PROVE  On(i, y) /\ m # Null /\ place[m] <= place[y] /\ place[x] < place[y] /\ y \in Live
    <3>1. y \in Live
      BY DEF Data
    <3>2. On(i, y)
      BY <1>11, <2>3, <3>1 DEF On
    <3>3. place[x] < place[y]
      BY <2>1, <2>3, <3>1, Ordered DEF Shape
    <3> QED
      BY <1>10, <2>1, <2>2, <3>1, <3>2, <3>3 DEF Shape, Links
  <2>4. m # Null => On(i, m) /\ place[x] < place[m] /\ m \in Data /\ m \in Live /\ node[m].level >= i
    BY <2>1, <2>2, <1>8 DEF Shape, Links, On, Data
  <2>5. CASE m # Null /\ node[m].key = k
    <3>1. FindFrom(x, i, k) = node[m].value
      BY <1>8, <1>13, <2>5, FindEquation
    <3>2. node[m].level = i
      <4>1. node[m].level <= i
        BY <1>8, <2>4, <2>5 DEF Before
      <4> QED
        BY <1>10, <2>1, <2>4, <2>5, <4>1
    <3>3. ASSUME NEW h, TopNode(place, k, h) PROVE h = m
      <4>1. h \in Data /\ h \in Live /\ node[h].key = k
        BY <3>3 DEF TopNode, Data
      <4>2. \/ node[m].level < node[h].level
            \/ node[m].level = node[h].level /\ place[h] <= place[m]
        BY <2>4, <2>5, <3>3 DEF TopNode
      <4>3. node[h].level <= i
        BY <1>8, <4>1 DEF Before
      <4>4. node[h].level = i /\ place[h] <= place[m]
        BY <1>10, <2>1, <3>2, <4>1, <4>2, <4>3
      <4>5. place[m] <= place[h]
        BY <1>10, <2>1, <2>3, <4>1, <4>4
      <4>6. place[m] = place[h]
        BY <1>10, <2>4, <2>5, <4>1, <4>4, <4>5
      <4> QED
        BY <2>4, <2>5, <4>1, <4>6 DEF Shape, Places
    <3>4. Finds(place, k, node[m].value)
      BY <2>4, <2>5, <3>3 DEF Finds
    <3> QED
      BY <1>8, <3>1, <3>4
  <2>6. CASE m # Null /\ node[m].key # k /\ node[m].key < k
    <3>1. FindFrom(x, i, k) = FindFrom(m, node[m].level, k)
      BY <1>8, <1>13, <2>6, FindEquation
    <3>2. node[m].level \in 0..MaxLevel
      BY <1>10, <2>4, <2>6, MaxLevelAssumption DEF Levels
    <3>3. ASSUME NEW y \in Data, node[y].key = k PROVE node[y].level <= node[m].level
      <4>1. node[y].level <= i /\ y \in Live
        BY <1>8, <3>3 DEF Before, Data
      <4> QED
        BY <1>10, <2>1, <2>4, <2>6, <4>1
    <3>4. Before(k, m, node[m].level)
      BY <1>10, <2>4, <2>6, <3>2, <3>3 DEF Before
    <3>5. rank[<<m, node[m].level>>] < d
      BY <1>2, <1>8, <1>10, <2>4, <2>6, <3>2
    <3> QED
      BY <1>8, <1>9, <3>1, <3>4, <3>5
  <2>7. CASE m = Null \/ (node[m].key # k /\ ~(node[m].key < k))
    <3>1. FindFrom(x, i, k) = FindFrom(x, i - 1, k)
      BY <1>8, <1>13, <2>7, FindEquation
    <3>2. ASSUME NEW y \in Data, node[y].key = k PROVE node[y].level <= i - 1
      <4>1. node[y].level <= i /\ y \in Live
        BY <1>8, <3>2 DEF Before, Data
      <4>2. ~(node[y].level >= i)
        <5> SUFFICES ASSUME node[y].level >= i PROVE FALSE
          OBVIOUS
        <5>1. m # Null /\ place[m] <= place[y]
          BY <2>3, <3>2
        <5>2. node[m].key <= node[y].key
          BY <2>4, <4>1, <5>1, Ordered DEF Shape
        <5> QED
          BY <1>10, <2>4, <2>7, <3>2, <5>1, <5>2
      <4> QED
        BY <1>10, <2>1, <4>1, <4>2
    <3>3. i - 1 <= node[x].level
      BY <1>8, <1>10, <2>1 DEF Before
    <3>4. Before(k, x, i - 1)
      BY <2>1, <3>2, <3>3 DEF Before
    <3>5. rank[<<x, i - 1>>] < d
      BY <1>2, <1>8, <2>1
    <3> QED
      BY <1>8, <1>9, <3>1, <3>4, <3>5
  <2> QED
    BY <2>5, <2>6, <2>7
<1> QED
  BY <1>12, <1>13

LEMMA FindFinds ==
    ASSUME NEW place, Shape(place), op = "idle", NEW k \in Nat \ {0}
    PROVE  Finds(place, k, Find(k))
<1>1. Header \in Live
  BY DEF Shape, Places
<1>2. node[Header].key = 0 /\ node[Header].level = MaxLevel
  BY <1>1, Ordered DEF Shape
<1>3. MaxLevel \in 0..MaxLevel /\ MaxLevel \in Nat /\ MaxLevel <= MaxLevel
  BY MaxLevelAssumption
<1>4. \A m \in Data : node[m].level <= MaxLevel
  BY Ordered DEF Shape, Data, Levels
<1>5. Before(k, Header, MaxLevel)
  BY <1>1, <1>2, <1>3, <1>4 DEF Before
<1> QED
  BY <1>5, FindFromFinds DEF Find

LEMMA ShapeFindsNewest ==
    ASSUME NEW place, Shape(place), op = "idle"
    PROVE  FindReturnsNewestOfHighest
<1> SUFFICES ASSUME NEW k \in Key
             PROVE  LET ns  == NodesOf(k)
                        top == {i \in DOMAIN ns : \A j \in DOMAIN ns : node[ns[j]].level <= node[ns[i]].level}
                    IN  Find(k) = IF ns = <<>> THEN None ELSE node[ns[Min(top)]].value
  BY DEF FindReturnsNewestOfHighest
<1> DEFINE ns == NodesOf(k)
           top == {i \in DOMAIN ns : \A j \in DOMAIN ns : node[ns[j]].level <= node[ns[i]].level}
           K == {m \in Data : node[m].key = k}
<1>1. place \in [NodeId -> Nat] /\ k \in Nat \ {0} /\ ~Removing
  BY KeyAssumption DEF Shape, Places, Removing
<1>2. \A y \in Live : node[y].level \in Levels /\ node[y].level \in Nat /\ place[y] \in Nat /\ y \in NodeId
  BY Ordered DEF Shape
<1>3. {m \in NodeId : On(1, m) /\ node[m].key = k} = K
  <2>1. ASSUME NEW m \in NodeId, On(1, m), node[m].key = k PROVE m \in K
    <3>1. node[Header].key = 0 /\ m \in Live
      BY <2>1, HeaderIsLinked, Ordered DEF On, Shape, Places
    <3> QED
      BY <1>1, <2>1, <3>1 DEF Data
  <2>2. ASSUME NEW m \in K PROVE m \in NodeId /\ On(1, m) /\ node[m].key = k
    <3>1. m \in Live
      BY DEF Data
    <3>2. node[m].level >= 1
      BY <1>2, <3>1 DEF Levels
    <3> QED
      BY <1>1, <1>2, <3>1, <3>2 DEF On
  <2> QED
    BY <2>1, <2>2
<1>4. Lists(place, K, ns)
  BY <1>3, NodesOfLists
<1>5. Finds(place, k, Find(k))
  BY <1>1, FindFinds
<1> HIDE DEF ns
<1>6. PICK n \in Nat : n = Len(ns) /\ DOMAIN ns = 1..n /\ ns \in Seq(NodeId)
  BY <1>4 DEF Lists
<1>7. K = {ns[i] : i \in 1..n}
  BY <1>4, <1>6 DEF Lists
<1>8. CASE ns = <<>>
  <2>1. K = {}
    BY <1>6, <1>7, <1>8
  <2> QED
    BY <1>5, <1>8, <2>1 DEF Finds, ns
<1>9. CASE ns # <<>>
  <2>1. n > 0 /\ ns[1] \in K
    BY <1>6, <1>7, <1>9
  <2> DEFINE D == {MaxLevel - node[m].level : m \in K}
  <2>2. D \subseteq Nat /\ D # {}
    <3>1. \A m \in K : MaxLevel - node[m].level \in Nat
      BY <1>2, MaxLevelAssumption DEF Levels, Data
    <3> QED
      BY <2>1, <3>1
  <2>3. PICK d \in D : \A e \in D : d <= e
    BY <2>2, Least
  <2>4. PICK t \in K : d = MaxLevel - node[t].level
    BY <2>3
  <2>5. \A m \in K : node[m].level <= node[t].level
    <3> SUFFICES ASSUME NEW m \in K PROVE node[m].level <= node[t].level
      OBVIOUS
    <3>1. MaxLevel - node[t].level <= MaxLevel - node[m].level
      BY <2>3, <2>4
    <3>2. node[m].level \in Nat /\ node[t].level \in Nat
      BY <1>2 DEF Data
    <3> QED
      BY <3>1, <3>2, MaxLevelAssumption
  <2>6. PICK i0 \in 1..n : t = ns[i0]
    BY <1>7
  <2>7. i0 \in top
    BY <1>6, <1>7, <2>5, <2>6
  <2>8. top \subseteq Nat /\ top # {}
    BY <1>6, <2>7
  <2> DEFINE q == Min(top)
  <2>9. q \in top /\ \A j \in top : q <= j
    BY <2>8, LeastIsMin
  <2> HIDE DEF q
  <2>10. q \in 1..n /\ ns[q] \in K /\ \A j \in 1..n : node[ns[j]].level <= node[ns[q]].level
    BY <1>6, <1>7, <2>9
  <2>11. ASSUME NEW m \in K, node[m].level = node[ns[q]].level
         PROVE  place[ns[q]] <= place[m]
    <3>1. PICK j \in 1..n : m = ns[j]
      BY <1>7
    <3>2. j \in top
      BY <1>6, <2>10, <2>11, <3>1
    <3>3. q <= j /\ q \in DOMAIN ns /\ j \in DOMAIN ns /\ (q < j \/ q = j)
      BY <1>6, <2>9, <2>10, <3>2
    <3>4. place[ns[q]] \in Nat /\ place[ns[j]] \in Nat
      BY <1>2, <1>7, <2>10 DEF Data
    <3>5. CASE q < j
      <4>1. place[ns[q]] < place[ns[j]]
        BY <1>4, <3>3, <3>5 DEF Lists
      <4> QED
        BY <3>1, <3>4, <4>1
    <3>6. CASE q = j
      BY <3>1, <3>4, <3>6
    <3> QED
      BY <3>3, <3>5, <3>6
  <2>12. TopNode(place, k, ns[q])
    <3>1. ns[q] \in Data /\ node[ns[q]].key = k
      BY <2>10
    <3>2. ASSUME NEW m \in Data, node[m].key = k
          PROVE  \/ node[m].level < node[ns[q]].level
                 \/ node[m].level = node[ns[q]].level /\ place[ns[q]] <= place[m]
      <4>1. m \in K
        BY <3>2
      <4>2. node[m].level <= node[ns[q]].level
        <5>1. PICK j \in 1..n : m = ns[j]
          BY <1>7, <4>1
        <5> QED
          BY <2>10, <5>1
      <4>3. node[m].level \in Nat /\ node[ns[q]].level \in Nat
        BY <1>2, <3>1 DEF Data
      <4> QED
        BY <2>11, <4>1, <4>2, <4>3
    <3> QED
      BY <3>1, <3>2 DEF TopNode
  <2>13. Find(k) = node[ns[q]].value
    BY <1>5, <2>12 DEF Finds
  <2> QED
    BY <1>9, <2>13 DEF ns, q
<1> QED
  BY <1>8, <1>9

-----------------------------------------------------------------------------
(* insert.                                                                 *)

\* The numbers of the nodes once new is linked behind p.
Inserted(place, new, p) == [n \in NodeId |-> IF n = new THEN 2 * place[p] + 1 ELSE 2 * place[n]]

\* What insert does, with p the nodes the descent leaves the levels at.
Inserts(k, v, new, p, h) ==
    /\ h \in Levels /\ new \in NodeId /\ new \notin Live /\ new # Header
    /\ \A l \in Levels : p[l] = Previous(l, k)
    /\ node' = [node EXCEPT ![new] = [key |-> k, value |-> v, level |-> h]]
    /\ next' = [n \in NodeId |-> [l \in Levels |->
                  IF n = new THEN IF l \in 1..h THEN next[p[l]][l] ELSE Null
                  ELSE IF l \in 1..h /\ n = p[l] THEN new ELSE next[n][l]]]
    /\ genAt' \in 0..MaxLevel
    /\ nodes' = Append(nodes, new)
    /\ op = "idle"
    /\ UNCHANGED <<op, level, previous, target, fault>>

LEMMA InsertInserts ==
    ASSUME SLTypeOK, NEW k \in Key, NEW v \in Value, Insert(k, v)
    PROVE  \E new, p, h : new = Min(FreshIds) /\ Inserts(k, v, new, p, h)
<1>1. PICK h \in ComputeLevel :
         LET new == Min(FreshIds)
             linked == 1..h
         IN  /\ node' = [node EXCEPT ![new] = [key |-> k, value |-> v,
                                               level |-> h]]
             /\ next' = [n \in NodeId |-> [l \in Levels |->
                           IF n = new
                           THEN IF l \in linked
                                THEN next[Previous(l, k)][l] ELSE Null
                           ELSE IF l \in linked /\ n = Previous(l, k)
                                THEN new ELSE next[n][l]]]
             /\ genAt' = IF GenLevel = 0 THEN genAt ELSE h
             /\ nodes' = Append(nodes, new)
  BY DEF Insert
<1>2. FreshIds # {} /\ op = "idle" /\ UNCHANGED <<op, level, previous, target, fault>>
  BY DEF Insert
<1>3. h \in Levels /\ genAt' \in 0..MaxLevel
  <2>1. genAt \in 0..MaxLevel
    BY DEF SLTypeOK
  <2>2. CASE GenLevel = 0
    BY <1>1, <2>1, <2>2 DEF ComputeLevel
  <2>3. CASE GenLevel # 0
    <3>1. h = (genAt % GenLevel) + 1 /\ genAt' = h
      BY <1>1, <2>3 DEF ComputeLevel
    <3>2. genAt % GenLevel \in 0..(GenLevel - 1)
      BY <2>1, <2>3, GenLevelAssumption, MaxLevelAssumption
    <3> QED
      BY <2>3, <3>1, <3>2, GenLevelAssumption, MaxLevelAssumption DEF Levels
  <2> QED
    BY <2>2, <2>3
<1>4. PICK new : new = Min(FreshIds)
  OBVIOUS
<1>5. new \in NodeId /\ new \notin Live /\ new # Header
  <2>1. FreshIds \subseteq Nat
    BY DEF FreshIds
  <2>2. new \in FreshIds
    BY <1>2, <1>4, <2>1, LeastIsMin
  <2> QED
    BY <2>2, MaxNodesAssumption DEF FreshIds, Live, NodeId, Header
<1>6. PICK p : p = [l \in Levels |-> Previous(l, k)]
  OBVIOUS
<1>7. \A l \in Levels : p[l] = Previous(l, k)
  BY <1>6
<1>8. next' = [n \in NodeId |-> [l \in Levels |->
                  IF n = new THEN IF l \in 1..h THEN next[p[l]][l] ELSE Null
                  ELSE IF l \in 1..h /\ n = p[l] THEN new ELSE next[n][l]]]
  BY <1>1, <1>4, <1>7
<1>9. /\ node' = [node EXCEPT ![new] = [key |-> k, value |-> v, level |-> h]]
      /\ nodes' = Append(nodes, new)
  BY <1>1, <1>4
<1>10. Inserts(k, v, new, p, h)
  BY <1>2, <1>3, <1>5, <1>7, <1>8, <1>9 DEF Inserts
<1> QED
  BY <1>4, <1>10

\* Where the new node is: after the smaller nodes, before all others.
LEMMA InsertPlaces ==
    ASSUME NEW place, Shape(place), NEW k \in Key, NEW v \in Value, NEW new, NEW p, NEW h,
           Inserts(k, v, new, p, h), NEW q, q = Inserted(place, new, p[1])
    PROVE  /\ q \in [NodeId -> Nat]
           /\ Live' = Live \cup {new}
           /\ node' = [node EXCEPT ![new] = [key |-> k, value |-> v, level |-> h]]
           /\ \A n, m \in Live : (q[n] < q[m] <=> place[n] < place[m]) /\ (q[n] = q[m] => n = m)
           /\ \A n \in Live : /\ q[n] # q[new]
                              /\ q[n] < q[new] <=> node[n].key < k
                              /\ q[n] < q[new] <=> ~(q[new] < q[n])
           /\ \A l \in Levels : /\ On(l, p[l]) /\ p[l] \in NodeId /\ p[l] \in Live /\ node[p[l]].key < k
                                /\ \A n : On(l, n) => (node[n].key < k <=> place[n] <= place[p[l]])
           /\ \A l \in Levels : \A n : On(l, n)' <=> On(l, n) \/ (n = new /\ l <= h)
           /\ \A l \in Levels : \A n : On(l, n) <=> n \in Live /\ node[n].level >= l
<1>1. place \in [NodeId -> Nat] /\ Live \subseteq NodeId /\ k \in Nat \ {0} /\ SLTypeOK
  BY LiveIsNodes, KeyAssumption DEF Shape, Places
<1>2. /\ h \in Levels /\ h \in Nat /\ new \in NodeId /\ new \notin Live /\ ~Removing /\ ~Removing' /\ 1 \in Levels
      /\ node' = [node EXCEPT ![new] = [key |-> k, value |-> v, level |-> h]]
  BY MaxLevelAssumption DEF Inserts, Removing, Levels
<1>3. Live' = Live \cup {new}
  <2>1. PICK n \in Nat : n = Len(nodes) /\ nodes \in Seq(NodeId) /\ DOMAIN nodes = 1..n
    BY DEF Shape, SLTypeOK
  <2>2. nodes' = Append(nodes, new)
    BY DEF Inserts
  <2>3. DOMAIN nodes' = 1..(n + 1) /\ nodes'[n + 1] = new /\ \A i \in 1..n : nodes'[i] = nodes[i]
    BY <1>2, <2>1, <2>2
  <2>4. \A i \in 1..(n + 1) : i \in 1..n \/ i = n + 1
    OBVIOUS
  <2>5. n + 1 \in 1..(n + 1) /\ \A i \in 1..n : i \in 1..(n + 1)
    OBVIOUS
  <2>6. Live = {nodes[i] : i \in 1..n} /\ Live' = {nodes'[i] : i \in 1..(n + 1)}
    BY <2>1, <2>3 DEF Live
  <2>7. ASSUME NEW x \in Live' PROVE x \in Live \cup {new}
    <3>1. PICK i \in 1..(n + 1) : x = nodes'[i]
      BY <2>6
    <3> QED
      BY <2>3, <2>4, <2>6, <3>1
  <2>8. ASSUME NEW x \in Live \cup {new} PROVE x \in Live'
    <3>1. CASE x = new
      BY <2>3, <2>5, <2>6, <3>1
    <3>2. CASE x \in Live
      <4>1. PICK i \in 1..n : x = nodes[i]
        BY <2>6, <3>2
      <4> QED
        BY <2>3, <2>5, <2>6, <4>1
    <3> QED
      BY <3>1, <3>2
  <2> QED
    BY <2>7, <2>8
<1>4. \A l \in Levels : /\ On(l, p[l]) /\ p[l] \in NodeId /\ p[l] \in Live /\ node[p[l]].key < k
                        /\ \A n : On(l, n) => (node[n].key < k <=> place[n] <= place[p[l]])
  <2> SUFFICES ASSUME NEW l \in Levels
               PROVE  /\ On(l, p[l]) /\ p[l] \in NodeId /\ p[l] \in Live /\ node[p[l]].key < k
                      /\ \A n : On(l, n) => (node[n].key < k <=> place[n] <= place[p[l]])
    OBVIOUS
  <2>1. LastBelow(place, l, k, p[l]) /\ p[l] \in NodeId
    BY <1>1, PreviousIsLast DEF Inserts
  <2>2. On(l, p[l]) /\ p[l] \in Live /\ node[p[l]].key < k
    BY <2>1 DEF LastBelow, On
  <2>3. ASSUME NEW n, On(l, n)
        PROVE  node[n].key < k <=> place[n] <= place[p[l]]
    <3>1. n \in Live /\ n \in NodeId
      BY <1>1, <2>3 DEF On
    <3>2. node[n].key < k => place[n] <= place[p[l]]
      BY <2>1, <2>3, <3>1 DEF LastBelow
    <3>3. place[n] <= place[p[l]] => node[n].key <= node[p[l]].key
      BY <2>2, <3>1, Ordered DEF Shape
    <3>4. node[n].key \in Nat /\ node[p[l]].key \in Nat
      BY <2>2, <3>1, Ordered DEF Shape
    <3> QED
      BY <1>1, <2>2, <3>2, <3>3, <3>4
  <2> QED
    BY <2>1, <2>2, <2>3
<1>5. \A n \in NodeId : place[n] \in Nat /\ (n # new => q[n] = 2 * place[n])
  BY <1>1 DEF Inserted
<1>6. q[new] = 2 * place[p[1]] + 1 /\ place[p[1]] \in Nat
  BY <1>1, <1>2, <1>4 DEF Inserted
<1>7. q \in [NodeId -> Nat]
  BY <1>2, <1>4, <1>5, <1>6 DEF Inserted
<1>8. \A n \in Live : n \in NodeId /\ n # new /\ place[n] \in Nat /\ q[n] = 2 * place[n]
  BY <1>1, <1>2, <1>5
<1>9. \A n, m \in Live : (q[n] < q[m] <=> place[n] < place[m]) /\ (q[n] = q[m] => n = m)
  <2> SUFFICES ASSUME NEW n \in Live, NEW m \in Live
               PROVE  (q[n] < q[m] <=> place[n] < place[m]) /\ (q[n] = q[m] => n = m)
    OBVIOUS
  <2>1. (q[n] < q[m] <=> place[n] < place[m]) /\ (q[n] = q[m] => place[n] = place[m])
    BY <1>8
  <2> QED
    BY <2>1 DEF Shape, Places
<1>10. \A l \in Levels : \A n : On(l, n) <=> n \in Live /\ node[n].level >= l
  BY <1>2 DEF On
<1>11. ASSUME NEW n \in Live
       PROVE  /\ q[n] # q[new]
              /\ q[n] < q[new] <=> node[n].key < k
              /\ q[n] < q[new] <=> ~(q[new] < q[n])
  <2>1. node[n].level >= 1
    BY Ordered DEF Shape, Levels
  <2>2. node[n].key < k <=> place[n] <= place[p[1]]
    BY <1>2, <1>4, <1>10, <2>1
  <2>3. q[n] < q[new] <=> place[n] <= place[p[1]]
    BY <1>6, <1>8
  <2>4. q[n] # q[new] /\ (q[n] < q[new] <=> ~(q[new] < q[n]))
    BY <1>6, <1>8
  <2> QED
    BY <2>2, <2>3, <2>4
<1>12. \A l \in Levels : \A n : On(l, n)' <=> On(l, n) \/ (n = new /\ l <= h)
  <2>0. node \in [NodeId -> [key : Key \cup {0}, value : Value \cup {None}, level : Levels]]
    BY <1>1 DEF SLTypeOK
  <2>1. node'[new].level = h /\ \A n \in Live : node'[n] = node[n]
    BY <1>1, <1>2, <2>0
  <2>2. \A l \in Levels : \A n : On(l, n)' <=> n \in Live' /\ node'[n].level >= l
    BY <1>2 DEF On
  <2>3. \A l \in Levels : h >= l <=> l <= h
    BY <1>2 DEF Levels
  <2> QED
    BY <1>2, <1>3, <1>10, <2>1, <2>2, <2>3
<1> QED
  BY <1>2, <1>3, <1>4, <1>7, <1>9, <1>10, <1>11, <1>12

LEMMA InsertTypes ==
    ASSUME SLTypeOK, NEW k \in Key, NEW v \in Value, NEW new, NEW p, NEW h, Inserts(k, v, new, p, h),
           \A l \in Levels : p[l] \in NodeId
    PROVE  SLTypeOK'
<1> USE DEF SLTypeOK
<1>1. nodes' \in Seq(NodeId) /\ IsInjective(nodes')
  <2>1. PICK n \in Nat : n = Len(nodes) /\ nodes \in Seq(NodeId) /\ DOMAIN nodes = 1..n
    OBVIOUS
  <2>2. nodes' = Append(nodes, new) /\ new \in NodeId /\ new \notin Live
    BY DEF Inserts
  <2>3. /\ DOMAIN nodes' = 1..(n + 1) /\ nodes'[n + 1] = new /\ nodes' \in Seq(NodeId)
        /\ \A i \in 1..n : nodes'[i] = nodes[i] /\ nodes[i] \in Live
    <3>1. \A i \in 1..n : nodes[i] \in Live
      BY <2>1 DEF Live
    <3>2. DOMAIN nodes' = 1..(n + 1) /\ nodes'[n + 1] = new /\ nodes' \in Seq(NodeId)
      BY <2>1, <2>2
    <3>3. \A i \in 1..n : nodes'[i] = nodes[i]
      BY <2>1, <2>2
    <3> QED
      BY <3>1, <3>2, <3>3
  <2>4. ASSUME NEW i \in 1..(n + 1), NEW j \in 1..(n + 1), nodes'[i] = nodes'[j]
        PROVE  i = j
    <3>1. (i \in 1..n \/ i = n + 1) /\ (j \in 1..n \/ j = n + 1)
      OBVIOUS
    <3>2. CASE i \in 1..n /\ j \in 1..n
      BY <2>1, <2>3, <2>4, <3>2 DEF IsInjective
    <3>3. CASE ~(i \in 1..n /\ j \in 1..n)
      BY <2>2, <2>3, <2>4, <3>1, <3>3
    <3> QED
      BY <3>2, <3>3
  <2> QED
    BY <2>3, <2>4 DEF IsInjective
<1>2. node' \in [NodeId -> [key : Key \cup {0}, value : Value \cup {None}, level : Levels]]
  BY DEF Inserts
<1>3. next' \in [NodeId -> [Levels -> NodeId \cup {Null}]]
  <2>1. \A n \in NodeId, l \in Levels :
          (IF n = new THEN IF l \in 1..h THEN next[p[l]][l] ELSE Null
           ELSE IF l \in 1..h /\ n = p[l] THEN new ELSE next[n][l]) \in NodeId \cup {Null}
    BY DEF Inserts
  <2> QED
    BY <2>1 DEF Inserts
<1>4. genAt' \in 0..MaxLevel /\ op' \in {"idle", "unlink", "erase", "dead"}
      /\ level' \in 0..(MaxLevel + 1) /\ previous' \in [Levels -> NodeId \cup {Null}]
      /\ target' \in NodeId \cup {Null} /\ fault' \in {"none", "index", "erase", "iterator"}
  BY DEF Inserts
<1> QED
  BY <1>1, <1>2, <1>3, <1>4

LEMMA InsertShape ==
    ASSUME NEW place, Shape(place), NEW k \in Key, NEW v \in Value, NEW new, NEW p, NEW h,
           Inserts(k, v, new, p, h), NEW q, q = Inserted(place, new, p[1])
    PROVE  Shape(q)'
<1>1. /\ q \in [NodeId -> Nat]
      /\ Live' = Live \cup {new}
      /\ node' = [node EXCEPT ![new] = [key |-> k, value |-> v, level |-> h]]
  BY InsertPlaces
<1>2. /\ \A n, m \in Live : (q[n] < q[m] <=> place[n] < place[m]) /\ (q[n] = q[m] => n = m)
      /\ \A n \in Live : /\ q[n] # q[new]
                         /\ q[n] < q[new] <=> node[n].key < k
                         /\ q[n] < q[new] <=> ~(q[new] < q[n])
  BY InsertPlaces
<1>3. \A l \in Levels : /\ On(l, p[l]) /\ p[l] \in NodeId /\ p[l] \in Live /\ node[p[l]].key < k
                        /\ \A n : On(l, n) => (node[n].key < k <=> place[n] <= place[p[l]])
  BY InsertPlaces
<1>4. /\ \A l \in Levels : \A n : On(l, n)' <=> On(l, n) \/ (n = new /\ l <= h)
      /\ \A l \in Levels : \A n : On(l, n) <=> n \in Live /\ node[n].level >= l
  BY InsertPlaces
<1>5. /\ h \in Levels /\ h \in Nat /\ new \in NodeId /\ new \notin Live /\ new # Header
      /\ ~Removing' /\ op' = "idle" /\ k \in Nat \ {0} /\ new # Null
  BY KeyAssumption, LiveIsNodes DEF Inserts, Removing, Levels, Shape
<1>6. /\ node'[new] = [key |-> k, value |-> v, level |-> h]
      /\ \A n \in Live : /\ node'[n] = node[n] /\ n # new /\ n \in NodeId
                         /\ node[n].key \in Nat /\ place[n] \in Nat /\ node[n].level \in Nat
  <2>1. node \in [NodeId -> [key : Key \cup {0}, value : Value \cup {None}, level : Levels]]
    BY DEF Shape, SLTypeOK
  <2>2. \A n \in Live : n \in NodeId /\ node[n].key \in Nat /\ place[n] \in Nat /\ node[n].level \in Nat
    BY Ordered DEF Shape
  <2> QED
    BY <1>1, <1>5, <2>1, <2>2
<1>7. SLTypeOK'
  BY <1>3, InsertTypes DEF Shape
<1>8. Places(q)'
  <2>1. Header \in Live' /\ node'[Header] = Blank
    BY <1>1, <1>6 DEF Shape, Places
  <2>2. \A n \in Data' : node'[n].key \in Key
    <3> SUFFICES ASSUME NEW n \in Data' PROVE node'[n].key \in Key
      OBVIOUS
    <3>1. n = new \/ n \in Data
      BY <1>1 DEF Data
    <3> QED
      BY <1>6, <3>1 DEF Shape, Places, Data
  <2>3. \A n, m \in Live' : q[n] = q[m] => n = m
    BY <1>1, <1>2
  <2>4. ASSUME NEW n \in Live', NEW m \in Live', q[n] < q[m]
        PROVE  node'[n].key <= node'[m].key
    <3>1. CASE n \in Live /\ m \in Live
      BY <1>2, <1>6, <2>4, <3>1 DEF Shape, Places
    <3>2. CASE n \in Live /\ m = new
      <4>1. node[n].key < k
        BY <1>2, <2>4, <3>2
      <4> QED
        BY <1>5, <1>6, <3>2, <4>1
    <3>3. CASE n = new /\ m \in Live
      <4>1. ~(node[m].key < k)
        BY <1>2, <2>4, <3>3
      <4> QED
        BY <1>5, <1>6, <3>3, <4>1
    <3>4. CASE n = new /\ m = new
      BY <1>5, <1>6, <3>4
    <3> QED
      BY <1>1, <3>1, <3>2, <3>3, <3>4
  <2> QED
    BY <1>1, <2>1, <2>2, <2>3, <2>4 DEF Places, Blank
<1>9. ASSUME NEW l \in Levels
      PROVE  /\ \A n \in NodeId : next'[n][l] # Null =>
                   n \in Live' /\ node'[n].level >= l /\ next'[n][l] \in Data' /\ q[n] < q[next'[n][l]]
             /\ \A n \in NodeId : next'[n][l] # Null =>
                   next'[n][l] \in Live' /\ node'[next'[n][l]].level >= l
             /\ \A n, m \in NodeId : On(l, n)' /\ On(l, m)' /\ q[n] < q[m] =>
                   next'[n][l] # Null /\ q[next'[n][l]] <= q[m]
  <2>0. l \in Nat /\ l >= 1 /\ (l \in 1..h <=> l <= h) /\ (h >= l <=> l <= h)
    BY <1>5 DEF Levels
  <2>1. \A n \in NodeId : next'[n][l] =
           IF n = new THEN IF l <= h THEN next[p[l]][l] ELSE Null
           ELSE IF l <= h /\ n = p[l] THEN new ELSE next[n][l]
    BY <2>0 DEF Inserts
  <2>2. \A n \in NodeId : next[n][l] # Null =>
           /\ n \in Live /\ node[n].level >= l /\ next[n][l] \in Data /\ place[n] < place[next[n][l]]
           /\ next[n][l] \in Live /\ On(l, n) /\ On(l, next[n][l])
    BY <1>4 DEF Shape, Links, Data
  <2>3. \A n, m \in NodeId : On(l, n) /\ On(l, m) /\ place[n] < place[m] =>
           next[n][l] # Null /\ place[next[n][l]] <= place[m]
    BY DEF Shape, Links
  <2>4. On(l, p[l]) /\ p[l] \in NodeId /\ p[l] \in Live /\ node[p[l]].key < k /\ p[l] # new
    BY <1>3, <1>5
  \* The node that follows p[l] on the level is not smaller than the new one.
  <2>5. next[p[l]][l] # Null => ~(node[next[p[l]][l]].key < k)
    <3> SUFFICES ASSUME next[p[l]][l] # Null, node[next[p[l]][l]].key < k PROVE FALSE
      OBVIOUS
    <3>1. place[next[p[l]][l]] <= place[p[l]]
      BY <1>3, <2>2, <2>4
    <3> QED
      BY <1>6, <2>2, <2>4, <3>1
  <2>6. Data' = Data \cup {new} /\ Data \subseteq Live
    BY <1>1, <1>5 DEF Data
  <2>7. ASSUME NEW n \in NodeId, next'[n][l] # Null
        PROVE  /\ n \in Live' /\ node'[n].level >= l /\ next'[n][l] \in Data' /\ q[n] < q[next'[n][l]]
               /\ next'[n][l] \in Live' /\ node'[next'[n][l]].level >= l
    <3>0. PICK r : r = next'[n][l] /\ r # Null
      BY <2>7
    <3>1. CASE n = new
      <4>1. l <= h /\ r = next[p[l]][l]
        BY <2>1, <3>0, <3>1
      <4>2. r \in Live /\ r \in Data /\ ~(node[r].key < k) /\ On(l, r)
        BY <2>2, <2>4, <2>5, <3>0, <4>1
      <4>3. q[new] < q[r] /\ node[r].level >= l
        BY <1>2, <1>4, <4>2
      <4> QED
        BY <1>1, <1>6, <2>0, <2>6, <3>0, <3>1, <4>1, <4>2, <4>3
    <3>2. CASE n = p[l] /\ l <= h
      <4>1. r = new
        BY <2>1, <2>4, <3>0, <3>2
      <4>2. q[n] < q[new] /\ node[n].level >= l /\ n \in Live
        BY <1>2, <1>4, <2>4, <3>2
      <4> QED
        BY <1>1, <1>6, <2>0, <2>6, <3>0, <3>2, <4>1, <4>2
    <3>3. CASE n # new /\ ~(n = p[l] /\ l <= h)
      <4>1. r = next[n][l]
        BY <2>1, <3>0, <3>3
      <4>2. /\ n \in Live /\ node[n].level >= l /\ r \in Data /\ place[n] < place[r]
            /\ r \in Live /\ On(l, r)
        BY <2>2, <3>0, <4>1
      <4>3. q[n] < q[r] /\ node[r].level >= l
        BY <1>2, <1>4, <4>2
      <4> QED
        BY <1>1, <1>6, <2>6, <3>0, <4>2, <4>3
    <3> QED
      BY <3>1, <3>2, <3>3
  <2>8. ASSUME NEW n \in NodeId, NEW m \in NodeId, On(l, n)', On(l, m)', q[n] < q[m]
        PROVE  next'[n][l] # Null /\ q[next'[n][l]] <= q[m]
    <3>0. \A x \in NodeId : q[x] \in Nat
      BY <1>1
    <3>1. CASE n = new
      <4>1. On(l, m) /\ l <= h /\ m \in Live
        BY <1>4, <1>5, <2>8, <3>0, <3>1
      <4>2. ~(node[m].key < k)
        BY <1>2, <2>8, <3>1, <4>1
      <4>3. place[p[l]] < place[m]
        BY <1>3, <1>6, <2>4, <4>1, <4>2
      <4>4. next[p[l]][l] # Null /\ place[next[p[l]][l]] <= place[m]
        BY <2>3, <2>4, <4>1, <4>3
      <4>5. next'[n][l] = next[p[l]][l]
        BY <2>1, <3>1, <4>1
      <4>6. next[p[l]][l] \in Live /\ next[p[l]][l] \in NodeId
        BY <1>6, <2>2, <2>4, <4>4
      <4>7. ~(q[m] < q[next[p[l]][l]])
        BY <1>2, <1>6, <4>1, <4>4, <4>6
      <4> QED
        BY <3>0, <4>4, <4>5, <4>6, <4>7
    <3>2. CASE n = p[l] /\ l <= h
      <4>1. next'[n][l] = new
        BY <2>1, <2>4, <3>2
      <4>2. CASE m = new
        BY <1>5, <3>0, <4>1, <4>2
      <4>3. CASE m # new
        <5>1. On(l, m) /\ m \in Live
          BY <1>4, <2>8, <4>3
        <5>2. place[n] < place[m]
          BY <1>2, <2>4, <2>8, <3>2, <5>1
        <5>3. ~(node[m].key < k)
          BY <1>3, <1>6, <2>4, <3>2, <5>1, <5>2
        <5>4. q[new] < q[m]
          BY <1>2, <5>1, <5>3
        <5> QED
          BY <1>5, <3>0, <4>1, <5>4
      <4> QED
        BY <4>2, <4>3
    <3>3. CASE n # new /\ ~(n = p[l] /\ l <= h)
      <4>1. next'[n][l] = next[n][l] /\ On(l, n) /\ n \in Live
        BY <1>4, <2>1, <2>8, <3>3
      <4>2. CASE m # new
        <5>1. On(l, m) /\ m \in Live
          BY <1>4, <2>8, <4>2
        <5>2. next[n][l] # Null /\ place[next[n][l]] <= place[m]
          BY <1>2, <2>3, <2>8, <4>1, <5>1
        <5>3. next[n][l] \in Live /\ next[n][l] \in NodeId
          BY <1>6, <2>2, <5>2
        <5>4. ~(q[m] < q[next[n][l]])
          BY <1>2, <1>6, <5>1, <5>2, <5>3
        <5> QED
          BY <3>0, <4>1, <5>2, <5>3, <5>4
      <4>3. CASE m = new
        <5>1. l <= h
          BY <1>4, <1>5, <2>8, <4>3
        <5>2. node[n].key < k
          BY <1>2, <2>8, <4>1, <4>3
        <5>3. place[n] <= place[p[l]] /\ n # p[l]
          BY <1>3, <3>3, <4>1, <5>1, <5>2
        <5>4. place[n] < place[p[l]]
          BY <1>6, <2>4, <4>1, <5>3 DEF Shape, Places
        <5>5. next[n][l] # Null /\ place[next[n][l]] <= place[p[l]]
          BY <2>3, <2>4, <4>1, <5>4
        <5>6. next[n][l] \in Live /\ next[n][l] \in NodeId /\ On(l, next[n][l])
          BY <1>6, <2>2, <5>5
        <5>7. node[next[n][l]].key < k
          BY <1>3, <5>5, <5>6
        <5>8. q[next[n][l]] < q[new]
          BY <1>2, <5>6, <5>7
        <5> QED
          BY <1>5, <3>0, <4>1, <4>3, <5>5, <5>6, <5>8
      <4> QED
        BY <4>2, <4>3
    <3> QED
      BY <3>1, <3>2, <3>3
  <2> QED
    BY <2>7, <2>8
<1>10. Links(q)'
  BY <1>5, <1>9 DEF Links, On
<1>11. Walk(q)'
  BY <1>5 DEF Walk
<1> QED
  BY <1>7, <1>8, <1>10, <1>11 DEF Shape

-----------------------------------------------------------------------------
(* remove.                                                                 *)

\* The search of remove: what it finds is the first node of its key, and it
\* knows the node before it on every level.
LEMMA RemoveSearchShape ==
    ASSUME NEW place, Shape(place), NEW k \in Key, RemoveSearch(k)
    PROVE  Shape(place)'
<1>1. /\ op = "idle" /\ level' = 0 /\ previous' = [l \in Levels |-> Previous(l, k)]
      /\ UNCHANGED <<nodes, node, next, genAt, fault>>
      /\ LET m == next[Previous(1, k)][1]
         IN  IF m # Null /\ node[m].key = k
             THEN target' = m /\ op' = "unlink"
             ELSE target' = Null /\ op' = "erase"
  BY DEF RemoveSearch
<1>2. k \in Nat \ {0} /\ 1 \in Levels /\ ~Removing /\ place \in [NodeId -> Nat]
  BY <1>1, KeyAssumption, MaxLevelAssumption DEF Removing, Levels, Shape, Places
<1>3. PICK p : p = [l \in Levels |-> Previous(l, k)]
  OBVIOUS
<1>4. previous' = p /\ \A l \in Levels : LastBelow(place, l, k, p[l]) /\ p[l] \in NodeId
  BY <1>1, <1>2, <1>3, PreviousIsLast
<1>5. Live' = Live /\ Data' = Data
  BY <1>1 DEF Live, Data
<1>6. PICK m : m = next[p[1]][1]
  OBVIOUS
<1>7. /\ m # Null /\ node[m].key = k => target' = m /\ op' = "unlink"
      /\ ~(m # Null /\ node[m].key = k) => target' = Null /\ op' = "erase"
  BY <1>1, <1>2, <1>3, <1>6
<1>8. m # Null => m \in Data /\ m \in NodeId
  BY <1>2, <1>4, <1>6, LiveIsNodes DEF Shape, Links, Data
<1>9. SLTypeOK'
  <2>1. level' \in 0..(MaxLevel + 1) /\ previous' \in [Levels -> NodeId \cup {Null}]
    BY <1>1, <1>3, <1>4, MaxLevelAssumption
  <2>2. target' \in NodeId \cup {Null} /\ op' \in {"idle", "unlink", "erase", "dead"}
    BY <1>7, <1>8
  <2> QED
    BY <1>1, <2>1, <2>2 DEF Shape, SLTypeOK
<1>10. Places(place)'
  BY <1>1, <1>5 DEF Shape, Places
<1>11. \A l \in Levels : \A n : On(l, n)' <=> On(l, n)
  <2>1. \A l \in Levels : ~(l < level')
    BY <1>1 DEF Levels
  <2> QED
    BY <1>1, <1>2, <1>5, <2>1 DEF On
<1>12. Links(place)'
  <2>1. \A l \in Levels : \A n : (n \in Live' /\ node'[n].level >= l /\ ~(Removing' /\ n = target' /\ l < level'))
                                    <=> On(l, n)
    BY <1>11 DEF On
  <2> QED
    BY <1>1, <1>5, <2>1 DEF Shape, Links, On
<1>13. Walk(place)'
  <2>1. CASE m # Null /\ node[m].key = k
    <3>1. target' = m /\ op' = "unlink" /\ m \in Data /\ m \in Live
      BY <1>7, <1>8, <2>1 DEF Data
    <3>2. ASSUME NEW x \in Live, node[x].key = k
          PROVE  place[m] <= place[x]
      <4>1. On(1, x) /\ x \in NodeId
        BY <1>2, Ordered DEF On, Shape, Levels
      <4>2. On(1, p[1]) /\ node[p[1]].key < k /\ p[1] \in Live /\ p[1] \in NodeId
        BY <1>2, <1>4 DEF LastBelow, On
      <4>3. place[p[1]] < place[x]
        BY <3>2, <4>2, Ordered DEF Shape
      <4> QED
        BY <1>2, <1>6, <4>1, <4>2, <4>3 DEF Shape, Links
    <3>3. ASSUME NEW l \in Levels
          PROVE  /\ On(l, p[l]) /\ place[p[l]] < place[m]
                 /\ \A x \in NodeId : On(l, x) => place[x] <= place[p[l]] \/ place[m] <= place[x]
      <4>1. On(l, p[l]) /\ node[p[l]].key < k /\ p[l] \in Live
        BY <1>4 DEF LastBelow, On
      <4>2. place[p[l]] < place[m]
        BY <2>1, <3>1, <4>1, Ordered DEF Shape
      <4>3. ASSUME NEW x \in NodeId, On(l, x)
            PROVE  place[x] <= place[p[l]] \/ place[m] <= place[x]
        <5>1. x \in Live /\ node[x].key \in Nat /\ place[x] \in Nat /\ place[m] \in Nat
          BY <3>1, <4>3, Ordered DEF On, Shape
        <5>2. CASE node[x].key < k
          BY <1>4, <4>3, <5>2 DEF LastBelow
        <5>3. CASE node[x].key = k
          BY <3>2, <5>1, <5>3
        <5>4. CASE k < node[x].key
          <6>1. place[m] < place[x]
            BY <2>1, <3>1, <5>1, <5>4, Ordered DEF Shape
          <6> QED
            BY <5>1, <6>1
        <5> QED
          BY <1>2, <5>1, <5>2, <5>3, <5>4
      <4> QED
        BY <4>1, <4>2, <4>3
    <3>4. \A l \in Levels : \A n : (n \in Live' /\ node'[n].level >= l /\ ~(Removing' /\ n = target' /\ l < level'))
                                      <=> On(l, n)
      BY <1>11 DEF On
    <3> QED
      BY <1>1, <1>4, <1>5, <2>1, <3>1, <3>2, <3>3, <3>4 DEF Walk, On
  <2>2. CASE ~(m # Null /\ node[m].key = k)
    <3>1. ~Removing' /\ op' = "erase"
      BY <1>7, <2>2 DEF Removing
    <3> QED
      BY <3>1 DEF Walk
  <2> QED
    BY <2>1, <2>2
<1> QED
  BY <1>9, <1>10, <1>12, <1>13 DEF Shape

LEMMA UnlinkBelowShape ==
    ASSUME NEW place, Shape(place), UnlinkBelow, op' # "dead"
    PROVE  Shape(place)'
<1>1. op = "unlink" /\ op' = op /\ level = 0 /\ level' = 1
      /\ UNCHANGED <<nodes, node, next, genAt, previous, target, fault>>
  BY DEF UnlinkBelow
<1>2. Live' = Live /\ Data' = Data /\ (Removing' <=> Removing)
  BY <1>1 DEF Live, Data, Removing
<1>3. \A l \in Levels : ~(l < level') /\ ~(l < level) /\ level <= l /\ level' <= l
  BY <1>1 DEF Levels
<1>4. SLTypeOK'
  BY <1>1, MaxLevelAssumption DEF Shape, SLTypeOK
<1>5. Places(place)'
  BY <1>1, <1>2 DEF Shape, Places
<1>6. Links(place)'
  BY <1>1, <1>2, <1>3 DEF Shape, Links, On
<1>7. Walk(place)'
  BY <1>1, <1>2, <1>3 DEF Shape, Walk, On
<1> QED
  BY <1>4, <1>5, <1>6, <1>7 DEF Shape

\* Unlinking takes the node from the level the walk is at, and from no other.
LEMMA UnlinkOn ==
    ASSUME NEW place, Shape(place), Unlink, NEW l \in Levels, NEW n
    PROVE  On(l, n)' <=> On(l, n) /\ ~(l = level /\ n = target)
<1>1. op = "unlink" /\ level \in Levels /\ level' = level + 1 /\ UNCHANGED <<nodes, node, target>>
      /\ op' \in {"unlink", "erase"}
  BY DEF Unlink
<1>2. target # Null /\ Removing /\ Removing'
  BY <1>1 DEF Shape, Walk, Removing
<1>3. Live' = Live /\ (l < level' <=> l < level \/ l = level)
  BY <1>1 DEF Live, Levels
<1> QED
  BY <1>1, <1>2, <1>3 DEF On

LEMMA UnlinkShape ==
    ASSUME NEW place, Shape(place), Unlink
    PROVE  Shape(place)'
<1>1. op = "unlink" /\ level \in Levels /\ level' = level + 1
      /\ UNCHANGED <<nodes, node, genAt, previous, target, fault>>
      /\ op' = IF level = MaxLevel THEN "erase" ELSE op
  BY DEF Unlink
<1>2. Removing /\ Removing' /\ target \in Data /\ target # Null
  BY <1>1 DEF Shape, Walk, Removing
<1>3. Live' = Live /\ Data' = Data /\ place \in [NodeId -> Nat] /\ target \in Live
  BY <1>1, <1>2 DEF Live, Data, Shape, Places
<1> DEFINE p == previous[level]
<1>4. /\ On(level, p) /\ place[p] < place[target]
      /\ \A m \in NodeId : On(level, m) => place[m] <= place[p] \/ place[target] <= place[m]
  BY <1>1, <1>2 DEF Shape, Walk, Levels
<1>5. p \in NodeId /\ p \in Live /\ target \in NodeId /\ Live \subseteq NodeId
  BY <1>2, <1>3, <1>4, LiveIsNodes DEF On, Shape
<1>6. next' = [next EXCEPT ![p][level] = IF @ = target THEN next[target][level] ELSE @]
  BY DEF Unlink
<1>7. next \in [NodeId -> [Levels -> NodeId \cup {Null}]]
  BY DEF Shape, SLTypeOK
<1> HIDE DEF p
<1>8. \A n \in NodeId, l \in Levels :
         next'[n][l] = IF n = p /\ l = level /\ next[n][l] = target THEN next[target][l] ELSE next[n][l]
  BY <1>1, <1>5, <1>6, <1>7
<1>9. SLTypeOK'
  <2>1. level' \in 0..(MaxLevel + 1)
    BY <1>1, MaxLevelAssumption DEF Levels
  <2>2. next' \in [NodeId -> [Levels -> NodeId \cup {Null}]]
    BY <1>1, <1>5, <1>6, <1>7
  <2> QED
    BY <1>1, <2>1, <2>2 DEF Shape, SLTypeOK
<1>10. Places(place)'
  BY <1>1, <1>3 DEF Shape, Places
<1>11. \A l \in Levels : \A n : (n \in Live' /\ node'[n].level >= l /\ ~(Removing' /\ n = target' /\ l < level'))
                                   <=> On(l, n) /\ ~(l = level /\ n = target)
  BY UnlinkOn DEF On
<1>12. ASSUME NEW l \in Levels
       PROVE  /\ \A n \in NodeId : next'[n][l] # Null =>
                    n \in Live /\ node[n].level >= l /\ next'[n][l] \in Data /\ place[n] < place[next'[n][l]]
              /\ \A n \in NodeId : On(l, n) /\ ~(l = level /\ n = target) /\ next'[n][l] # Null =>
                    On(l, next'[n][l]) /\ ~(l = level /\ next'[n][l] = target)
              /\ \A n, m \in NodeId : /\ On(l, n) /\ ~(l = level /\ n = target)
                                      /\ On(l, m) /\ ~(l = level /\ m = target)
                                      /\ place[n] < place[m]
                    => next'[n][l] # Null /\ place[next'[n][l]] <= place[m]
  <2>1. \A n \in NodeId : next[n][l] # Null =>
           n \in Live /\ node[n].level >= l /\ next[n][l] \in Data /\ place[n] < place[next[n][l]]
    BY DEF Shape, Links
  <2>2. \A n \in NodeId : On(l, n) /\ next[n][l] # Null => On(l, next[n][l])
    BY DEF Shape, Links
  <2>3. \A n, m \in NodeId : On(l, n) /\ On(l, m) /\ place[n] < place[m] =>
           next[n][l] # Null /\ place[next[n][l]] <= place[m]
    BY DEF Shape, Links
  <2>4. \A n \in NodeId : place[n] \in Nat
    BY <1>3
  <2>5. \A n, m \in Live : place[n] = place[m] => n = m
    BY DEF Shape, Places
  <2>6. CASE l # level
    <3>1. \A n \in NodeId : next'[n][l] = next[n][l]
      BY <1>8, <2>6
    <3> QED
      BY <2>1, <2>2, <2>3, <2>6, <3>1
  <2>7. CASE l = level /\ next[p][l] = target
    <3>1. On(l, target) /\ target # p
      BY <1>2, <1>4, <1>5, <2>2, <2>4, <2>7
    <3>2. \A n \in NodeId : next'[n][l] = IF n = p THEN next[target][l] ELSE next[n][l]
      BY <1>8, <2>7
    <3>3. \A n \in NodeId : On(l, n) /\ n # p => next[n][l] # target
      <4> SUFFICES ASSUME NEW n \in NodeId, On(l, n), n # p, next[n][l] = target
                   PROVE  FALSE
        OBVIOUS
      <4>1. place[n] < place[target] /\ n \in Live
        BY <1>2, <2>1
      <4>2. place[n] <= place[p]
        BY <1>4, <1>5, <2>4, <2>7, <4>1
      <4>3. place[n] < place[p]
        BY <1>5, <2>4, <2>5, <4>1, <4>2
      <4>4. place[target] <= place[p]
        BY <1>4, <1>5, <2>3, <2>7, <4>3
      <4> QED
        BY <1>4, <1>5, <2>4, <4>4
    <3>4. next[target][l] # Null =>
             /\ next[target][l] \in Data /\ place[target] < place[next[target][l]]
             /\ On(l, next[target][l]) /\ next[target][l] # target /\ next[target][l] \in NodeId
      BY <1>5, <2>1, <2>2, <2>4, <3>1 DEF Data
    <3>5. node[p].level >= l /\ On(l, p)
      BY <1>4, <2>7 DEF On
    <3>6. ASSUME NEW n \in NodeId, next'[n][l] # Null
          PROVE  n \in Live /\ node[n].level >= l /\ next'[n][l] \in Data /\ place[n] < place[next'[n][l]]
      <4>1. CASE n = p
        <5>1. next'[n][l] = next[target][l]
          BY <3>2, <4>1
        <5>2. place[p] < place[next[target][l]]
          BY <1>4, <1>5, <2>4, <3>4, <3>6, <5>1
        <5> QED
          BY <1>5, <3>4, <3>5, <3>6, <4>1, <5>1, <5>2
      <4>2. CASE n # p
        BY <2>1, <3>2, <3>6, <4>2
      <4> QED
        BY <4>1, <4>2
    <3>7. ASSUME NEW n \in NodeId, On(l, n), n # target, next'[n][l] # Null
          PROVE  On(l, next'[n][l]) /\ next'[n][l] # target
      <4>1. CASE n = p
        BY <3>2, <3>4, <3>7, <4>1
      <4>2. CASE n # p
        BY <2>2, <3>2, <3>3, <3>7, <4>2
      <4> QED
        BY <4>1, <4>2
    <3>8. ASSUME NEW n \in NodeId, NEW m \in NodeId, On(l, n), n # target, On(l, m), m # target, place[n] < place[m]
          PROVE  next'[n][l] # Null /\ place[next'[n][l]] <= place[m]
      <4>1. CASE n = p
        <5>1. place[target] <= place[m]
          BY <1>5, <2>3, <2>7, <3>5, <3>8, <4>1
        <5>2. m \in Live
          BY <3>8 DEF On
        <5>3. place[target] < place[m]
          BY <1>3, <1>5, <2>4, <2>5, <3>8, <5>1, <5>2
        <5>4. next[target][l] # Null /\ place[next[target][l]] <= place[m]
          BY <1>5, <2>3, <3>1, <3>8, <5>3
        <5> QED
          BY <3>2, <4>1, <5>4
      <4>2. CASE n # p
        BY <2>3, <3>2, <3>8, <4>2
      <4> QED
        BY <4>1, <4>2
    <3> QED
      BY <2>7, <3>6, <3>7, <3>8
  <2>8. CASE l = level /\ next[p][l] # target
    <3>1. \A n \in NodeId : next'[n][l] = next[n][l]
      BY <1>8, <2>8
    <3>2. ~On(l, target)
      <4> SUFFICES ASSUME On(l, target) PROVE FALSE
        OBVIOUS
      <4>1. next[p][l] # Null /\ place[next[p][l]] <= place[target]
        BY <1>4, <1>5, <2>3, <2>8
      <4>2. On(l, next[p][l]) /\ place[p] < place[next[p][l]] /\ next[p][l] \in Live
        BY <1>4, <1>5, <2>1, <2>2, <2>8, <4>1 DEF Data
      <4>3. next[p][l] \in NodeId
        BY <1>5, <4>2
      <4>4. place[next[p][l]] < place[target]
        BY <1>3, <1>5, <2>4, <2>5, <2>8, <4>1, <4>2, <4>3
      <4> QED
        BY <1>4, <1>5, <2>4, <2>8, <4>2, <4>3, <4>4
    <3> QED
      BY <2>1, <2>2, <2>3, <3>1, <3>2
  <2> QED
    BY <2>6, <2>7, <2>8
<1>13. Links(place)'
  BY <1>1, <1>3, <1>11, <1>12 DEF Links, On
<1>14. Walk(place)'
  <2>1. op' = "erase" => level' = MaxLevel + 1
    BY <1>1
  <2>2. \A l \in Levels : level' <= l => level <= l /\ l # level
    BY <1>1 DEF Levels
  <2>3. \A m \in Live : node[m].key = node[target].key => place[target] <= place[m]
    BY <1>2 DEF Shape, Walk
  <2>4. \A l \in Levels : level <= l =>
              /\ On(l, previous[l]) /\ place[previous[l]] < place[target]
              /\ \A m \in NodeId : On(l, m) => place[m] <= place[previous[l]] \/ place[target] <= place[m]
    BY <1>2 DEF Shape, Walk
  <2>5. \A l \in Levels : level' <= l => \A n :
          (n \in Live' /\ node'[n].level >= l /\ ~(Removing' /\ n = target' /\ l < level')) <=> On(l, n)
    BY <1>11, <2>2
  <2> QED
    BY <1>1, <1>2, <1>3, <2>1, <2>2, <2>3, <2>4, <2>5 DEF Walk, On
<1> QED
  BY <1>9, <1>10, <1>13, <1>14 DEF Shape

LEMMA RemoveAtElements ==
    ASSUME NEW s \in Seq(NodeId), IsInjective(s), NEW i \in DOMAIN s, NEW t, t = RemoveAt(s, i)
    PROVE  t \in Seq(NodeId) /\ IsInjective(t) /\ ToSet(t) = ToSet(s) \ {s[i]}
<1>1. PICK n \in Nat : n = Len(s) /\ DOMAIN s = 1..n
  OBVIOUS
<1>2. i \in 1..n
  BY <1>1
<1> DEFINE a == SubSeq(s, 1, i - 1)
           b == SubSeq(s, i + 1, n)
<1>3. a \in Seq(NodeId) /\ Len(a) = i - 1 /\ \A j \in 1..(i - 1) : a[j] = s[j]
  BY <1>1, <1>2
<1>4. b \in Seq(NodeId) /\ Len(b) = n - i /\ \A j \in 1..(n - i) : b[j] = s[j + i]
  <2>1. i + 1 <= n \/ i = n
    BY <1>1, <1>2
  <2>2. CASE i = n
    <3>1. b = <<>>
      BY <1>1, <1>2, <2>2
    <3> QED
      BY <1>1, <1>2, <2>2, <3>1
  <2>3. CASE i + 1 <= n
    <3>1. \A j \in (i + 1)..n : s[j] \in NodeId
      BY <1>1, <1>2
    <3>2. Len(b) = n - i /\ b \in Seq(NodeId)
      BY <1>1, <1>2, <2>3, <3>1
    <3>3. \A j \in 1..(n - i) : b[j] = s[(i + 1) + j - 1]
      BY <1>1, <1>2, <2>3
    <3>4. \A j \in 1..(n - i) : (i + 1) + j - 1 = j + i
      BY <1>1, <1>2
    <3> QED
      BY <3>2, <3>3, <3>4
  <2> QED
    BY <2>1, <2>2, <2>3
<1>5. t = a \o b
  BY <1>1 DEF RemoveAt
<1> HIDE DEF a, b
<1>6. t \in Seq(NodeId) /\ Len(t) = n - 1 /\ DOMAIN t = 1..(n - 1)
  BY <1>1, <1>2, <1>3, <1>4, <1>5
<1>7. \A j \in 1..(n - 1) : t[j] = IF j < i THEN s[j] ELSE s[j + 1]
  <2> SUFFICES ASSUME NEW j \in 1..(n - 1)
               PROVE  t[j] = IF j < i THEN s[j] ELSE s[j + 1]
    OBVIOUS
  <2>1. CASE j < i
    BY <1>2, <1>3, <1>4, <1>5, <2>1
  <2>2. CASE ~(j < i)
    <3>1. t[j] = b[j - (i - 1)]
      BY <1>1, <1>2, <1>3, <1>4, <1>5, <2>2, SMTT(30)
    <3>2. j - (i - 1) \in 1..(n - i) /\ (j - (i - 1)) + i = j + 1
      BY <1>1, <1>2, <2>2
    <3> QED
      BY <1>4, <2>2, <3>1, <3>2
  <2> QED
    BY <2>1, <2>2
<1>8. \A x, y \in 1..n : s[x] = s[y] => x = y
  BY <1>1 DEF IsInjective
<1>9. IsInjective(t)
  <2> SUFFICES ASSUME NEW x \in 1..(n - 1), NEW y \in 1..(n - 1), t[x] = t[y]
               PROVE  x = y
    BY <1>6 DEF IsInjective
  <2>1. x \in 1..n /\ y \in 1..n /\ x + 1 \in 1..n /\ y + 1 \in 1..n
    BY <1>1
  <2>2. (IF x < i THEN x ELSE x + 1) = (IF y < i THEN y ELSE y + 1)
    BY <1>7, <1>8, <2>1
  <2> QED
    BY <1>2, <2>2
<1>10. ASSUME NEW e \in ToSet(t) PROVE e \in ToSet(s) \ {s[i]}
  <2>1. PICK j \in 1..(n - 1) : e = t[j]
    BY <1>6 DEF ToSet
  <2>2. PICK x \in 1..n : e = s[x] /\ x # i
    <3>1. j \in 1..n /\ j + 1 \in 1..n
      BY <1>1
    <3>2. CASE j < i
      BY <1>7, <2>1, <3>1, <3>2
    <3>3. CASE ~(j < i)
      BY <1>2, <1>7, <2>1, <3>1, <3>3
    <3> QED
      BY <3>2, <3>3
  <2> QED
    BY <1>1, <1>2, <1>8, <2>2 DEF ToSet
<1>11. ASSUME NEW e \in ToSet(s) \ {s[i]} PROVE e \in ToSet(t)
  <2>1. PICK x \in 1..n : e = s[x] /\ x # i
    BY <1>1 DEF ToSet
  <2>2. CASE x < i
    <3>1. x \in 1..(n - 1) /\ t[x] = e
      BY <1>2, <1>7, <2>1, <2>2
    <3> QED
      BY <1>6, <3>1 DEF ToSet
  <2>3. CASE ~(x < i)
    <3>1. x - 1 \in 1..(n - 1) /\ ~(x - 1 < i) /\ (x - 1) + 1 = x
      BY <1>2, <2>1, <2>3
    <3>2. t[x - 1] = e
      BY <1>7, <2>1, <3>1
    <3> QED
      BY <1>6, <3>1, <3>2 DEF ToSet
  <2> QED
    BY <2>2, <2>3
<1> QED
  BY <1>6, <1>9, <1>10, <1>11

\* When the node goes from d_nodes it is linked on no level any more.
LEMMA EraseOn ==
    ASSUME NEW place, Shape(place), Erase
    PROVE  /\ SLTypeOK' /\ Live' = Live \ {target} /\ op' = "idle"
           /\ \A l \in Levels : \A n : On(l, n)' <=> On(l, n)
           /\ \A n \in NodeId : n # target => node'[n] = node[n] /\ next'[n] = next[n]
           /\ node'[target] = Blank /\ next'[target] = [l \in Levels |-> Null]
           /\ target \in Data
<1>1. op = "erase" /\ target # Null /\ op' = "idle" /\ level' = 0 /\ target' = Null
      /\ previous' = [l \in Levels |-> Null]
      /\ node' = [node EXCEPT ![target] = Blank]
      /\ next' = [next EXCEPT ![target] = [l \in Levels |-> Null]]
      /\ UNCHANGED <<genAt, fault>>
  BY DEF Erase
<1>2. PICK i \in DOMAIN nodes : nodes[i] = target /\ nodes' = RemoveAt(nodes, i)
  BY DEF Erase
<1>3. Removing /\ ~Removing' /\ level = MaxLevel + 1 /\ target \in Data /\ target \in NodeId
  <2>1. Removing /\ ~Removing'
    BY <1>1 DEF Removing
  <2>2. level = MaxLevel + 1 /\ target \in Data
    BY <1>1, <2>1 DEF Shape, Walk
  <2> QED
    BY <2>1, <2>2, LiveIsNodes DEF Data, Shape
<1>4. nodes' \in Seq(NodeId) /\ IsInjective(nodes') /\ ToSet(nodes') = ToSet(nodes) \ {target}
  <2>1. nodes \in Seq(NodeId) /\ IsInjective(nodes)
    BY DEF Shape, SLTypeOK
  <2> QED
    BY <1>2, <2>1, RemoveAtElements
<1>5. Live' = Live \ {target}
  BY <1>4 DEF Live, ToSet
<1>6. /\ node \in [NodeId -> [key : Key \cup {0}, value : Value \cup {None}, level : Levels]]
      /\ next \in [NodeId -> [Levels -> NodeId \cup {Null}]]
  BY DEF Shape, SLTypeOK
<1>7. /\ \A n \in NodeId : n # target => node'[n] = node[n] /\ next'[n] = next[n]
      /\ node'[target] = Blank /\ next'[target] = [l \in Levels |-> Null]
  BY <1>1, <1>3, <1>6
<1>8. SLTypeOK'
  <2>1. Blank \in [key : Key \cup {0}, value : Value \cup {None}, level : Levels]
    BY MaxLevelAssumption DEF Blank, Levels
  <2>2. /\ node' \in [NodeId -> [key : Key \cup {0}, value : Value \cup {None}, level : Levels]]
        /\ next' \in [NodeId -> [Levels -> NodeId \cup {Null}]]
    BY <1>1, <1>6, <2>1
  <2>3. level' \in 0..(MaxLevel + 1) /\ genAt' \in 0..MaxLevel
        /\ fault' \in {"none", "index", "erase", "iterator"}
    BY <1>1, MaxLevelAssumption DEF Shape, SLTypeOK
  <2> QED
    BY <1>1, <1>4, <2>2, <2>3 DEF SLTypeOK
<1>9. ASSUME NEW l \in Levels, NEW n
      PROVE  On(l, n)' <=> On(l, n)
  <2>1. On(l, n)' <=> n \in Live' /\ node'[n].level >= l
    BY <1>3 DEF On
  <2>2. On(l, n) <=> n \in Live /\ node[n].level >= l /\ n # target
    BY <1>3, MaxLevelAssumption DEF On, Levels
  <2>3. n \in Live /\ n # target => node'[n] = node[n]
    BY <1>7, LiveIsNodes DEF Shape
  <2> QED
    BY <1>5, <2>1, <2>2, <2>3
<1> QED
  BY <1>1, <1>3, <1>5, <1>7, <1>8, <1>9

LEMMA EraseShape ==
    ASSUME NEW place, Shape(place), Erase
    PROVE  Shape(place)'
<1>1. /\ SLTypeOK' /\ Live' = Live \ {target} /\ op' = "idle"
      /\ \A l \in Levels : \A n : On(l, n)' <=> On(l, n)
      /\ \A n \in NodeId : n # target => node'[n] = node[n] /\ next'[n] = next[n]
      /\ node'[target] = Blank /\ next'[target] = [l \in Levels |-> Null]
      /\ target \in Data
  BY EraseOn
<1>2. Live \subseteq NodeId /\ Data' = Data \ {target} /\ Header # target /\ Header \in Live /\ ~Removing'
  BY <1>1, LiveIsNodes DEF Shape, Places, Data, Removing
<1>3. \A n \in Live' : n \in Live /\ n \in NodeId /\ node'[n] = node[n]
  BY <1>1, <1>2
<1>4. Places(place)'
  BY <1>1, <1>2, <1>3 DEF Shape, Places, Data, Blank
<1>5. \A l \in Levels : \A n : On(l, n) <=> n \in Live' /\ node'[n].level >= l
  BY <1>1, <1>2 DEF On
<1>6. ASSUME NEW l \in Levels
      PROVE  /\ \A n \in NodeId : next'[n][l] # Null =>
                  /\ n \in Live' /\ node'[n].level >= l /\ next'[n][l] \in Data'
                  /\ place[n] < place[next'[n][l]]
             /\ \A n \in NodeId : next'[n][l] # Null => next'[n][l] \in Live' /\ node'[next'[n][l]].level >= l
             /\ \A n, m \in NodeId : On(l, n) /\ On(l, m) /\ place[n] < place[m] =>
                  next'[n][l] # Null /\ place[next'[n][l]] <= place[m]
  <2>1. \A n \in NodeId : next[n][l] # Null =>
           n \in Live /\ node[n].level >= l /\ next[n][l] \in Data /\ place[n] < place[next[n][l]]
    BY DEF Shape, Links
  <2>2. \A n \in NodeId : On(l, n) /\ next[n][l] # Null => On(l, next[n][l])
    BY DEF Shape, Links
  <2>3. \A n, m \in NodeId : On(l, n) /\ On(l, m) /\ place[n] < place[m] =>
           next[n][l] # Null /\ place[next[n][l]] <= place[m]
    BY DEF Shape, Links
  <2>4. ASSUME NEW n \in NodeId, next'[n][l] # Null
        PROVE  /\ n \in Live' /\ node'[n].level >= l /\ next'[n][l] \in Data'
               /\ place[n] < place[next'[n][l]]
               /\ next'[n][l] \in Live' /\ node'[next'[n][l]].level >= l
    <3>1. n # target /\ next'[n][l] = next[n][l]
      BY <1>1, <2>4
    <3>2. n \in Live /\ node[n].level >= l /\ next[n][l] \in Data /\ place[n] < place[next[n][l]]
      BY <2>1, <2>4, <3>1
    <3>3. n \in Live' /\ node'[n].level >= l
      BY <1>1, <3>1, <3>2
    <3>4. On(l, next[n][l])
      BY <1>5, <2>2, <2>4, <3>1, <3>3
    <3>5. next[n][l] \in Live' /\ node'[next[n][l]].level >= l
      BY <1>5, <3>4
    <3> QED
      BY <1>1, <1>2, <3>1, <3>2, <3>3, <3>5
  <2>5. \A n : On(l, n) => n # target
    BY <1>1, <1>5
  <2>6. \A n, m \in NodeId : On(l, n) /\ On(l, m) /\ place[n] < place[m] =>
                  next'[n][l] # Null /\ place[next'[n][l]] <= place[m]
    BY <1>1, <2>3, <2>5
  <2> QED
    BY <2>4, <2>6
<1>7. Links(place)'
  BY <1>2, <1>5, <1>6 DEF Links, On
<1>8. Walk(place)'
  BY <1>1, <1>2 DEF Walk
<1> QED
  BY <1>1, <1>4, <1>7, <1>8 DEF Shape

-----------------------------------------------------------------------------
(* The list keeps its shape until something undefined ends it all.         *)

LEMMA EndTypes ==
    ASSUME SLTypeOK, EraseEnd \/ UnlinkBelow
    PROVE  SLTypeOK'
<1>1. CASE EraseEnd
  <2>1. nodes' = Front(nodes) /\ op' = "dead" /\ fault' = "erase"
        /\ UNCHANGED <<node, next, genAt, level, previous, target>>
    BY <1>1 DEF EraseEnd
  <2>2. PICK n \in Nat : n = Len(nodes) /\ DOMAIN nodes = 1..n /\ nodes \in Seq(NodeId)
    BY DEF SLTypeOK
  <2>3. nodes' = SubSeq(nodes, 1, n - 1)
    BY <2>1, <2>2 DEF Front
  <2>4. nodes' \in Seq(NodeId) /\ DOMAIN nodes' = 1..(n - 1) /\ \A i \in 1..(n - 1) : nodes'[i] = nodes[i]
    <3>1. CASE n = 0
      <4>1. nodes' = <<>>
        BY <2>2, <2>3, <3>1
      <4> QED
        BY <3>1, <4>1
    <3>2. CASE n # 0
      BY <2>2, <2>3, <3>2
    <3> QED
      BY <3>1, <3>2
  <2>5. IsInjective(nodes')
    <3>1. \A i \in 1..(n - 1) : i \in 1..n
      BY <2>2
    <3> QED
      BY <2>2, <2>4, <3>1 DEF SLTypeOK, IsInjective
  <2> QED
    BY <2>1, <2>4, <2>5 DEF SLTypeOK
<1>2. CASE UnlinkBelow
  BY <1>2, MaxLevelAssumption DEF UnlinkBelow, SLTypeOK
<1> QED
  BY <1>1, <1>2

LEMMA InitShape == SLInit => SLInv
<1> SUFFICES ASSUME SLInit PROVE SLInv
  OBVIOUS
<1>1. /\ nodes = <<Header>> /\ node = [n \in NodeId |-> Blank]
      /\ next = [n \in NodeId |-> [l \in Levels |-> Null]] /\ genAt = 0 /\ op = "idle" /\ level = 0
      /\ previous = [l \in Levels |-> Null] /\ target = Null /\ fault = "none"
  BY DEF SLInit
<1>2. Header \in NodeId /\ 0 \in 0..MaxLevel /\ 0 \in 0..(MaxLevel + 1) /\ MaxLevel \in Levels
  BY MaxLevelAssumption, MaxNodesAssumption DEF Header, NodeId, Levels
<1>3. SLTypeOK
  BY <1>1, <1>2 DEF SLTypeOK, IsInjective, Blank
<1> DEFINE place == [n \in NodeId |-> 0]
<1>4. Live = {Header} /\ Data = {} /\ ~Removing
  BY <1>1 DEF Live, Data, Removing
<1>5. Places(place)
  BY <1>1, <1>2, <1>4, MaxLevelAssumption DEF Places, Blank, Levels
<1>6. Links(place)
  BY <1>1, <1>4 DEF Links, On
<1>7. Walk(place)
  BY <1>1, <1>4 DEF Walk
<1>8. Shape(place)
  BY <1>3, <1>5, <1>6, <1>7 DEF Shape
<1> HIDE DEF place
<1> QED
  BY <1>1, <1>3, <1>8 DEF SLInv

LEMMA UnchangedShape ==
    ASSUME SLInv, UNCHANGED slvars
    PROVE  SLInv'
<1>1. UNCHANGED <<nodes, node, next, genAt, op, level, previous, target, fault>>
  BY DEF slvars
<1>2. SLTypeOK'
  BY <1>1 DEF SLInv, SLTypeOK
<1>3. ASSUME NEW place, Shape(place)
      PROVE  Shape(place)'
  <2>1. Live' = Live /\ Data' = Data /\ (Removing' <=> Removing)
    BY <1>1 DEF Live, Data, Removing
  <2>2. Places(place)'
    BY <1>1, <1>3, <2>1 DEF Shape, Places
  <2>3. Links(place)'
    BY <1>1, <1>3, <2>1 DEF Shape, Links, On
  <2>4. Walk(place)'
    BY <1>1, <1>3, <2>1 DEF Shape, Walk, On
  <2> QED
    BY <1>2, <2>2, <2>3, <2>4 DEF Shape
<1>4. CASE op = "dead"
  BY <1>1, <1>2, <1>4 DEF SLInv
<1>5. CASE op # "dead"
  <2>1. PICK place : Shape(place) /\ fault = "none"
    BY <1>5 DEF SLInv
  <2>2. Shape(place)'
    BY <1>3, <2>1
  <2> QED
    BY <1>1, <1>2, <2>1, <2>2 DEF SLInv
<1> QED
  BY <1>4, <1>5

LEMMA StepShape == SLInv /\ [SLNext]_slvars => SLInv'
<1> SUFFICES ASSUME SLInv, [SLNext]_slvars PROVE SLInv'
  OBVIOUS
<1>1. ASSUME NEW k \in Key, NEW v \in Value, Insert(k, v)
      PROVE  SLInv'
  <2>1. op = "idle" /\ op' = op /\ fault' = fault
    BY <1>1 DEF Insert
  <2>2. PICK place : Shape(place) /\ fault = "none"
    BY <2>1 DEF SLInv
  <2>3. PICK new, p, h : Inserts(k, v, new, p, h)
    BY <1>1, <2>2, InsertInserts DEF Shape
  <2>4. PICK q : q = Inserted(place, new, p[1])
    OBVIOUS
  <2>5. Shape(q)'
    BY <2>2, <2>3, <2>4, InsertShape
  <2> QED
    BY <2>1, <2>2, <2>5 DEF SLInv, Shape
<1>2. ASSUME NEW k \in Key, RemoveSearch(k)
      PROVE  SLInv'
  <2>1. op = "idle" /\ fault' = fault
    BY <1>2 DEF RemoveSearch
  <2>2. PICK place : Shape(place) /\ fault = "none"
    BY <2>1 DEF SLInv
  <2>3. Shape(place)'
    BY <1>2, <2>2, RemoveSearchShape
  <2> QED
    BY <2>1, <2>2, <2>3 DEF SLInv, Shape
<1>3. CASE UnlinkBelow
  <2>1. op = "unlink" /\ (op' # "dead" => fault' = fault)
    BY <1>3 DEF UnlinkBelow
  <2>2. PICK place : Shape(place) /\ fault = "none"
    BY <2>1 DEF SLInv
  <2>3. op' # "dead" => Shape(place)'
    BY <1>3, <2>2, UnlinkBelowShape
  <2>4. SLTypeOK'
    BY <1>3, EndTypes DEF SLInv
  <2> QED
    BY <2>1, <2>2, <2>3, <2>4 DEF SLInv
<1>4. CASE Unlink
  <2>1. op = "unlink" /\ fault' = fault
    BY <1>4 DEF Unlink
  <2>2. PICK place : Shape(place) /\ fault = "none"
    BY <2>1 DEF SLInv
  <2>3. Shape(place)'
    BY <1>4, <2>2, UnlinkShape
  <2> QED
    BY <2>1, <2>2, <2>3 DEF SLInv, Shape
<1>5. CASE Erase
  <2>1. op = "erase" /\ fault' = fault
    BY <1>5 DEF Erase
  <2>2. PICK place : Shape(place) /\ fault = "none"
    BY <2>1 DEF SLInv
  <2>3. Shape(place)'
    BY <1>5, <2>2, EraseShape
  <2> QED
    BY <2>1, <2>2, <2>3 DEF SLInv, Shape
<1>6. CASE EraseEnd
  <2>1. op' = "dead" /\ SLTypeOK'
    BY <1>6, EndTypes DEF EraseEnd, SLInv
  <2> QED
    BY <2>1 DEF SLInv
<1>7. CASE UNCHANGED slvars
  BY <1>7, UnchangedShape
<1> QED
  BY <1>1, <1>2, <1>3, <1>4, <1>5, <1>6, <1>7 DEF SLNext

LEMMA InvIsSafe == SLInv => LevelsAreSorted /\ FindReturnsNewestOfHighest
<1> SUFFICES ASSUME SLInv PROVE LevelsAreSorted /\ FindReturnsNewestOfHighest
  OBVIOUS
<1>1. CASE Quiet
  <2>1. PICK place : Shape(place) /\ op = "idle"
    BY <1>1 DEF SLInv, Quiet
  <2> QED
    BY <2>1, ShapeIsSorted, ShapeFindsNewest
<1>2. CASE ~Quiet
  BY <1>2 DEF SLInv, LevelsAreSorted, FindReturnsNewestOfHighest
<1> QED
  BY <1>1, <1>2

\* The skip list keeps its shape: nodes can be numbered from left to right so
\* that every level links exactly the nodes that reach it, in order of number
\* and key, all through an insert and all through the walk of a remove.
LEMMA ListInvariant == SLSpec => []SLInv
<1>1. SLInit => SLInv
  BY InitShape
<1>2. SLInv /\ [SLNext]_slvars => SLInv'
  BY StepShape
<1> QED
  BY <1>1, <1>2, PTL DEF SLSpec

\* insert and remove keep every level of the list sorted and complete.
THEOREM ListStaysSorted == SLSpec => []LevelsAreSorted
<1>1. SLInv => LevelsAreSorted
  BY InvIsSafe
<1> QED
  BY <1>1, ListInvariant, PTL

\* find, with its shortcut over the levels, finds a key exactly when a node
\* holds it, and gives the value of the newest of the highest nodes.
THEOREM FindIsRight == SLSpec => []FindReturnsNewestOfHighest
<1>1. SLInv => FindReturnsNewestOfHighest
  BY InvIsSafe
<1> QED
  BY <1>1, ListInvariant, PTL

-----------------------------------------------------------------------------
(* The list implements a stack of values per key.                          *)

KeyNodes(k) == {m \in NodeId : On(1, m) /\ node[m].key = k}

LEMMA NodesOfNow == \A place : Shape(place) => \A k \in Key : Lists(place, KeyNodes(k), NodesOf(k))
BY NodesOfLists DEF KeyNodes

LEMMA NodesOfNext == \A place : Shape(place)' => \A k \in Key : Lists(place, KeyNodes(k)', NodesOf(k)')
<1>1. (\A place : Shape(place) => \A k \in Key : Lists(place, KeyNodes(k), NodesOf(k)))'
  BY NodesOfNow, PTL
<1> QED
  BY <1>1 DEF Lists

\* The values of a list of nodes.
Values(c) == [i \in DOMAIN c |-> node[c[i]].value]

LEMMA HeldIsValues == \A k : Held(k) = Values(NodesOf(k))
BY DEF Held, Values

LEMMA ValuesOfOneMore ==
    ASSUME SLTypeOK, NEW c \in Seq(NodeId), NEW x \in NodeId
    PROVE  Values(<<x>> \o c) = <<node[x].value>> \o Values(c) /\ Values(c) = Tail(Values(<<x>> \o c))
           /\ Values(c) \in Seq(Value \cup {None}) /\ Values(<<x>> \o c) # <<>>
<1>1. PICK n \in Nat : n = Len(c) /\ DOMAIN c = 1..n
  OBVIOUS
<1> DEFINE d == <<x>> \o c
<1>2. d \in Seq(NodeId) /\ DOMAIN d = 1..(n + 1) /\ d[1] = x /\ \A i \in 1..n : d[i + 1] = c[i]
  BY <1>1
<1> HIDE DEF d
<1>3. \A y \in NodeId : node[y].value \in Value \cup {None}
  BY DEF SLTypeOK
<1>4. \A i \in 1..n : c[i] \in NodeId
  BY <1>1
<1>5. Values(c) \in Seq(Value \cup {None}) /\ Len(Values(c)) = n /\ \A i \in 1..n : Values(c)[i] = node[c[i]].value
  BY <1>1, <1>3, <1>4 DEF Values
<1>6. \A i \in 1..(n + 1) : d[i] \in NodeId
  BY <1>2
<1>7. /\ Values(d) \in Seq(Value \cup {None}) /\ Len(Values(d)) = n + 1
      /\ \A i \in 1..(n + 1) : Values(d)[i] = node[d[i]].value
  BY <1>2, <1>3, <1>6 DEF Values
<1> DEFINE e == <<node[x].value>> \o Values(c)
<1>8. e \in Seq(Value \cup {None}) /\ Len(e) = n + 1 /\ e[1] = node[x].value
      /\ \A i \in 1..n : e[i + 1] = Values(c)[i]
  BY <1>3, <1>5
<1> HIDE DEF e
<1>9. \A i \in 1..(n + 1) : Values(d)[i] = e[i]
  <2>1. \A i \in 1..(n + 1) : i = 1 \/ (i - 1 \in 1..n /\ i = (i - 1) + 1)
    OBVIOUS
  <2>2. Values(d)[1] = e[1]
    BY <1>2, <1>7, <1>8
  <2>3. \A i \in 1..n : i + 1 \in 1..(n + 1) /\ Values(d)[i + 1] = e[i + 1]
    <3> SUFFICES ASSUME NEW i \in 1..n
                 PROVE  i + 1 \in 1..(n + 1) /\ Values(d)[i + 1] = e[i + 1]
      OBVIOUS
    <3>1. i + 1 \in 1..(n + 1)
      OBVIOUS
    <3>2. Values(d)[i + 1] = node[c[i]].value
      BY <1>2, <1>7, <3>1
    <3>3. e[i + 1] = node[c[i]].value
      BY <1>5, <1>8
    <3> QED
      BY <3>1, <3>2, <3>3
  <2> QED
    BY <2>1, <2>2, <2>3
<1>10. Values(d) = e
  BY <1>7, <1>8, <1>9
<1>11. Tail(Values(d)) \in Seq(Value \cup {None}) /\ Len(Tail(Values(d))) = n
       /\ \A i \in 1..n : Tail(Values(d))[i] = Values(d)[i + 1]
  BY <1>7
<1>12. \A i \in 1..n : Tail(Values(d))[i] = Values(c)[i]
  BY <1>8, <1>10, <1>11
<1>13. Tail(Values(d)) = Values(c)
  BY <1>5, <1>11, <1>12
<1>14. Values(d) # <<>>
  BY <1>7
<1> QED
  BY <1>5, <1>10, <1>13, <1>14 DEF d, e

LEMMA KeyNodesOrder ==
    ASSUME NEW place, Shape(place), NEW k \in Key
    PROVE  /\ Lists(place, KeyNodes(k), NodesOf(k)) /\ NodesOf(k) \in Seq(NodeId)
           /\ \A m \in KeyNodes(k) : m \in Live /\ m \in NodeId /\ place[m] \in Nat /\ node[m].key = k
           /\ \A i \in DOMAIN NodesOf(k) : NodesOf(k)[i] \in KeyNodes(k)
<1>1. Lists(place, KeyNodes(k), NodesOf(k))
  BY NodesOfNow
<1>2. NodesOf(k) \in Seq(NodeId) /\ \A i \in DOMAIN NodesOf(k) : NodesOf(k)[i] \in KeyNodes(k)
  BY <1>1 DEF Lists
<1>3. \A m \in KeyNodes(k) : m \in Live /\ m \in NodeId /\ node[m].key = k
  BY DEF KeyNodes, On
<1>4. \A m \in KeyNodes(k) : place[m] \in Nat
  BY <1>3 DEF Shape, Places
<1> QED
  BY <1>1, <1>2, <1>3, <1>4

\* A step that keeps the nodes of key k, their order and their values keeps what
\* the list holds for it.
LEMMA SameHeld ==
    ASSUME NEW place, NEW q, Shape(place), Shape(q)', NEW k \in Key, KeyNodes(k)' = KeyNodes(k),
           \A n, m \in KeyNodes(k) : place[n] < place[m] => q[n] < q[m],
           \A n \in KeyNodes(k) : node'[n].value = node[n].value
    PROVE  Held(k)' = Held(k)
<1>1. /\ Lists(place, KeyNodes(k), NodesOf(k)) /\ NodesOf(k) \in Seq(NodeId)
      /\ \A i \in DOMAIN NodesOf(k) : NodesOf(k)[i] \in KeyNodes(k)
  BY KeyNodesOrder
<1>2. Lists(q, KeyNodes(k), NodesOf(k)')
  BY NodesOfNext
<1>3. Lists(q, KeyNodes(k), NodesOf(k))
  BY <1>1 DEF Lists
<1>4. q \in [NodeId -> Nat]
  BY DEF Shape, Places
<1>5. NodesOf(k)' = NodesOf(k)
  BY <1>2, <1>3, <1>4, ListedOnce
<1> QED
  BY <1>1, <1>5 DEF Held

LEMMA InsertHeld ==
    ASSUME NEW place, Shape(place), NEW k \in Key, NEW v \in Value, NEW new, NEW p, NEW h,
           Inserts(k, v, new, p, h)
    PROVE  \A j \in Key : Held(j)' = IF j = k THEN <<v>> \o Held(j) ELSE Held(j)
<1>1. PICK q : q = Inserted(place, new, p[1])
  OBVIOUS
<1>2. Shape(q)'
  BY <1>1, InsertShape
<1>3. /\ q \in [NodeId -> Nat]
      /\ node' = [node EXCEPT ![new] = [key |-> k, value |-> v, level |-> h]]
  BY <1>1, InsertPlaces
<1>4. /\ \A n, m \in Live : (q[n] < q[m] <=> place[n] < place[m]) /\ (q[n] = q[m] => n = m)
      /\ \A n \in Live : /\ q[n] # q[new]
                         /\ q[n] < q[new] <=> node[n].key < k
                         /\ q[n] < q[new] <=> ~(q[new] < q[n])
  BY <1>1, InsertPlaces
<1>5. \A l \in Levels : \A n : On(l, n)' <=> On(l, n) \/ (n = new /\ l <= h)
  BY <1>1, InsertPlaces
<1>6. /\ h \in Levels /\ new \in NodeId /\ new \notin Live /\ 1 \in Levels /\ 1 <= h /\ k \in Nat
  BY KeyAssumption, MaxLevelAssumption DEF Inserts, Levels
<1>7. /\ node'[new] = [key |-> k, value |-> v, level |-> h]
      /\ \A n \in NodeId : n # new => node'[n] = node[n]
  BY <1>3, <1>6 DEF Shape, SLTypeOK
<1>8. \A n : On(1, n) => n # new
  BY <1>6 DEF On
<1>9. \A j \in Key : KeyNodes(j)' = IF j = k THEN {new} \cup KeyNodes(j) ELSE KeyNodes(j)
  <2> SUFFICES ASSUME NEW j \in Key
               PROVE  KeyNodes(j)' = IF j = k THEN {new} \cup KeyNodes(j) ELSE KeyNodes(j)
    OBVIOUS
  <2>1. \A n \in NodeId : n \in KeyNodes(j)' <=> On(1, n)' /\ node'[n].key = j
    BY DEF KeyNodes
  <2>2. \A n \in NodeId : n \in KeyNodes(j)' <=> n \in KeyNodes(j) \/ (n = new /\ j = k)
    BY <1>5, <1>6, <1>7, <1>8, <2>1 DEF KeyNodes
  <2>3. KeyNodes(j) \subseteq NodeId /\ KeyNodes(j)' \subseteq NodeId
    BY DEF KeyNodes
  <2> QED
    BY <1>6, <2>2, <2>3
<1>10. ASSUME NEW j \in Key, j # k
       PROVE  Held(j)' = Held(j)
  <2>1. KeyNodes(j)' = KeyNodes(j)
    BY <1>9, <1>10
  <2>2. \A n \in KeyNodes(j) : n \in Live /\ n \in NodeId /\ n # new
    BY <1>6, KeyNodesOrder
  <2>3. \A n, m \in KeyNodes(j) : place[n] < place[m] => q[n] < q[m]
    BY <1>4, <2>2
  <2>4. \A n \in KeyNodes(j) : node'[n].value = node[n].value
    BY <1>7, <2>2
  <2> QED
    BY <1>2, <2>1, <2>3, <2>4, SameHeld
<1>11. Held(k)' = <<v>> \o Held(k)
  <2> DEFINE c == NodesOf(k)
  <2>1. /\ Lists(place, KeyNodes(k), c) /\ c \in Seq(NodeId)
        /\ \A m \in KeyNodes(k) : m \in Live /\ m \in NodeId /\ node[m].key = k
        /\ \A i \in DOMAIN c : c[i] \in KeyNodes(k)
    BY KeyNodesOrder
  <2>2. PICK d : d = <<new>> \o c
    OBVIOUS
  <2> HIDE DEF c
  <2>3. Lists(q, KeyNodes(k), c)
    BY <1>4, <2>1 DEF Lists
  <2>4. \A m \in KeyNodes(k) : q[new] < q[m]
    <3> SUFFICES ASSUME NEW m \in KeyNodes(k) PROVE q[new] < q[m]
      OBVIOUS
    <3>1. m \in Live /\ ~(node[m].key < k)
      BY <1>6, <2>1
    <3> QED
      BY <1>4, <3>1
  <2>5. Lists(q, {new} \cup KeyNodes(k), <<new>> \o c)
    BY <1>3, <1>6, <2>3, <2>4, ListsOneMore
  <2>6. Lists(q, {new} \cup KeyNodes(k), NodesOf(k)')
    <3>1. Lists(q, KeyNodes(k)', NodesOf(k)')
      BY <1>2, NodesOfNext
    <3>2. KeyNodes(k)' = {new} \cup KeyNodes(k)
      BY <1>9
    <3> QED
      BY <3>1, <3>2
  <2>7. NodesOf(k)' = d
    BY <1>3, <2>2, <2>5, <2>6, ListedOnce
  <2>8. Held(k)' = [i \in DOMAIN d |-> node'[d[i]].value]
    BY <2>7 DEF Held
  <2>9. PICK n \in Nat : n = Len(c) /\ DOMAIN c = 1..n
    BY <2>1
  <2>10. DOMAIN d = 1..(n + 1) /\ d[1] = new /\ \A i \in 1..n : d[i + 1] = c[i]
    BY <1>6, <2>1, <2>2, <2>9
  <2>11. Held(k) = [i \in 1..n |-> node[c[i]].value]
    BY <2>9 DEF Held, c
  <2>12. \A i \in 1..n : node'[c[i]] = node[c[i]] /\ c[i] \in NodeId
    BY <1>6, <1>7, <2>1, <2>9
  <2>13. \A i \in 1..n : node[c[i]].value \in Value \cup {None}
    BY <2>12 DEF Shape, SLTypeOK
  <2>14. Held(k) \in Seq(Value \cup {None}) /\ Len(Held(k)) = n
    BY <2>11, <2>13
  <2> DEFINE e == <<v>> \o Held(k)
  <2>15. e \in Seq(Value \cup {None}) /\ DOMAIN e = 1..(n + 1) /\ e[1] = v
         /\ \A i \in 1..n : e[i + 1] = Held(k)[i]
    BY <2>14
  <2> HIDE DEF e
  <2>16. \A i \in 1..(n + 1) : node'[d[i]].value = e[i]
    <3>1. \A i \in 1..(n + 1) : i = 1 \/ (i - 1 \in 1..n /\ i = (i - 1) + 1)
      OBVIOUS
    <3>2. node'[d[1]].value = e[1]
      BY <1>7, <2>10, <2>15
    <3>3. ASSUME NEW i \in 1..n PROVE node'[d[i + 1]].value = e[i + 1]
      <4>1. node'[d[i + 1]].value = node[c[i]].value
        BY <2>10, <2>12
      <4>2. e[i + 1] = node[c[i]].value
        BY <2>11, <2>15
      <4> QED
        BY <4>1, <4>2
    <3> QED
      BY <3>1, <3>2, <3>3
  <2>17. e = [i \in 1..(n + 1) |-> e[i]]
    BY <2>15
  <2>18. Held(k)' = e
    BY <2>8, <2>10, <2>16, <2>17
  <2> QED
    BY <2>18 DEF e
<1> QED
  BY <1>10, <1>11

\* remove takes the newest value of its key when it unlinks the lowest level.
LEMMA UnlinkHeld ==
    ASSUME NEW place, Shape(place), Unlink
    PROVE  \/ level = 1 /\ Held(node[target].key) # <<>> /\ node[target].key \in Key
              /\ \A j \in Key : Held(j)' = IF j = node[target].key THEN Tail(Held(j)) ELSE Held(j)
           \/ level # 1 /\ \A j \in Key : Held(j)' = Held(j)
<1>1. Shape(place)'
  BY UnlinkShape
<1>2. op = "unlink" /\ level \in Levels /\ UNCHANGED <<node, target>>
  BY DEF Unlink
<1>3. Removing /\ target \in Data /\ target \in Live /\ target \in NodeId /\ 1 \in Levels
      /\ place \in [NodeId -> Nat] /\ SLTypeOK
  <2>1. Removing
    BY <1>2 DEF Shape, Walk, Removing
  <2>2. target \in Data /\ target \in Live
    BY <2>1 DEF Shape, Walk, Data
  <2> QED
    BY <2>1, <2>2, LiveIsNodes, MaxLevelAssumption DEF Shape, Places, Levels
<1>4. \A n : On(1, n)' <=> On(1, n) /\ ~(level = 1 /\ n = target)
  BY <1>3, UnlinkOn
<1>5. \A j \in Key : KeyNodes(j)' = {m \in KeyNodes(j) : ~(level = 1 /\ m = target)}
  BY <1>2, <1>4 DEF KeyNodes
<1>6. ASSUME NEW j \in Key, KeyNodes(j)' = KeyNodes(j)
      PROVE  Held(j)' = Held(j)
  BY <1>1, <1>2, <1>6, SameHeld
<1>7. CASE level # 1
  <2>1. \A j \in Key : KeyNodes(j)' = KeyNodes(j)
    BY <1>5, <1>7 DEF KeyNodes
  <2> QED
    BY <1>6, <1>7, <2>1
<1>8. CASE level = 1
  <2>1. PICK k \in Key : k = node[target].key
    BY <1>3 DEF Shape, Places
  <2>2. \A j \in Key : j # k => KeyNodes(j)' = KeyNodes(j)
    BY <1>5, <2>1 DEF KeyNodes
  <2>3. On(1, target)
    <3>1. node[target].level >= 1
      BY <1>3, Ordered DEF Shape, Levels
    <3> QED
      BY <1>3, <1>8, <3>1 DEF On
  <2> DEFINE R == KeyNodes(k) \ {target}
  <2>4. KeyNodes(k)' = R /\ KeyNodes(k) = {target} \cup R
    <3>1. target \in KeyNodes(k)
      BY <1>3, <2>1, <2>3 DEF KeyNodes
    <3>2. KeyNodes(k)' = {m \in KeyNodes(k) : ~(level = 1 /\ m = target)}
      BY <1>5
    <3> QED
      BY <1>8, <3>1, <3>2
  <2>5. PICK c : c = NodesOf(k)' /\ Lists(place, R, c) /\ c \in Seq(NodeId)
    <3>1. Lists(place, KeyNodes(k)', NodesOf(k)')
      BY <1>1, NodesOfNext
    <3>2. Lists(place, R, NodesOf(k)')
      BY <2>4, <3>1
    <3> QED
      BY <3>2 DEF Lists
  <2>6. \A y \in R : place[target] < place[y]
    <3> SUFFICES ASSUME NEW y \in R PROVE place[target] < place[y]
      OBVIOUS
    <3>1. y \in Live /\ y \in NodeId /\ node[y].key = k /\ y # target
      BY KeyNodesOrder
    <3>2. place[target] <= place[y]
      BY <1>3, <2>1, <3>1 DEF Shape, Walk
    <3>3. place[target] # place[y]
      BY <1>3, <3>1 DEF Shape, Places
    <3> QED
      BY <1>3, <3>1, <3>2, <3>3
  <2> HIDE DEF R
  <2>7. Lists(place, {target} \cup R, <<target>> \o c)
    BY <1>3, <2>5, <2>6, ListsOneMore
  <2>8. Lists(place, KeyNodes(k), NodesOf(k))
    BY KeyNodesOrder
  <2>9. NodesOf(k) = <<target>> \o c
    BY <1>3, <2>4, <2>7, <2>8, ListedOnce
  <2>10. Held(k) = Values(<<target>> \o c)
    BY <2>9, HeldIsValues
  <2>11. Held(k)' = Values(c)
    <3>1. Held(k)' = [i \in DOMAIN NodesOf(k)' |-> node'[NodesOf(k)'[i]].value]
      BY <1>2 DEF Held
    <3> QED
      BY <1>2, <2>5, <3>1 DEF Values
  <2>12. Held(k) # <<>> /\ Held(k)' = Tail(Held(k))
    BY <1>3, <2>5, <2>10, <2>11, ValuesOfOneMore
  <2>13. \A j \in Key : j # k => Held(j)' = Held(j)
    BY <1>6, <2>2
  <2>14. \A j \in Key : Held(j)' = IF j = k THEN Tail(Held(j)) ELSE Held(j)
    BY <2>12, <2>13
  <2> QED
    BY <1>8, <2>1, <2>12, <2>14
<1> QED
  BY <1>7, <1>8

LEMMA EraseHeld ==
    ASSUME NEW place, Shape(place), Erase, NEW j \in Key
    PROVE  Held(j)' = Held(j)
<1>1. Shape(place)'
  BY EraseShape
<1>2. /\ SLTypeOK' /\ Live' = Live \ {target} /\ op' = "idle"
      /\ \A l \in Levels : \A n : On(l, n)' <=> On(l, n)
      /\ \A n \in NodeId : n # target => node'[n] = node[n] /\ next'[n] = next[n]
      /\ node'[target] = Blank /\ next'[target] = [l \in Levels |-> Null]
      /\ target \in Data
  BY EraseOn
<1>3. \A n : On(1, n)' <=> On(1, n)
  BY <1>2, MaxLevelAssumption DEF Levels
<1>4. \A n \in NodeId : On(1, n) => n # target /\ node'[n] = node[n]
  <2>1. \A n : On(1, n)' => n \in Live'
    BY DEF On
  <2> QED
    BY <1>2, <1>3, <2>1
<1>5. KeyNodes(j)' = KeyNodes(j)
  BY <1>3, <1>4 DEF KeyNodes
<1>6. \A n \in KeyNodes(j) : node'[n].value = node[n].value
  BY <1>4 DEF KeyNodes
<1> QED
  BY <1>1, <1>5, <1>6, SameHeld

LEMMA UnchangedHeld ==
    ASSUME UNCHANGED <<node, next>>, NEW j
    PROVE  Held(j)' = Held(j)
BY DEF Held, NodesOf

\* What each step does to the values the list holds.
LEMMA StepHeld ==
    ASSUME SLInv, SLNext
    PROVE  \/ \E k \in Key, v \in Value :
                \A j \in Key : Held(j)' = IF j = k THEN <<v>> \o Held(j) ELSE Held(j)
           \/ \E k \in Key : /\ Held(k) # <<>>
                             /\ \A j \in Key : Held(j)' = IF j = k THEN Tail(Held(j)) ELSE Held(j)
           \/ \A j \in Key : Held(j)' = Held(j)
<1>1. ASSUME NEW k \in Key, NEW v \in Value, Insert(k, v)
      PROVE  \A j \in Key : Held(j)' = IF j = k THEN <<v>> \o Held(j) ELSE Held(j)
  <2>1. PICK place : Shape(place)
    BY <1>1 DEF SLInv, Insert
  <2>2. PICK new, p, h : Inserts(k, v, new, p, h)
    BY <1>1, <2>1, InsertInserts DEF Shape
  <2> QED
    BY <2>1, <2>2, InsertHeld
<1>2. ASSUME NEW k \in Key, RemoveSearch(k)
      PROVE  \A j \in Key : Held(j)' = Held(j)
  BY <1>2, UnchangedHeld DEF RemoveSearch
<1>3. CASE UnlinkBelow \/ EraseEnd
  BY <1>3, UnchangedHeld DEF UnlinkBelow, EraseEnd
<1>4. CASE Unlink
  <2>1. PICK place : Shape(place)
    BY <1>4 DEF SLInv, Unlink
  <2> QED
    BY <1>4, <2>1, UnlinkHeld
<1>5. CASE Erase
  <2>1. PICK place : Shape(place)
    BY <1>5 DEF SLInv, Erase
  <2> QED
    BY <1>5, <2>1, EraseHeld
<1> QED
  BY <1>1, <1>2, <1>3, <1>4, <1>5 DEF SLNext

LEMMA InitHeld == ASSUME SLInit, NEW k \in Key PROVE Held(k) = <<>>
<1>1. PICK place : Shape(place)
  BY InitShape DEF SLInit, SLInv
<1>2. Live = {Header} /\ Header \in NodeId /\ node[Header].key = 0
  BY MaxNodesAssumption DEF SLInit, Live, NodeId, Header, Blank
<1>3. KeyNodes(k) = {}
  BY <1>2, KeyAssumption DEF KeyNodes, On
<1>4. Lists(place, {}, NodesOf(k))
  <2>1. Lists(place, KeyNodes(k), NodesOf(k))
    BY <1>1, NodesOfNow
  <2> QED
    BY <1>3, <2>1
<1>5. NodesOf(k) = <<>>
  BY <1>1, <1>4, ListsNothing, ListedOnce DEF Shape, Places
<1> QED
  BY <1>5 DEF Held

LEMMA InitRefines == SLInit => Abs!AInit
<1> SUFFICES ASSUME SLInit PROVE Abs!AInit
  OBVIOUS
<1>1. \A k \in Key : Held(k) = <<>>
  BY InitHeld
<1> QED
  BY <1>1 DEF Abs!AInit

LEMMA NextRefines == SLInv /\ [SLNext]_slvars => [Abs!ANext]_[k \in Key |-> Held(k)]
<1> SUFFICES ASSUME SLInv, [SLNext]_slvars
             PROVE  Abs!ANext \/ UNCHANGED [k \in Key |-> Held(k)]
  OBVIOUS
<1> DEFINE held == [k \in Key |-> Held(k)]
<1>0. held' = [k \in Key |-> Held(k)']
  OBVIOUS
<1>1. ASSUME NEW k \in Key, NEW v \in Value,
             \A j \in Key : Held(j)' = IF j = k THEN <<v>> \o Held(j) ELSE Held(j)
      PROVE  Abs!ANext
  <2>1. held' = [held EXCEPT ![k] = <<v>> \o @]
    BY <1>1
  <2>2. Abs!AInsert(k, v)
    BY <2>1 DEF Abs!AInsert
  <2> QED
    BY <2>2 DEF Abs!ANext
<1>2. ASSUME NEW k \in Key, Held(k) # <<>>,
             \A j \in Key : Held(j)' = IF j = k THEN Tail(Held(j)) ELSE Held(j)
      PROVE  Abs!ANext
  <2>1. held' = [held EXCEPT ![k] = Tail(@)] /\ held[k] # <<>>
    BY <1>2
  <2>2. Abs!ARemove(k)
    BY <2>1 DEF Abs!ARemove
  <2> QED
    BY <2>2 DEF Abs!ANext
<1>3. ASSUME \A j \in Key : Held(j)' = Held(j)
      PROVE  held' = held
  BY <1>3
<1>4. CASE SLNext
  BY <1>1, <1>2, <1>3, <1>4, StepHeld
<1>5. CASE UNCHANGED slvars
  <2>1. \A j \in Key : Held(j)' = Held(j)
    BY <1>5, UnchangedHeld DEF slvars
  <2> QED
    BY <1>3, <2>1
<1> QED
  BY <1>4, <1>5

\* The skip list implements a stack of values per key: an insert puts its value
\* on top, remove takes the top one away when it unlinks the lowest level, and
\* no other step changes what is held.
THEOREM ListIsStacks == SLSpec => ImplementsKeyStacks
<1>1. SLInit => Abs!AInit
  BY InitRefines
<1>2. SLInv /\ [SLNext]_slvars => [Abs!ANext]_[k \in Key |-> Held(k)]
  BY NextRefines
<1> QED
  BY <1>1, <1>2, ListInvariant, PTL DEF SLSpec, ImplementsKeyStacks, Abs!ASpec

-----------------------------------------------------------------------------
(* The database.                                                           *)

Types ==
    /\ useSkipList \in Modes
    /\ map \in UNION {[D -> Value] : D \in SUBSET Key}
    /\ last \in [Key -> Value \cup {None}]
    /\ rewritten \subseteq Key
    /\ \/ iter = NoIter
       \/ iter \in [state : {"ready", "more", "done", "dangling"}, cur : Key \cup {End},
                    end : Key \cup {End}, stable : SUBSET Key, seen : Seq(Key \cup {End})]

Shown(k) == \E i \in DOMAIN iter.seen : iter.seen[i] = k

\* In the range, and not its end key, where Next stops.
BeforeEnd(k) == k >= iter.seen[1] /\ (iter.end # End => k < iter.end)

\* A scan of a good range stands on the last key it showed, which is in the map,
\* at or before the end key, and has shown every stable key up to there.
Scan ==
    Scanning =>
      /\ iter.stable \subseteq DOMAIN map
      /\ iter.state = "done" => iter.cur = iter.end
      /\ iter.seen = <<>> => iter.cur = End
      /\ GoodRange =>
           /\ \A i \in 1..(Len(iter.seen) - 1) : iter.seen[i] < iter.seen[i + 1]
           /\ \A i \in 2..Len(iter.seen) : BeforeEnd(iter.seen[i])
           /\ iter.state \in {"ready", "more"} =>
                /\ iter.cur = iter.seen[Len(iter.seen)] /\ iter.cur \in DOMAIN map
                /\ iter.end # End => iter.end \in DOMAIN map /\ iter.cur <= iter.end
                /\ \A k \in iter.stable : BeforeEnd(k) /\ k <= iter.cur => Shown(k)
           /\ iter.state = "done" => \A k \in iter.stable : BeforeEnd(k) => Shown(k)

MapMatches == ~useSkipList => \A k \in Key : last[k] = IF k \in DOMAIN map THEN map[k] ELSE None

\* The list holds the last value of each key that was never put twice, until
\* the removal of the key has unlinked its node from the lowest level.
Popped(k) == Removing /\ k = node[target].key /\ level > 1

ListMatches ==
    useSkipList /\ op # "dead" =>
        \A k \in Key \ rewritten :
            Held(k) = IF last[k] = None \/ Popped(k) THEN <<>> ELSE <<last[k]>>

\* A Delete that has not returned removes the first node of its key, or looked
\* for a key that the list does not hold.
Deleting ==
    op \in {"unlink", "erase"} =>
        /\ useSkipList /\ ret.call = "deleting" /\ ret.key \in Key
        /\ IF target = Null THEN Held(ret.key) = <<>> ELSE node[target].key = ret.key

Causes ==
    /\ fault = "iterator" => iter.state = "dangling" \/ ~GoodRange
    /\ fault = "erase" => useSkipList /\ Held(ret.key) = <<>>
    /\ fault = "index" => useSkipList /\ Held(ret.key) # <<>>

DBInv == SLInv /\ Types /\ Scan /\ MapMatches /\ ListMatches /\ Deleting /\ AnswersFollowWrites /\ Causes

LEMMA MapTypes ==
    ASSUME Types
    PROVE  /\ DOMAIN map \subseteq Key /\ \A x \in DOMAIN map : map[x] \in Value
           /\ map = [x \in DOMAIN map |-> map[x]]
BY DEF Types

LEMMA IterTypes ==
    ASSUME Types, Scanning
    PROVE  /\ iter \in [state : {"ready", "more", "done", "dangling"}, cur : Key \cup {End},
                        end : Key \cup {End}, stable : SUBSET Key, seen : Seq(Key \cup {End})]
           /\ iter.cur \in Nat /\ iter.end \in Nat /\ iter.seen \in Seq(Nat)
           /\ Key \subseteq Nat /\ \A k \in Key : k > 0
<1>1. iter # NoIter
  BY DEF Scanning, NoIter
<1>2. Key \subseteq Nat /\ End \in Nat /\ \A k \in Key : k > 0
  BY KeyAssumption DEF End
<1>3. \A s \in Seq(Key \cup {End}) : s \in Seq(Nat)
  <2>1. Key \cup {End} \subseteq Nat
    BY <1>2
  <2> QED
    BY <2>1, SeqMonotonic
<1> QED
  BY <1>1, <1>2, <1>3 DEF Types

\* Steps that leave the iterator alone and take no key from the map.
LEMMA ScanKept ==
    ASSUME Types, Scan, UNCHANGED iter, DOMAIN map \subseteq DOMAIN map'
    PROVE  Scan'
<1>1. Scanning' = Scanning /\ (GoodRange' <=> GoodRange)
  BY DEF Scanning, GoodRange
<1> SUFFICES ASSUME Scanning PROVE Scan'
  BY <1>1 DEF Scan
<1>2. \A k : (BeforeEnd(k)' <=> BeforeEnd(k)) /\ (Shown(k)' <=> Shown(k))
  BY DEF BeforeEnd, Shown
<1> QED
  BY <1>1, <1>2 DEF Scan

\* The element k is erased from the map.
LEMMA ScanErased ==
    ASSUME Types, Scan, NEW k \in Key, k \in DOMAIN map, DOMAIN map' = DOMAIN map \ {k},
           iter' = Invalidate(k)
    PROVE  Scan'
<1> SUFFICES ASSUME Scanning' PROVE Scan'
  BY DEF Scan
<1>0. Scanning
  BY DEF Scanning, Invalidate, NoIter
<1>1. iter \in [state : {"ready", "more", "done", "dangling"}, cur : Key \cup {End},
                end : Key \cup {End}, stable : SUBSET Key, seen : Seq(Key \cup {End})]
  BY <1>0, IterTypes
<1>2. /\ iter'.seen = iter.seen /\ iter'.cur = iter.cur /\ iter'.end = iter.end
      /\ iter'.stable = iter.stable \ {k}
      /\ iter'.state = IF iter.state \in {"ready", "more", "done"} /\ k \in {iter.cur, iter.end}
                       THEN "dangling" ELSE iter.state
  BY <1>1 DEF Invalidate
<1>3. GoodRange' <=> GoodRange
  BY <1>2 DEF GoodRange
<1>4. \A j : (BeforeEnd(j)' <=> BeforeEnd(j)) /\ (Shown(j)' <=> Shown(j))
  BY <1>2 DEF BeforeEnd, Shown
<1>5. iter'.state \in {"ready", "more"} => iter'.state = iter.state /\ k # iter.cur /\ k # iter.end
  BY <1>2
<1>6. iter'.state = "done" => iter.state = "done"
  BY <1>2
<1> QED
  BY <1>0, <1>2, <1>3, <1>4, <1>5, <1>6 DEF Scan

LEMMA ScanStarts ==
    ASSUME Types, NEW s \in Key, NEW e \in Key, RangeScan(s, e)
    PROVE  Scan'
<1>1. /\ iter' = [state |-> "ready", cur |-> AtOrEnd(s), end |-> AtOrEnd(e), stable |-> DOMAIN map,
                  seen |-> IF s \in DOMAIN map THEN <<s>> ELSE <<>>]
      /\ map' = map
  BY DEF RangeScan
<1>2. \A k \in Key : k \in Nat /\ k > 0 /\ k # End
  BY KeyAssumption DEF End
<1>3. iter'.state = "ready" /\ iter'.stable = DOMAIN map /\ iter'.end = AtOrEnd(e)
  BY <1>1
<1>4. CASE s \notin DOMAIN map
  <2>1. iter'.seen = <<>>
    BY <1>1, <1>4
  <2>2. ~GoodRange'
    BY <2>1 DEF GoodRange
  <2>3. iter'.cur = End
    BY <1>1, <1>4 DEF AtOrEnd
  <2> QED
    BY <1>1, <1>3, <2>2, <2>3 DEF Scan
<1>5. CASE s \in DOMAIN map
  <2>1. iter'.seen = <<s>> /\ iter'.cur = s
    BY <1>1, <1>5 DEF AtOrEnd
  <2>2. Len(iter'.seen) = 1 /\ iter'.seen[1] = s /\ 1 \in DOMAIN iter'.seen
    BY <2>1
  <2>3. iter'.end # End => iter'.end \in DOMAIN map
    BY <1>3 DEF AtOrEnd
  <2>4. GoodRange' => (iter'.end # End => iter'.cur <= iter'.end)
    BY <2>1, <2>2 DEF GoodRange
  <2>5. ASSUME NEW k \in iter'.stable, BeforeEnd(k)', k <= iter'.cur
        PROVE  Shown(k)'
    <3>1. k \in Key /\ k >= s /\ k <= s
      BY <1>3, <2>1, <2>2, <2>5, MapTypes DEF BeforeEnd
    <3>2. k = s
      BY <1>2, <3>1
    <3> QED
      BY <2>2, <3>2 DEF Shown
  <2> QED
    BY <1>1, <1>3, <1>5, <2>1, <2>2, <2>3, <2>4, <2>5 DEF Scan
<1> QED
  BY <1>4, <1>5

LEMMA ScanAtEnd ==
    ASSUME Types, Scan, IterNextAtEnd
    PROVE  Scan'
<1>0. Scanning
  BY DEF Scanning, IterNextAtEnd
<1>1. /\ iter \in [state : {"ready", "more", "done", "dangling"}, cur : Key \cup {End},
                   end : Key \cup {End}, stable : SUBSET Key, seen : Seq(Key \cup {End})]
      /\ Key \subseteq Nat /\ \A k \in Key : k > 0
  BY <1>0, IterTypes
<1>2. iter.state \in {"ready", "more", "done"} /\ iter.cur = iter.end /\ map' = map
      /\ iter' = [iter EXCEPT !.state = "done"]
  BY DEF IterNextAtEnd
<1>3. /\ iter'.seen = iter.seen /\ iter'.cur = iter.cur /\ iter'.end = iter.end
      /\ iter'.stable = iter.stable /\ iter'.state = "done"
  BY <1>1, <1>2
<1>4. GoodRange' <=> GoodRange
  BY <1>3 DEF GoodRange
<1>5. \A j : (BeforeEnd(j)' <=> BeforeEnd(j)) /\ (Shown(j)' <=> Shown(j))
  BY <1>3 DEF BeforeEnd, Shown
<1>6. ASSUME GoodRange, NEW k \in iter.stable, BeforeEnd(k)
      PROVE  Shown(k)
  <2>1. CASE iter.state = "done"
    BY <1>0, <1>6, <2>1 DEF Scan
  <2>2. CASE iter.state \in {"ready", "more"}
    <3>1. iter.cur \in DOMAIN map
      BY <1>0, <1>6, <2>2 DEF Scan
    <3>2. iter.end # End /\ k \in Nat /\ iter.cur \in Nat
      BY <1>1, <1>2, <3>1, MapTypes DEF End
    <3>3. k <= iter.cur
      BY <1>2, <1>6, <3>2 DEF BeforeEnd
    <3> QED
      BY <1>0, <1>6, <2>2, <3>3 DEF Scan
  <2> QED
    BY <1>2, <2>1, <2>2
<1> QED
  BY <1>0, <1>2, <1>3, <1>4, <1>5, <1>6 DEF Scan

LEMMA SuccessorIsNext ==
    ASSUME Types, NEW k \in Nat
    PROVE  /\ Successor(k) # End => Successor(k) \in DOMAIN map /\ Successor(k) > k
           /\ \A j \in DOMAIN map : j > k => Successor(k) # End /\ Successor(k) <= j
<1> DEFINE above == {j \in DOMAIN map : j > k}
<1>1. above \subseteq Nat /\ \A j \in DOMAIN map : j \in Nat /\ j > 0
  BY MapTypes, KeyAssumption
<1>2. CASE above = {}
  BY <1>2 DEF Successor
<1>3. CASE above # {}
  <2>1. Min(above) \in above /\ \A j \in above : Min(above) <= j
    BY <1>1, <1>3, LeastIsMin
  <2>2. Successor(k) = Min(above)
    BY <1>3 DEF Successor
  <2>3. Successor(k) \in above /\ \A j \in above : Successor(k) <= j
    BY <2>1, <2>2
  <2> QED
    BY <1>1, <2>3 DEF End
<1> QED
  BY <1>2, <1>3

LEMMA ScanMoves ==
    ASSUME Types, Scan, IterNextMoves
    PROVE  Scan'
<1>0. Scanning
  BY DEF Scanning, IterNextMoves
<1>1. /\ iter \in [state : {"ready", "more", "done", "dangling"}, cur : Key \cup {End},
                   end : Key \cup {End}, stable : SUBSET Key, seen : Seq(Key \cup {End})]
      /\ iter.cur \in Nat /\ iter.end \in Nat /\ iter.seen \in Seq(Nat)
      /\ Key \subseteq Nat /\ \A k \in Key : k > 0
  BY <1>0, IterTypes
<1> DEFINE to == Successor(iter.cur)
<1>2. /\ iter.state \in {"ready", "more", "done"} /\ iter.cur # iter.end /\ iter.cur # End
      /\ iter' = [iter EXCEPT !.cur = to,
                     !.state = IF to = iter.end THEN "done" ELSE "more",
                     !.seen = IF to = iter.end THEN @ ELSE Append(@, to)]
      /\ map' = map
  BY DEF IterNextMoves
<1>3. /\ to # End => to \in DOMAIN map /\ to > iter.cur
      /\ \A j \in DOMAIN map : j > iter.cur => to # End /\ to <= j
  BY <1>1, SuccessorIsNext
<1>4. to \in Nat /\ (to # End => to \in Key)
  BY <1>1, <1>3, MapTypes DEF End
<1> HIDE DEF to
<1>5. /\ iter'.cur = to /\ iter'.end = iter.end /\ iter'.stable = iter.stable
      /\ to = iter.end => iter'.state = "done" /\ iter'.seen = iter.seen
      /\ to # iter.end => iter'.state = "more" /\ iter'.seen = Append(iter.seen, to)
  BY <1>1, <1>2
<1>6. PICK n \in Nat : n = Len(iter.seen) /\ DOMAIN iter.seen = 1..n /\ iter.seen \in Seq(Nat)
  BY <1>1
<1>7. iter.stable \subseteq DOMAIN map /\ iter.state \in {"ready", "more"}
  BY <1>0, <1>2 DEF Scan
<1>8. CASE to = iter.end
  <2>1. /\ GoodRange' <=> GoodRange
        /\ \A j : (BeforeEnd(j)' <=> BeforeEnd(j)) /\ (Shown(j)' <=> Shown(j))
    BY <1>5, <1>8 DEF GoodRange, BeforeEnd, Shown
  <2>2. ASSUME GoodRange, NEW k \in iter.stable, BeforeEnd(k)
        PROVE  Shown(k)
    <3>1. k \in Nat /\ ~(k > iter.cur)
      BY <1>1, <1>3, <1>7, <1>8, <2>2, MapTypes DEF BeforeEnd
    <3>2. k <= iter.cur
      BY <1>1, <3>1
    <3> QED
      BY <1>0, <1>7, <2>2, <3>2 DEF Scan
  <2> QED
    BY <1>0, <1>2, <1>5, <1>7, <1>8, <2>1, <2>2 DEF Scan
<1>9. CASE to # iter.end
  <2>1. DOMAIN iter'.seen = 1..(n + 1) /\ Len(iter'.seen) = n + 1 /\ iter'.seen[n + 1] = to
        /\ \A i \in 1..n : iter'.seen[i] = iter.seen[i]
    <3>1. PICK s \in Seq(Nat) : s = iter.seen /\ Len(s) = n
      BY <1>6
    <3>2. iter'.seen = Append(s, to)
      BY <1>5, <1>9, <3>1
    <3>3. /\ Append(s, to) \in Seq(Nat) /\ Len(Append(s, to)) = n + 1 /\ Append(s, to)[n + 1] = to
          /\ \A i \in 1..n : Append(s, to)[i] = s[i]
      BY <1>4, <3>1
    <3> QED
      BY <3>1, <3>2, <3>3
  <2> SUFFICES ASSUME GoodRange' PROVE Scan'
    BY <1>2, <1>5, <1>7, <1>9 DEF Scan
  <2>2. CASE iter.seen = <<>>
    \* A range that starts nowhere shows nothing, so cur would be End.
    BY <1>0, <1>2, <2>2 DEF Scan
  <2>3. CASE iter.seen # <<>>
    <3>1. n >= 1 /\ iter'.seen[1] = iter.seen[1]
      BY <1>6, <2>1, <2>3
    <3>2. GoodRange /\ \A j : BeforeEnd(j)' <=> BeforeEnd(j)
      BY <1>5, <2>3, <3>1 DEF GoodRange, BeforeEnd
    <3>3. /\ \A i \in 1..(n - 1) : iter.seen[i] < iter.seen[i + 1]
          /\ \A i \in 2..n : BeforeEnd(iter.seen[i])
          /\ iter.cur = iter.seen[n] /\ iter.cur \in DOMAIN map
          /\ iter.end # End => iter.end \in DOMAIN map /\ iter.cur <= iter.end
          /\ \A k \in iter.stable : BeforeEnd(k) /\ k <= iter.cur => Shown(k)
      BY <1>0, <1>6, <1>7, <3>2 DEF Scan
    <3>4. to # End /\ (iter.end # End => to < iter.end) /\ to > iter.cur /\ to \in DOMAIN map
      <4>1. iter.end # End => iter.end > iter.cur /\ to # End /\ to <= iter.end
        BY <1>1, <1>2, <1>3, <3>3
      <4>2. to # End
        BY <1>9, <4>1
      <4> QED
        BY <1>1, <1>3, <1>4, <1>9, <4>1, <4>2
    <3>5. \A i \in 1..n : iter.seen[i] \in Nat
      BY <1>6
    <3>6. BeforeEnd(to)
      <4>1. iter.cur >= iter.seen[1]
        <5>1. CASE n = 1
          BY <1>1, <3>3, <3>5, <5>1
        <5>2. CASE n # 1
          <6>1. n \in 2..n
            BY <3>1, <5>2
          <6> QED
            BY <3>3, <6>1 DEF BeforeEnd
        <5> QED
          BY <5>1, <5>2
      <4> QED
        BY <1>1, <1>4, <3>1, <3>4, <3>5, <4>1 DEF BeforeEnd
    <3>7. \A i \in 1..n : iter'.seen[i] < iter'.seen[i + 1]
      <4> SUFFICES ASSUME NEW i \in 1..n PROVE iter'.seen[i] < iter'.seen[i + 1]
        OBVIOUS
      <4>1. CASE i = n
        BY <2>1, <3>3, <3>4, <4>1
      <4>2. CASE i # n
        <5>1. i \in 1..(n - 1) /\ i + 1 \in 1..n
          BY <4>2
        <5> QED
          BY <2>1, <3>3, <5>1
      <4> QED
        BY <4>1, <4>2
    <3>8. \A i \in 2..(n + 1) : BeforeEnd(iter'.seen[i])
      <4> SUFFICES ASSUME NEW i \in 2..(n + 1) PROVE BeforeEnd(iter'.seen[i])
        OBVIOUS
      <4>1. CASE i = n + 1
        BY <2>1, <3>6, <4>1
      <4>2. CASE i # n + 1
        <5>1. i \in 2..n /\ i \in 1..n
          BY <4>2
        <5> QED
          BY <2>1, <3>3, <5>1
      <4> QED
        BY <4>1, <4>2
    <3>9. ASSUME NEW k \in iter.stable, BeforeEnd(k), k <= to
          PROVE  Shown(k)'
      <4>1. k \in DOMAIN map /\ k \in Nat
        BY <1>1, <1>7, MapTypes
      <4>2. CASE k <= iter.cur
        <5>1. PICK i \in 1..n : iter.seen[i] = k
          BY <1>6, <3>3, <3>9, <4>2 DEF Shown
        <5>2. i \in 1..(n + 1) /\ iter'.seen[i] = k
          BY <2>1, <5>1
        <5> QED
          BY <2>1, <5>2 DEF Shown
      <4>3. CASE ~(k <= iter.cur)
        <5>1. k = to
          BY <1>1, <1>3, <1>4, <3>9, <4>1, <4>3
        <5>2. n + 1 \in 1..(n + 1)
          OBVIOUS
        <5> QED
          BY <2>1, <5>1, <5>2 DEF Shown
      <4> QED
        BY <4>2, <4>3
    <3>10. \A i \in 2..Len(iter'.seen) :
              iter'.seen[i] >= iter'.seen[1] /\ (iter'.end # End => iter'.seen[i] < iter'.end)
      BY <1>5, <2>1, <3>1, <3>8 DEF BeforeEnd
    <3>11. \A k \in iter'.stable :
              /\ k >= iter'.seen[1] /\ (iter'.end # End => k < iter'.end) /\ k <= iter'.cur
              => \E i \in DOMAIN iter'.seen : iter'.seen[i] = k
      BY <1>5, <3>1, <3>9 DEF BeforeEnd, Shown
    <3>12. /\ iter'.state = "more" /\ iter'.stable \subseteq DOMAIN map' /\ iter'.seen # <<>>
           /\ iter'.cur = iter'.seen[Len(iter'.seen)] /\ iter'.cur \in DOMAIN map'
      <4>1. iter'.state = "more" /\ iter'.stable \subseteq DOMAIN map'
        BY <1>2, <1>5, <1>7, <1>9
      <4>2. Len(iter'.seen) # 0 /\ Len(<<>>) = 0
        BY <2>1
      <4>3. iter'.cur = iter'.seen[Len(iter'.seen)] /\ iter'.cur \in DOMAIN map'
        BY <1>2, <1>5, <2>1, <3>4
      <4> QED
        BY <4>1, <4>2, <4>3
    <3>13. iter'.end # End => iter'.end \in DOMAIN map' /\ iter'.cur <= iter'.end
      BY <1>1, <1>2, <1>4, <1>5, <3>3, <3>4
    <3>14. \A i \in 1..(Len(iter'.seen) - 1) : iter'.seen[i] < iter'.seen[i + 1]
      BY <2>1, <3>7
    <3> QED
      BY <3>10, <3>11, <3>12, <3>13, <3>14 DEF Scan, BeforeEnd, Shown
  <2> QED
    BY <2>2, <2>3
<1> QED
  BY <1>8, <1>9

\* What a step of the database is to the list.
ListSteps == SLNext \/ UNCHANGED slvars \/ IterFault

LEMMA NextIsListStep == Next => ListSteps
<1> SUFFICES ASSUME Next PROVE ListSteps
  OBVIOUS
<1>1. ASSUME NEW k \in Key, Get(k) \/ Has(k) \/ DeleteMap(k) \/ DeleteList(k)
      PROVE  ListSteps
  BY <1>1 DEF Get, Has, DeleteMap, DeleteList, ListSteps, SLNext
<1>2. ASSUME NEW k \in Key, NEW v \in Value, Put(k, v)
      PROVE  ListSteps
  BY <1>2 DEF Put, ListSteps, SLNext
<1>3. CASE DeleteListStep
  BY <1>3 DEF DeleteListStep, ListSteps, SLNext
<1>4. ASSUME NEW s \in Key, NEW e \in Key, RangeScan(s, e)
      PROVE  ListSteps
  BY <1>4 DEF RangeScan, ListSteps
<1>5. CASE IterNextAtEnd \/ IterNextMoves \/ IterRead
  BY <1>5 DEF IterNextAtEnd, IterNextMoves, IterRead, ListSteps
<1>6. CASE IterNextFaults \/ IterReadFaults
  BY <1>6 DEF IterNextFaults, IterReadFaults, ListSteps
<1> QED
  BY <1>1, <1>2, <1>3, <1>4, <1>5, <1>6 DEF Next

LEMMA ListKept == SLInv /\ [Next]_vars => SLInv'
<1> SUFFICES ASSUME SLInv, [Next]_vars PROVE SLInv'
  OBVIOUS
<1>1. SLNext \/ UNCHANGED slvars \/ IterFault
  BY NextIsListStep DEF vars, ListSteps
<1>2. CASE IterFault
  <2>1. op' = "dead" /\ fault' = "iterator"
        /\ UNCHANGED <<nodes, node, next, genAt, level, previous, target>>
    BY <1>2 DEF IterFault
  <2>2. SLTypeOK'
    BY <2>1 DEF SLInv, SLTypeOK
  <2> QED
    BY <2>1, <2>2 DEF SLInv
<1> QED
  BY <1>1, <1>2, StepShape

LEMMA PutTypes ==
    ASSUME Types, NEW k \in Key, NEW v \in Value, Put(k, v)
    PROVE  Types' /\ DOMAIN map \subseteq DOMAIN map'
<1>1. map' = map \/ map' = [x \in DOMAIN map \cup {k} |-> IF x = k THEN v ELSE map[x]]
  BY DEF Put
<1>2. DOMAIN map \subseteq Key /\ \A x \in DOMAIN map : map[x] \in Value
  BY MapTypes
<1>3. map' \in UNION {[D -> Value] : D \in SUBSET Key} /\ DOMAIN map \subseteq DOMAIN map'
  <2>1. CASE map' = map
    BY <2>1 DEF Types
  <2>2. CASE map' = [x \in DOMAIN map \cup {k} |-> IF x = k THEN v ELSE map[x]]
    <3>1. DOMAIN map' = DOMAIN map \cup {k} /\ \A x \in DOMAIN map' : map'[x] \in Value
      BY <1>2, <2>2
    <3>2. map' \in [DOMAIN map \cup {k} -> Value] /\ DOMAIN map \cup {k} \in SUBSET Key
      BY <1>2, <2>2
    <3> QED
      BY <3>1, <3>2
  <2> QED
    BY <1>1, <2>1, <2>2
<1>4. last' \in [Key -> Value \cup {None}] /\ rewritten' \subseteq Key
      /\ useSkipList' = useSkipList /\ iter' = iter
  BY DEF Put, Types
<1> QED
  BY <1>3, <1>4 DEF Types

LEMMA DeleteMapTypes ==
    ASSUME Types, NEW k \in Key, DeleteMap(k)
    PROVE  Types' /\ DOMAIN map' = DOMAIN map \ {k}
<1>1. map' = [x \in DOMAIN map \ {k} |-> map[x]] /\ useSkipList' = useSkipList /\ rewritten' = rewritten
      /\ last' = [last EXCEPT ![k] = None] /\ iter' = IF k \in DOMAIN map THEN Invalidate(k) ELSE iter
  BY DEF DeleteMap
<1>2. map' \in UNION {[D -> Value] : D \in SUBSET Key} /\ DOMAIN map' = DOMAIN map \ {k}
  <2>1. map' \in [DOMAIN map \ {k} -> Value] /\ DOMAIN map \ {k} \in SUBSET Key
    BY <1>1, MapTypes
  <2> QED
    BY <1>1, <2>1
<1>3. last' \in [Key -> Value \cup {None}]
  BY <1>1 DEF Types
<1>4. \/ Invalidate(k) = NoIter
      \/ Invalidate(k) \in [state : {"ready", "more", "done", "dangling"}, cur : Key \cup {End},
                    end : Key \cup {End}, stable : SUBSET Key, seen : Seq(Key \cup {End})]
  <2>1. CASE iter = NoIter
    BY <2>1 DEF Invalidate, NoIter
  <2>2. CASE iter # NoIter
    BY <2>2 DEF Types, Invalidate
  <2> QED
    BY <2>1, <2>2
<1> QED
  BY <1>1, <1>2, <1>3, <1>4 DEF Types

LEMMA ScanInvariant == Types /\ Scan /\ [Next]_vars => Types' /\ Scan'
<1> SUFFICES ASSUME Types, Scan, [Next]_vars PROVE Types' /\ Scan'
  OBVIOUS
<1>0. ASSUME UNCHANGED <<useSkipList, map, iter, last, rewritten>>
      PROVE  Types' /\ Scan'
  <2>1. Types'
    BY <1>0 DEF Types
  <2> QED
    BY <1>0, <2>1, ScanKept
<1>1. ASSUME NEW k \in Key, Get(k) \/ Has(k) \/ DeleteList(k)
      PROVE  Types' /\ Scan'
  BY <1>0, <1>1 DEF Get, Has, DeleteList
<1>2. ASSUME NEW k \in Key, DeleteMap(k)
      PROVE  Types' /\ Scan'
  <2>1. Types' /\ DOMAIN map' = DOMAIN map \ {k}
    BY <1>2, DeleteMapTypes
  <2>2. CASE k \in DOMAIN map
    BY <1>2, <2>1, <2>2, ScanErased DEF DeleteMap
  <2>3. CASE k \notin DOMAIN map
    BY <1>2, <2>1, <2>3, ScanKept DEF DeleteMap
  <2> QED
    BY <2>1, <2>2, <2>3
<1>3. ASSUME NEW k \in Key, NEW v \in Value, Put(k, v)
      PROVE  Types' /\ Scan'
  BY <1>3, PutTypes, ScanKept DEF Put
<1>4. CASE DeleteListStep
  <2>1. UNCHANGED <<useSkipList, map, iter, rewritten>>
    BY <1>4 DEF DeleteListStep
  <2>2. last' = last \/ last' = [last EXCEPT ![ret.key] = None]
    BY <1>4 DEF DeleteListStep
  <2>3. Types'
    BY <2>1, <2>2 DEF Types
  <2> QED
    BY <2>1, <2>3, ScanKept
<1>5. ASSUME NEW s \in Key, NEW e \in Key, RangeScan(s, e)
      PROVE  Types' /\ Scan'
  <2>1. UNCHANGED <<useSkipList, map, last, rewritten>>
        /\ iter' = [state |-> "ready", cur |-> AtOrEnd(s), end |-> AtOrEnd(e), stable |-> DOMAIN map,
                    seen |-> IF s \in DOMAIN map THEN <<s>> ELSE <<>>]
    BY <1>5 DEF RangeScan
  <2>2. AtOrEnd(s) \in Key \cup {End} /\ AtOrEnd(e) \in Key \cup {End}
    BY DEF AtOrEnd
  <2>3. (IF s \in DOMAIN map THEN <<s>> ELSE <<>>) \in Seq(Key \cup {End})
    OBVIOUS
  <2>4. DOMAIN map \in SUBSET Key
    BY MapTypes
  <2>5. Types'
    BY <2>1, <2>2, <2>3, <2>4 DEF Types
  <2> QED
    BY <1>5, <2>5, ScanStarts
<1>6. CASE IterNextAtEnd
  <2>1. Types'
    <3>1. iter # NoIter
      BY <1>6 DEF IterNextAtEnd, NoIter
    <3> QED
      BY <1>6, <3>1 DEF IterNextAtEnd, Types
  <2> QED
    BY <1>6, <2>1, ScanAtEnd
<1>7. CASE IterNextMoves
  <2>1. Scanning
    BY <1>7 DEF IterNextMoves, Scanning
  <2>2. /\ iter \in [state : {"ready", "more", "done", "dangling"}, cur : Key \cup {End},
                     end : Key \cup {End}, stable : SUBSET Key, seen : Seq(Key \cup {End})]
        /\ iter.cur \in Nat
    BY <2>1, IterTypes
  <2>3. PICK to : to = Successor(iter.cur)
    OBVIOUS
  <2>4. to \in Key \cup {End}
    BY <2>2, <2>3, SuccessorIsNext, MapTypes
  <2>5. /\ iter' = [iter EXCEPT !.cur = to,
                       !.state = IF to = iter.end THEN "done" ELSE "more",
                       !.seen = IF to = iter.end THEN @ ELSE Append(@, to)]
        /\ UNCHANGED <<useSkipList, map, last, rewritten>>
    BY <1>7, <2>3 DEF IterNextMoves
  <2>6. (IF to = iter.end THEN iter.seen ELSE Append(iter.seen, to)) \in Seq(Key \cup {End})
    BY <2>2, <2>4
  <2>7. Types'
    BY <2>2, <2>4, <2>5, <2>6 DEF Types
  <2> QED
    BY <1>7, <2>7, ScanMoves
<1>8. CASE IterRead
  BY <1>0, <1>8 DEF IterRead
<1>9. CASE IterNextFaults \/ IterReadFaults
  BY <1>0, <1>9 DEF IterNextFaults, IterReadFaults, IterFault, dbvars
<1>10. CASE UNCHANGED vars
  BY <1>0, <1>10 DEF vars, dbvars
<1> QED
  BY <1>1, <1>2, <1>3, <1>4, <1>5, <1>6, <1>7, <1>8, <1>9, <1>10 DEF Next

\* Over the skip list a lookup finds the only value that is held for the key.
LEMMA FindOnlyValue ==
    ASSUME SLInv, op = "idle", NEW k \in Key
    PROVE  /\ Held(k) = <<>> => Find(k) = None
           /\ \A v : Held(k) = <<v>> => Find(k) = v
<1> DEFINE ns == NodesOf(k)
           top == {i \in DOMAIN ns : \A j \in DOMAIN ns : node[ns[j]].level <= node[ns[i]].level}
<1>1. PICK place : Shape(place)
  BY DEF SLInv
<1>2. FindReturnsNewestOfHighest /\ Quiet
  BY InvIsSafe DEF Quiet, SLInv
<1>3. Find(k) = IF ns = <<>> THEN None ELSE node[ns[Min(top)]].value
  BY <1>2 DEF FindReturnsNewestOfHighest
<1>4. ns \in Seq(NodeId) /\ \A i \in DOMAIN ns : ns[i] \in KeyNodes(k)
  BY <1>1, KeyNodesOrder
<1>5. Held(k) = [i \in DOMAIN ns |-> node[ns[i]].value]
  BY DEF Held
<1> HIDE DEF ns
<1>6. PICK n \in Nat : n = Len(ns) /\ DOMAIN ns = 1..n
  BY <1>4
<1>7. DOMAIN Held(k) = 1..n
  BY <1>5, <1>6
<1>8. ASSUME Held(k) = <<>>
      PROVE  Find(k) = None
  <2>1. 1..n = {}
    BY <1>7, <1>8
  <2>2. n = 0
    BY <2>1
  <2> QED
    BY <1>3, <1>4, <1>6, <2>2
<1>9. ASSUME NEW v, Held(k) = <<v>>
      PROVE  Find(k) = v
  <2>1. 1..n = {1} /\ Held(k)[1] = v
    BY <1>7, <1>9
  <2>2. ns # <<>> /\ node[ns[1]].value = v /\ DOMAIN ns = {1}
    BY <1>5, <1>6, <2>1
  <2>3. node[ns[1]].level \in Nat
    <3>1. ns[1] \in Live
      BY <1>4, <2>2 DEF KeyNodes, On
    <3> QED
      BY <1>1, <3>1, Ordered DEF Shape
  <2>4. top = {1}
    BY <2>2, <2>3
  <2>5. Min(top) = 1
    BY <2>4, LeastIsMin
  <2> QED
    BY <1>3, <2>2, <2>5
<1> QED
  BY <1>8, <1>9

LEMMA LookupIsLast ==
    ASSUME SLInv, Types, MapMatches, ListMatches, op = "idle", NEW k \in Key,
           ~useSkipList \/ k \notin rewritten
    PROVE  Lookup(k) = last[k]
<1>1. CASE ~useSkipList
  BY <1>1 DEF MapMatches, Lookup
<1>2. CASE useSkipList
  <2>1. Held(k) = IF last[k] = None THEN <<>> ELSE <<last[k]>>
    BY <1>2 DEF ListMatches, Popped, Removing
  <2>2. Find(k) = last[k]
    BY <2>1, FindOnlyValue
  <2> QED
    BY <1>2, <2>2 DEF Lookup
<1> QED
  BY <1>1, <1>2

LEMMA MapMatchesStep ==
    ASSUME Types, MapMatches, Deleting, [Next]_vars
    PROVE  MapMatches'
<1>0. ASSUME UNCHANGED <<useSkipList, map, last>>
      PROVE  MapMatches'
  BY <1>0 DEF MapMatches
<1>1. ASSUME NEW k \in Key, Get(k) \/ Has(k) \/ DeleteList(k)
      PROVE  MapMatches'
  BY <1>0, <1>1 DEF Get, Has, DeleteList
<1>2. ASSUME NEW k \in Key, DeleteMap(k)
      PROVE  MapMatches'
  BY <1>2 DEF DeleteMap, MapMatches, Types
<1>3. ASSUME NEW k \in Key, NEW v \in Value, Put(k, v)
      PROVE  MapMatches'
  <2>1. last' = [last EXCEPT ![k] = v] /\ useSkipList' = useSkipList
    BY <1>3 DEF Put
  <2>2. ~useSkipList => map' = [x \in DOMAIN map \cup {k} |-> IF x = k THEN v ELSE map[x]]
    BY <1>3 DEF Put
  <2> SUFFICES ASSUME ~useSkipList, NEW j \in Key
               PROVE  last'[j] = IF j \in DOMAIN map' THEN map'[j] ELSE None
    BY <2>1 DEF MapMatches
  <2>3. DOMAIN map' = DOMAIN map \cup {k}
    BY <2>2
  <2>4. last[j] = IF j \in DOMAIN map THEN map[j] ELSE None
    BY DEF MapMatches
  <2>5. last'[j] = IF j = k THEN v ELSE last[j]
    BY <2>1 DEF Types
  <2>6. j \in DOMAIN map' => map'[j] = IF j = k THEN v ELSE map[j]
    BY <2>2
  <2>7. CASE j = k
    BY <2>3, <2>5, <2>6, <2>7
  <2>8. CASE j # k
    BY <2>3, <2>4, <2>5, <2>6, <2>8
  <2> QED
    BY <2>7, <2>8
<1>4. CASE DeleteListStep
  <2>1. op \in {"unlink", "erase"} /\ useSkipList' = useSkipList
    BY <1>4 DEF DeleteListStep, UnlinkBelow, Unlink, Erase, EraseEnd
  <2> QED
    BY <2>1 DEF Deleting, MapMatches
<1>5. ASSUME NEW s \in Key, NEW e \in Key, RangeScan(s, e)
      PROVE  MapMatches'
  BY <1>0, <1>5 DEF RangeScan
<1>6. CASE IterNextAtEnd \/ IterNextMoves \/ IterRead
  BY <1>0, <1>6 DEF IterNextAtEnd, IterNextMoves, IterRead
<1>7. CASE IterNextFaults \/ IterReadFaults
  BY <1>0, <1>7 DEF IterNextFaults, IterReadFaults, IterFault, dbvars
<1>8. CASE UNCHANGED vars
  BY <1>0, <1>8 DEF vars, dbvars
<1> QED
  BY <1>1, <1>2, <1>3, <1>4, <1>5, <1>6, <1>7, <1>8 DEF Next

\* The lowest level is level 1, and a node of it is a node of its key's list.
LEMMA KeyNodesHeld ==
    ASSUME NEW place, Shape(place), NEW k \in Key
    PROVE  Held(k) = <<>> <=> KeyNodes(k) = {}
<1>1. /\ Lists(place, KeyNodes(k), NodesOf(k)) /\ NodesOf(k) \in Seq(NodeId)
      /\ \A i \in DOMAIN NodesOf(k) : NodesOf(k)[i] \in KeyNodes(k)
  BY KeyNodesOrder
<1>2. PICK ns : ns = NodesOf(k)
  OBVIOUS
<1>3. Held(k) = [i \in DOMAIN ns |-> node[ns[i]].value]
  BY <1>2 DEF Held
<1>4. ns \in Seq(NodeId) /\ Lists(place, KeyNodes(k), ns)
  BY <1>1, <1>2
<1>5. PICK n \in Nat : n = Len(ns) /\ DOMAIN ns = 1..n
  BY <1>4
<1>6. DOMAIN Held(k) = 1..n /\ (Held(k) = <<>> => 1..n = {}) /\ (n = 0 => Held(k) = <<>>)
  BY <1>3, <1>5
<1>7. KeyNodes(k) = {ns[i] : i \in 1..n}
  BY <1>4, <1>5 DEF Lists
<1>8. n = 0 <=> 1..n = {}
  OBVIOUS
<1>9. KeyNodes(k) = {} <=> 1..n = {}
  BY <1>7
<1> QED
  BY <1>6, <1>8, <1>9

\* The steps that neither change the list nor what was last put and deleted.
LEMMA ListMatchesKept ==
    ASSUME ListMatches, UNCHANGED <<slvars, last, rewritten, useSkipList>>
    PROVE  ListMatches'
<1>1. \A j : Held(j)' = Held(j)
  BY UnchangedHeld DEF slvars
<1>2. \A j : Popped(j)' <=> Popped(j)
  BY DEF Popped, Removing, slvars
<1> QED
  BY <1>1, <1>2 DEF ListMatches, slvars

LEMMA ListMatchesPut ==
    ASSUME SLInv, Types, ListMatches, NEW k \in Key, NEW v \in Value, Put(k, v)
    PROVE  ListMatches'
<1>1. CASE ~useSkipList
  BY <1>1 DEF Put, ListMatches
<1>2. CASE useSkipList
  <2>1. /\ op = "idle" /\ Insert(k, v) /\ last' = [last EXCEPT ![k] = v]
        /\ rewritten' = rewritten \cup (IF last[k] = None THEN {} ELSE {k})
    BY <1>2 DEF Put
  <2>2. PICK place : Shape(place)
    BY <2>1 DEF SLInv
  <2>3. PICK new, p, h : Inserts(k, v, new, p, h)
    BY <2>1, <2>2, InsertInserts DEF Shape
  <2>4. \A j \in Key : Held(j)' = IF j = k THEN <<v>> \o Held(j) ELSE Held(j)
    BY <2>2, <2>3, InsertHeld
  <2>5. \A j : ~Popped(j) /\ ~Popped(j)'
    BY <2>1 DEF Popped, Removing, Insert
  <2> SUFFICES ASSUME NEW j \in Key \ rewritten'
               PROVE  Held(j)' = IF last'[j] = None THEN <<>> ELSE <<last'[j]>>
    BY <2>5 DEF ListMatches
  <2>6. j \notin rewritten /\ last'[j] = IF j = k THEN v ELSE last[j]
    BY <2>1 DEF Types
  <2>7. Held(j) = IF last[j] = None THEN <<>> ELSE <<last[j]>>
    BY <1>2, <2>1, <2>5, <2>6 DEF ListMatches
  <2>8. CASE j = k
    <3>1. last[k] = None /\ Held(k) = <<>>
      BY <2>1, <2>7, <2>8
    <3>2. Held(j)' = <<v>>
      BY <2>4, <2>8, <3>1
    <3> QED
      BY <2>6, <2>8, <3>2, NoneAssumption
  <2>9. CASE j # k
    BY <2>4, <2>6, <2>7, <2>9
  <2> QED
    BY <2>8, <2>9
<1> QED
  BY <1>1, <1>2

LEMMA ListMatchesDelete ==
    ASSUME SLInv, Types, ListMatches, NEW k \in Key, DeleteList(k)
    PROVE  ListMatches'
<1>1. op = "idle" /\ UNCHANGED <<node, next, last, rewritten, useSkipList>> /\ level' = 0
  BY DEF DeleteList, RemoveSearch
<1>2. \A j : Held(j)' = Held(j)
  BY <1>1, UnchangedHeld
<1>3. \A j : ~Popped(j) /\ ~Popped(j)'
  BY <1>1 DEF Popped, Removing
<1> QED
  BY <1>1, <1>2, <1>3 DEF ListMatches

LEMMA ListMatchesRemove ==
    ASSUME SLInv, Types, ListMatches, Deleting, DeleteListStep
    PROVE  ListMatches'
<1>0. UNCHANGED <<useSkipList, rewritten>>
  BY DEF DeleteListStep
<1>1. CASE UnlinkBelow
  <2>1. op = "unlink" /\ level = 0 /\ UNCHANGED <<node, next, target>>
    BY <1>1 DEF UnlinkBelow
  <2> SUFFICES ASSUME op' # "dead" PROVE ListMatches'
    BY DEF ListMatches
  <2>2. level' = 1 /\ op' = "unlink"
    BY <1>1, <2>1 DEF UnlinkBelow
  <2>3. last' = last
    BY <2>2 DEF DeleteListStep
  <2>4. \A j : Held(j)' = Held(j)
    BY <2>1, UnchangedHeld
  <2>5. \A j : ~Popped(j) /\ ~Popped(j)'
    BY <2>1, <2>2 DEF Popped
  <2> QED
    BY <1>0, <2>1, <2>3, <2>4, <2>5 DEF ListMatches
<1>2. CASE Unlink
  <2>1. /\ op = "unlink" /\ op' \in {"unlink", "erase"} /\ UNCHANGED <<node, target>>
        /\ level \in Levels /\ level' = level + 1
    BY <1>2 DEF Unlink
  <2>2. last' = last /\ level \in Nat
    BY <2>1, MaxLevelAssumption DEF DeleteListStep, Levels
  <2>3. PICK place : Shape(place)
    BY <2>1 DEF SLInv
  <2>4. PICK k : k = node[target].key
    OBVIOUS
  <2>5. Removing /\ Removing'
    BY <2>1, <2>3 DEF Removing, Shape, Walk
  <2>6. \A j : (Popped(j) <=> j = k /\ level > 1) /\ (Popped(j)' <=> j = k /\ level + 1 > 1)
    BY <2>1, <2>4, <2>5 DEF Popped
  <2>7. \/ level = 1 /\ Held(k) # <<>> /\ \A j \in Key : Held(j)' = IF j = k THEN Tail(Held(j)) ELSE Held(j)
        \/ level # 1 /\ \A j \in Key : Held(j)' = Held(j)
    BY <1>2, <2>3, <2>4, UnlinkHeld
  <2> SUFFICES ASSUME useSkipList, NEW j \in Key \ rewritten
               PROVE  Held(j)' = IF last[j] = None \/ Popped(j)' THEN <<>> ELSE <<last[j]>>
    BY <1>0, <2>2 DEF ListMatches
  <2>8. Held(j) = IF last[j] = None \/ Popped(j) THEN <<>> ELSE <<last[j]>>
    BY <2>1 DEF ListMatches
  <2>9. CASE j # k
    BY <2>6, <2>7, <2>8, <2>9
  <2>10. CASE j = k /\ level # 1
    <3>1. level > 1
      BY <2>1, <2>10, MaxLevelAssumption DEF Levels
    <3> QED
      BY <2>2, <2>6, <2>7, <2>8, <2>10, <3>1
  <2>11. CASE j = k /\ level = 1
    <3>1. ~Popped(j) /\ Popped(j)' /\ Held(j) # <<>> /\ Held(j)' = Tail(Held(j))
      BY <2>6, <2>7, <2>11
    <3>2. Held(j) = <<last[j]>>
      BY <2>8, <3>1
    <3> QED
      BY <3>1, <3>2
  <2> QED
    BY <2>9, <2>10, <2>11
<1>3. CASE Erase
  <2>1. op = "erase" /\ target # Null /\ op' = "idle"
    BY <1>3 DEF Erase
  <2>2. PICK k \in Key : k = ret.key /\ k = node[target].key
    BY <2>1 DEF Deleting
  <2>3. last' = [last EXCEPT ![k] = None]
    BY <2>1, <2>2 DEF DeleteListStep
  <2>4. PICK place : Shape(place)
    BY <2>1 DEF SLInv
  <2>5. \A j \in Key : Held(j)' = Held(j)
    BY <1>3, <2>4, EraseHeld
  <2>6. Removing /\ level = MaxLevel + 1
    BY <2>1, <2>4 DEF Removing, Shape, Walk
  <2>7. level > 1
    BY <2>6, MaxLevelAssumption
  <2>8. \A j : (Popped(j) <=> j = k) /\ ~Popped(j)'
    BY <2>1, <2>2, <2>6, <2>7 DEF Popped, Removing
  <2> SUFFICES ASSUME useSkipList, NEW j \in Key \ rewritten
               PROVE  Held(j)' = IF last'[j] = None THEN <<>> ELSE <<last'[j]>>
    BY <1>0, <2>8 DEF ListMatches
  <2>9. Held(j) = IF last[j] = None \/ j = k THEN <<>> ELSE <<last[j]>>
    BY <2>1, <2>8 DEF ListMatches
  <2>10. last'[j] = IF j = k THEN None ELSE last[j]
    BY <2>3 DEF Types
  <2> QED
    BY <2>5, <2>9, <2>10
<1>4. CASE EraseEnd
  BY <1>4 DEF EraseEnd, ListMatches
<1> QED
  BY <1>1, <1>2, <1>3, <1>4 DEF DeleteListStep

\* remove finds the first node of the key, or there is none.
LEMMA SearchDecides ==
    ASSUME NEW place, Shape(place), op = "idle", NEW k \in Key, NEW m, m = next[Previous(1, k)][1],
           ~(m # Null /\ node[m].key = k)
    PROVE  KeyNodes(k) = {}
<1>1. k \in Nat \ {0} /\ 1 \in Levels /\ place \in [NodeId -> Nat]
  BY KeyAssumption, MaxLevelAssumption DEF Levels, Shape, Places
<1>2. PICK p \in NodeId : p = Previous(1, k) /\ LastBelow(place, 1, k, p)
  BY <1>1, PreviousIsLast
<1> SUFFICES ASSUME NEW x \in NodeId, On(1, x), node[x].key = k PROVE FALSE
  BY DEF KeyNodes
<1>3. On(1, p) /\ node[p].key < k /\ p \in Live /\ x \in Live
  BY <1>2 DEF LastBelow, On
<1>4. place[p] < place[x]
  BY <1>3, Ordered DEF Shape
<1>5. m # Null /\ place[m] <= place[x]
  BY <1>1, <1>2, <1>3, <1>4 DEF Shape, Links
<1>6. On(1, m) /\ m \in Live /\ place[p] < place[m] /\ m \in NodeId
  <2>1. m \in Live /\ place[p] < place[m]
    BY <1>1, <1>2, <1>5 DEF Shape, Links, Data
  <2> QED
    BY <1>1, <1>2, <1>3, <1>5, <2>1, LiveIsNodes DEF Shape, Links
<1>7. node[m].key <= k /\ node[m].key \in Nat
  BY <1>3, <1>5, <1>6, Ordered DEF Shape
<1>8. node[m].key < k
  BY <1>1, <1>5, <1>7
<1>9. place[m] <= place[p]
  BY <1>2, <1>6, <1>8 DEF LastBelow
<1> QED
  BY <1>1, <1>2, <1>6, <1>9

LEMMA DeletingStep ==
    ASSUME SLInv, Types, Deleting, [Next]_vars
    PROVE  Deleting'
<1>1. ASSUME op' \notin {"unlink", "erase"}
      PROVE  Deleting'
  BY <1>1 DEF Deleting
<1>2. ASSUME NEW k \in Key, Get(k) \/ Has(k) \/ DeleteMap(k)
      PROVE  Deleting'
  BY <1>1, <1>2 DEF Get, Has, DeleteMap, slvars
<1>3. ASSUME NEW k \in Key, NEW v \in Value, Put(k, v)
      PROVE  Deleting'
  BY <1>1, <1>3 DEF Put, slvars, Insert
<1>4. ASSUME NEW k \in Key, DeleteList(k)
      PROVE  Deleting'
  <2>1. /\ useSkipList /\ useSkipList' = useSkipList /\ op = "idle"
        /\ ret' = [call |-> "deleting", key |-> k, result |-> OK]
        /\ UNCHANGED <<node, next>>
    BY <1>4 DEF DeleteList, RemoveSearch
  <2>2. PICK place : Shape(place)
    BY <2>1 DEF SLInv
  <2>3. PICK m : m = next[Previous(1, k)][1]
    OBVIOUS
  <2>4. IF m # Null /\ node[m].key = k THEN target' = m ELSE target' = Null
    BY <1>4, <2>3 DEF DeleteList, RemoveSearch
  <2>5. ret'.call = "deleting" /\ ret'.key = k
    BY <2>1
  <2>6. CASE m # Null /\ node[m].key = k
    BY <2>1, <2>4, <2>5, <2>6 DEF Deleting
  <2>7. CASE ~(m # Null /\ node[m].key = k)
    <3>1. Held(k) = <<>>
      BY <2>1, <2>2, <2>3, <2>7, SearchDecides, KeyNodesHeld
    <3>2. Held(ret'.key) = Held(k) /\ Held(k)' = Held(k) /\ Held(ret.key)' = Held(k)'
      BY <2>1, <2>5, UnchangedHeld
    <3> QED
      BY <2>1, <2>4, <2>5, <2>7, <3>1, <3>2 DEF Deleting
  <2> QED
    BY <2>6, <2>7
<1>5. CASE DeleteListStep
  <2>1. CASE UnlinkBelow \/ Unlink
    <3>1. op = "unlink" /\ UNCHANGED <<node, target, useSkipList>> /\ op' # "idle"
      BY <1>5, <2>1 DEF DeleteListStep, UnlinkBelow, Unlink
    <3>2. ret' = ret
      BY <1>5, <3>1 DEF DeleteListStep
    <3>3. target # Null
      BY <3>1 DEF SLInv, Shape, Walk
    <3> QED
      BY <3>1, <3>2, <3>3 DEF Deleting
  <2>2. CASE Erase \/ EraseEnd
    BY <1>1, <2>2 DEF Erase, EraseEnd
  <2> QED
    BY <1>5, <2>1, <2>2 DEF DeleteListStep
<1>6. ASSUME NEW s \in Key, NEW e \in Key, RangeScan(s, e)
      PROVE  Deleting'
  BY <1>1, <1>6 DEF RangeScan, slvars
<1>7. CASE IterNextAtEnd \/ IterNextMoves \/ IterRead
  BY <1>1, <1>7 DEF IterNextAtEnd, IterNextMoves, IterRead, slvars
<1>8. CASE IterNextFaults \/ IterReadFaults
  BY <1>1, <1>8 DEF IterNextFaults, IterReadFaults, IterFault
<1>9. CASE UNCHANGED vars
  <2>1. Held(ret.key)' = Held(ret.key)
    BY <1>9 DEF vars, dbvars, slvars, Held, NodesOf
  <2> QED
    BY <1>9, <2>1 DEF Deleting, vars, dbvars, slvars
<1> QED
  BY <1>2, <1>3, <1>4, <1>5, <1>6, <1>7, <1>8, <1>9 DEF Next

LEMMA ListMatchesStep ==
    ASSUME SLInv, Types, ListMatches, Deleting, [Next]_vars
    PROVE  ListMatches'
<1>1. ASSUME NEW k \in Key, Get(k) \/ Has(k)
      PROVE  ListMatches'
  BY <1>1, ListMatchesKept DEF Get, Has
<1>2. ASSUME NEW k \in Key, DeleteMap(k)
      PROVE  ListMatches'
  BY <1>2 DEF DeleteMap, ListMatches
<1>3. ASSUME NEW s \in Key, NEW e \in Key, RangeScan(s, e)
      PROVE  ListMatches'
  BY <1>3, ListMatchesKept DEF RangeScan
<1>4. CASE IterNextAtEnd \/ IterNextMoves \/ IterRead
  BY <1>4, ListMatchesKept DEF IterNextAtEnd, IterNextMoves, IterRead
<1>5. CASE IterNextFaults \/ IterReadFaults
  BY <1>5 DEF IterNextFaults, IterReadFaults, IterFault, ListMatches
<1>6. CASE UNCHANGED vars
  BY <1>6, ListMatchesKept DEF vars, dbvars
<1> QED
  BY <1>1, <1>2, <1>3, <1>4, <1>5, <1>6, ListMatchesPut, ListMatchesDelete, ListMatchesRemove DEF Next

LEMMA AnswersStep ==
    ASSUME SLInv, Types, MapMatches, ListMatches, Deleting, AnswersFollowWrites, [Next]_vars
    PROVE  AnswersFollowWrites'
<1>1. ASSUME ret'.call \notin {"Get", "Has"}
      PROVE  AnswersFollowWrites'
  BY <1>1 DEF AnswersFollowWrites
<1>2. ASSUME NEW k \in Key, Get(k) \/ Has(k)
      PROVE  AnswersFollowWrites'
  <2>1. op = "idle" /\ UNCHANGED <<useSkipList, last, rewritten>>
    BY <1>2 DEF Get, Has
  <2>2. ~useSkipList \/ k \notin rewritten => Lookup(k) = last[k]
    BY <2>1, LookupIsLast
  <2>3. CASE Get(k)
    <3>1. ret' = [call |-> "Get", key |-> k, result |-> IF Lookup(k) = None THEN KeyNotFound ELSE Lookup(k)]
      BY <2>3 DEF Get, Returns
    <3> QED
      BY <2>1, <2>2, <3>1 DEF AnswersFollowWrites
  <2>4. CASE Has(k)
    <3>1. ret' = [call |-> "Has", key |-> k, result |-> Lookup(k) # None]
      BY <2>4 DEF Has, Returns
    <3> QED
      BY <2>1, <2>2, <3>1 DEF AnswersFollowWrites
  <2> QED
    BY <1>2, <2>3, <2>4
<1>3. ASSUME NEW k \in Key, DeleteMap(k) \/ DeleteList(k)
      PROVE  AnswersFollowWrites'
  BY <1>1, <1>3 DEF DeleteMap, DeleteList, Returns
<1>4. ASSUME NEW k \in Key, NEW v \in Value, Put(k, v)
      PROVE  AnswersFollowWrites'
  BY <1>1, <1>4 DEF Put, Returns
<1>5. CASE DeleteListStep
  <2>1. op \in {"unlink", "erase"}
    BY <1>5 DEF DeleteListStep, UnlinkBelow, Unlink, Erase, EraseEnd
  <2>2. ret.call = "deleting"
    BY <2>1 DEF Deleting
  <2> QED
    BY <1>1, <1>5, <2>2 DEF DeleteListStep, Returns
<1>6. ASSUME NEW s \in Key, NEW e \in Key, RangeScan(s, e)
      PROVE  AnswersFollowWrites'
  BY <1>1, <1>6 DEF RangeScan, Returns
<1>7. CASE IterNextAtEnd \/ IterNextMoves \/ IterRead
  BY <1>1, <1>7 DEF IterNextAtEnd, IterNextMoves, IterRead, Returns
<1>8. CASE IterNextFaults \/ IterReadFaults
  BY <1>8 DEF IterNextFaults, IterReadFaults, IterFault, dbvars, AnswersFollowWrites
<1>9. CASE UNCHANGED vars
  BY <1>9 DEF vars, dbvars, AnswersFollowWrites
<1> QED
  BY <1>2, <1>3, <1>4, <1>5, <1>6, <1>7, <1>8, <1>9 DEF Next

\* Undefined behaviour ends it all, and until then there was none.
LEMMA CausesStep ==
    ASSUME SLInv, SLTypeOK', Types, Scan, Deleting, Causes, [Next]_vars
    PROVE  Causes'
<1>0. ASSUME fault' = "none"
      PROVE  Causes'
  BY <1>0 DEF Causes
<1>1. op # "dead" => fault = "none"
  BY DEF SLInv
<1>2. ASSUME NEW k \in Key, Get(k) \/ Has(k) \/ DeleteMap(k)
      PROVE  Causes'
  BY <1>0, <1>1, <1>2 DEF Get, Has, DeleteMap, slvars
<1>3. ASSUME NEW k \in Key, NEW v \in Value, Put(k, v)
      PROVE  Causes'
  BY <1>0, <1>1, <1>3 DEF Put, slvars, Insert
<1>4. ASSUME NEW k \in Key, DeleteList(k)
      PROVE  Causes'
  BY <1>0, <1>1, <1>4 DEF DeleteList, RemoveSearch
<1>5. CASE DeleteListStep
  <2>1. CASE Unlink \/ Erase
    BY <1>0, <1>1, <2>1 DEF Unlink, Erase
  <2>2. CASE UnlinkBelow /\ op' # "dead"
    BY <1>0, <1>1, <2>2 DEF UnlinkBelow
  <2>3. CASE UnlinkBelow /\ op' = "dead"
    <3>1. /\ op = "unlink" /\ level = 0 /\ fault' = "index"
          /\ UNCHANGED <<node, next, useSkipList>>
      BY <1>5, <2>3 DEF UnlinkBelow, DeleteListStep
    <3>2. ret' = ret
      BY <1>5, <2>3 DEF DeleteListStep
    <3>3. PICK place : Shape(place)
      BY <3>1 DEF SLInv
    <3>4. target # Null /\ target \in Data /\ target \in Live /\ target \in NodeId
      <4>1. target # Null
        BY <3>1, <3>3 DEF Shape, Walk
      <4>2. target \in Data
        BY <3>1, <3>3, <4>1 DEF Shape, Walk, Removing
      <4> QED
        BY <3>3, <4>1, <4>2, LiveIsNodes DEF Data, Shape
    <3>5. PICK k \in Key : k = ret.key /\ node[target].key = k /\ useSkipList
      BY <3>1, <3>4 DEF Deleting
    <3>6. On(1, target)
      <4>1. node[target].level >= 1
        BY <3>3, <3>4, Ordered DEF Shape, Levels
      <4> QED
        BY <3>1, <3>4, <4>1 DEF On
    <3>7. Held(k) # <<>>
      BY <3>3, <3>4, <3>5, <3>6, KeyNodesHeld DEF KeyNodes
    <3>8. Held(ret.key)' = Held(k)
      BY <3>1, <3>2, <3>5 DEF Held, NodesOf
    <3> QED
      BY <3>1, <3>5, <3>7, <3>8 DEF Causes
  <2>4. CASE EraseEnd
    <3>1. /\ op = "erase" /\ target = Null /\ fault' = "erase" /\ op' = "dead"
          /\ UNCHANGED <<node, next, useSkipList>>
      BY <1>5, <2>4 DEF EraseEnd, DeleteListStep
    <3>2. ret' = ret
      BY <1>5, <3>1 DEF DeleteListStep
    <3>3. useSkipList /\ Held(ret.key) = <<>>
      BY <3>1 DEF Deleting
    <3>4. Held(ret.key)' = Held(ret.key)
      BY <3>1, <3>2 DEF Held, NodesOf
    <3> QED
      BY <3>1, <3>3, <3>4 DEF Causes
  <2> QED
    BY <1>5, <2>1, <2>2, <2>3, <2>4 DEF DeleteListStep
<1>6. ASSUME NEW s \in Key, NEW e \in Key, RangeScan(s, e)
      PROVE  Causes'
  BY <1>0, <1>1, <1>6 DEF RangeScan, slvars
<1>7. CASE IterNextAtEnd \/ IterNextMoves \/ IterRead
  BY <1>0, <1>1, <1>7 DEF IterNextAtEnd, IterNextMoves, IterRead, slvars
<1>8. CASE IterNextFaults \/ IterReadFaults
  <2>1. fault' = "iterator" /\ iter' = iter
    BY <1>8 DEF IterNextFaults, IterReadFaults, IterFault, dbvars
  <2>2. iter.state = "dangling" \/ (iter.state \in {"ready", "more"} /\ iter.cur = End)
    <3>1. CASE IterNextFaults
      BY <3>1 DEF IterNextFaults
    <3>2. CASE IterReadFaults
      BY <3>2 DEF IterReadFaults
    <3> QED
      BY <1>8, <3>1, <3>2
  <2>3. iter.state = "dangling" \/ ~GoodRange
    <3>1. SUFFICES ASSUME GoodRange, iter.state \in {"ready", "more"}, iter.cur = End
                   PROVE  FALSE
      BY <2>2
    <3>2. Scanning
      BY <3>1 DEF Scanning
    <3>3. iter.cur \in DOMAIN map
      BY <3>1, <3>2 DEF Scan
    <3>4. End \in Key
      BY <3>1, <3>3, MapTypes
    <3> QED
      BY <3>4, KeyAssumption DEF End
  <2>4. iter'.state = "dangling" \/ ~GoodRange'
    BY <2>1, <2>3 DEF GoodRange
  <2> QED
    BY <2>1, <2>4 DEF Causes
<1>9. CASE UNCHANGED vars
  <2>1. Held(ret.key)' = Held(ret.key)
    BY <1>9 DEF vars, dbvars, slvars, Held, NodesOf
  <2> QED
    BY <1>9, <2>1 DEF Causes, GoodRange, vars, dbvars, slvars
<1> QED
  BY <1>2, <1>3, <1>4, <1>5, <1>6, <1>7, <1>8, <1>9 DEF Next

LEMMA InitDBInv == Init => DBInv
<1> SUFFICES ASSUME Init PROVE DBInv
  OBVIOUS
<1>1. SLInit /\ iter = NoIter /\ op = "idle" /\ fault = "none"
  BY DEF Init, SLInit
<1>2. SLInv
  BY <1>1, InitShape
<1>3. /\ useSkipList \in Modes /\ map = [k \in {} |-> None] /\ last = [k \in Key |-> None]
      /\ rewritten = {} /\ ret.call = "none"
  BY DEF Init
<1>4. Types
  <2>1. map \in [{} -> Value] /\ {} \in SUBSET Key
    BY <1>3
  <2>2. map \in UNION {[D -> Value] : D \in SUBSET Key}
    BY <2>1
  <2> QED
    BY <1>1, <1>3, <2>2 DEF Types
<1>5. Scan
  BY <1>1 DEF Scan, Scanning, NoIter
<1>6. MapMatches
  BY <1>3 DEF MapMatches
<1>7. ListMatches
  BY <1>1, <1>3, InitHeld DEF ListMatches, Popped, Removing
<1>8. Deleting /\ AnswersFollowWrites /\ Causes
  BY <1>1, <1>3 DEF Deleting, AnswersFollowWrites, Causes
<1> QED
  BY <1>2, <1>4, <1>5, <1>6, <1>7, <1>8 DEF DBInv

LEMMA StepDBInv == DBInv /\ [Next]_vars => DBInv'
<1> SUFFICES ASSUME DBInv, [Next]_vars PROVE DBInv'
  OBVIOUS
<1>1. SLInv /\ Types /\ Scan /\ MapMatches /\ ListMatches /\ Deleting /\ AnswersFollowWrites /\ Causes
  BY DEF DBInv
<1>2. SLInv' /\ Types' /\ Scan'
  BY <1>1, ListKept, ScanInvariant
<1>3. MapMatches' /\ ListMatches' /\ Deleting' /\ AnswersFollowWrites'
  BY <1>1, MapMatchesStep, ListMatchesStep, DeletingStep, AnswersStep
<1>4. Causes'
  <2>1. SLTypeOK'
    BY <1>2 DEF SLInv
  <2> QED
    BY <1>1, <2>1, CausesStep
<1> QED
  BY <1>2, <1>3, <1>4 DEF DBInv

LEMMA DBInvariant == Spec => []DBInv
<1>1. Init => DBInv
  BY InitDBInv
<1>2. DBInv /\ [Next]_vars => DBInv'
  BY StepDBInv
<1> QED
  BY <1>1, <1>2, PTL DEF Spec

\* Get and Has answer from the last Put and Delete of the key: over the map for
\* every key, over the skip list for every key that was never put twice.
THEOREM AnswersAreRight == Spec => []AnswersFollowWrites
<1>1. DBInv => AnswersFollowWrites
  BY DEF DBInv
<1> QED
  BY <1>1, DBInvariant, PTL

\* Whatever is put and deleted between two calls of Iterator::Next, the scan of
\* a good range shows ascending keys of the range, and at its end has shown all
\* those of the range that were in the map all along, the end key excepted.
THEOREM ScanIsRight == Spec => []ScanShowsRange
<1>1. DBInv => ScanShowsRange
  <2> SUFFICES ASSUME DBInv, Scanning, GoodRange PROVE ScanShowsRange
    BY DEF ScanShowsRange
  <2>1. /\ \A i \in 1..(Len(iter.seen) - 1) : iter.seen[i] < iter.seen[i + 1]
        /\ \A i \in 2..Len(iter.seen) : BeforeEnd(iter.seen[i])
        /\ iter.state = "done" => \A k \in iter.stable : BeforeEnd(k) => Shown(k)
    BY DEF DBInv, Scan
  <2>2. /\ iter.stable \subseteq Nat /\ iter.end \in Nat /\ iter.seen \in Seq(Nat)
        /\ Len(iter.seen) \in Nat /\ \A i \in 1..Len(iter.seen) : iter.seen[i] \in Nat
    <3>1. /\ iter.stable \in SUBSET Key /\ Key \subseteq Nat
          /\ iter.end \in Nat /\ iter.seen \in Seq(Nat)
      BY IterTypes DEF DBInv
    <3>2. \A s \in Seq(Nat) : Len(s) \in Nat /\ \A i \in 1..Len(s) : s[i] \in Nat
      OBVIOUS
    <3>3. Len(iter.seen) \in Nat /\ \A i \in 1..Len(iter.seen) : iter.seen[i] \in Nat
      BY <3>1, <3>2, Zenon
    <3>4. iter.stable \subseteq Nat
      BY <3>1
    <3> QED
      BY <3>1, <3>3, <3>4
  <2>3. \A k \in Nat : BeforeEnd(k) => InRange(k)
    BY <2>2 DEF BeforeEnd, InRange
  <2>4. \A k \in iter.stable \ {iter.end} : InRange(k) => BeforeEnd(k)
    BY <2>2 DEF BeforeEnd, InRange
  <2>5. \A i \in 2..Len(iter.seen) : InRange(iter.seen[i])
    BY <2>1, <2>2, <2>3
  <2> QED
    BY <2>1, <2>4, <2>5 DEF ScanShowsRange, Shown
<1> QED
  BY <1>1, DBInvariant, PTL

\* Defined behaviour is left in the three ways FaultCauses names and no other,
\* and the variables of list, map and iterator keep their types.
THEOREM FaultsHaveCauses == Spec => []FaultCauses
<1>1. DBInv => FaultCauses
  <2> SUFFICES ASSUME DBInv PROVE FaultCauses
    OBVIOUS
  <2>1. SLTypeOK /\ Types /\ Causes
    BY DEF DBInv, SLInv
  <2>2. Scanning => {iter.cur, iter.end} \subseteq Key \cup {End} /\ iter.seen \in Seq(Key \cup {End})
    BY <2>1 DEF Types, Scanning, NoIter
  <2>3. iter.state \in {"none", "ready", "more", "done", "dangling"}
    BY <2>1 DEF Types, NoIter
  <2>4. TypeOK
    BY <2>1, <2>2, <2>3 DEF TypeOK, Types
  <2> QED
    BY <2>1, <2>4 DEF FaultCauses, Causes
<1> QED
  BY <1>1, DBInvariant, PTL
=============================================================================
