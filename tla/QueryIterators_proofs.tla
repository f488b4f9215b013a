------------------------ MODULE QueryIterators_proofs ------------------------
(***************************************************************************)
(* For every plan, table and order of calls: only a sort that threw is     *)
(* ever in the state in which its next() dereferences an unset iterator    *)
(* (CrashOnlyAfterThrow), an iterator that ended gives no row any more     *)
(* (EndsForGood), iterators that share a child split its rows (RowsOnce),  *)
(* and an iterator with its part of the plan to itself returns what its    *)
(* query means (RowsAreAnswers).                                           *)
(***************************************************************************)
EXTENDS QueryIterators, SequenceTheorems, FiniteSetTheorems, WellFoundedInduction, TLAPS

IsSeq(s) == \E S : s \in Seq(S)

Sorts(i) == Node(i).kind = "sort"
Reads(i) == Node(i).kind # "scan"

Types == /\ plan \in Plans
         /\ frames \in Seq(Nodes)
         /\ DOMAIN out = Nodes /\ DOMAIN sorted = Nodes
         /\ record \in [Nodes -> Nat]
         /\ \A i \in Nodes : IsSeq(out[i]) /\ IsSeq(sorted[i])
         /\ IsSeq(reply) /\ returned \in BOOLEAN

\* The calls in progress go down the plan.
Descent ==
    /\ \A k, m \in DOMAIN frames : k < m => frames[m] < frames[k]
    /\ \A k, m \in DOMAIN frames :
          m = k + 1 => Reads(frames[k]) /\ frames[m] = Child(frames[k])
    /\ returned /\ frames # <<>> => Reads(Top)
    /\ frames # <<>> => outcome = "running"

\* A node that stored or returned a tuple had it from its child, and a sort returns
\* tuples only with d_currentRecord set.
Fed == \A i \in Nodes :
          /\ Reads(i) /\ (sorted[i] # <<>> \/ out[i] # <<>>) => out[Child(i)] # <<>>
          /\ Sorts(i) /\ out[i] # <<>> => record[i] # 0
          /\ record[i] # 0 => sorted[i] # <<>>
          /\ sorted[i] # <<>> => Sorts(i)

\* So do all the calls below it.
FedBelow ==
    /\ \A k, m \in DOMAIN frames :
          k < m /\ (sorted[frames[k]] # <<>> \/ out[frames[k]] # <<>>) => out[frames[m]] # <<>>
    /\ returned /\ frames # <<>> /\ reply # <<>> => out[Child(Top)] # <<>>

\* A call in progress that has called its child.
Waits(k) == k < Len(frames) \/ returned

\* A sort that waits for its child has not set d_currentRecord; tuples stored
\* without it belong to such a sort or to one that threw.
Collecting ==
    /\ \A k \in DOMAIN frames : Sorts(frames[k]) /\ Waits(k) => record[frames[k]] = 0
    /\ \A i \in Nodes : sorted[i] # <<>> /\ record[i] = 0 =>
          i \in threw \/ \E k \in DOMAIN frames : frames[k] = i /\ Waits(k)

QInv == Types /\ Descent /\ Fed /\ FedBelow /\ Collecting /\ CrashCauses

-----------------------------------------------------------------------------
(* Sequences of anything.                                                  *)

LEMMA EmptyIsSeq == IsSeq(<<>>)
<1>1. <<>> \in Seq({})
  OBVIOUS
<1> QED
  BY <1>1 DEF IsSeq

LEMMA OneIsSeq == ASSUME NEW x PROVE IsSeq(<<x>>) /\ <<x>> # <<>>
<1>1. <<x>> \in Seq({x})
  OBVIOUS
<1> QED
  BY <1>1 DEF IsSeq

LEMMA JoinIsSeq ==
    ASSUME NEW s, NEW t, IsSeq(s), IsSeq(t)
    PROVE  IsSeq(s \o t) /\ (s \o t # <<>> <=> s # <<>> \/ t # <<>>)
<1>1. PICK S : s \in Seq(S)
  BY DEF IsSeq
<1>2. PICK T : t \in Seq(T)
  BY DEF IsSeq
<1> DEFINE U == S \cup T
<1>3. s \in Seq(U)
  <2>1. S \subseteq U
    OBVIOUS
  <2> QED
    BY <1>1, <2>1, SeqMonotonic
<1>4. t \in Seq(U)
  <2>1. T \subseteq U
    OBVIOUS
  <2> QED
    BY <1>2, <2>1, SeqMonotonic
<1> HIDE DEF U
<1>5. s \o t \in Seq(U)
  BY <1>3, <1>4
<1>6. s \o t = <<>> <=> s = <<>> /\ t = <<>>
  BY <1>3, <1>4, ConcatEqualIffEmpty
<1> QED
  BY <1>5, <1>6 DEF IsSeq

LEMMA AppendIsSeq ==
    ASSUME NEW s, NEW x, IsSeq(s)
    PROVE  IsSeq(Append(s, x)) /\ Append(s, x) # <<>>
<1>1. PICK S : s \in Seq(S)
  BY DEF IsSeq
<1>2. s \in Seq(S \cup {x})
  <2>1. S \subseteq S \cup {x}
    OBVIOUS
  <2> QED
    BY <1>1, <2>1, SeqMonotonic
<1>3. Append(s, x) \in Seq(S \cup {x}) /\ Append(s, x) # <<>>
  BY <1>2, AppendProperties
<1> QED
  BY <1>3 DEF IsSeq

LEMMA SortingIsSeq ==
    ASSUME NEW n, NEW s, IsSeq(s), s # <<>>, NEW p \in Sortings(n, s)
    PROVE  IsSeq(p) /\ p # <<>>
<1>1. PICK S : s \in Seq(S)
  BY DEF IsSeq
<1>2. Len(s) \in Nat \ {0} /\ DOMAIN s = 1..Len(s)
  BY <1>1
<1>3. PICK f \in Bijection(DOMAIN s, DOMAIN s) : p = [k \in DOMAIN s |-> s[f[k]]]
  BY DEF Sortings
<1> DEFINE T == {s[f[k]] : k \in DOMAIN s}
<1>4. p \in [1..Len(s) -> T]
  BY <1>2, <1>3
<1>5. p \in Seq(T)
  BY <1>2, <1>4
<1>6. p # <<>>
  BY <1>2, <1>4
<1> QED
  BY <1>5, <1>6 DEF IsSeq

-----------------------------------------------------------------------------
\* A node reads from one constructed before it.
LEMMA PlanFacts ==
    ASSUME plan \in Plans, NEW i \in Nodes
    PROVE  /\ Node(i).kind \in {"scan", "limit", "selection", "projection", "sort"}
           /\ Reads(i) => /\ Child(i) \in Nodes
                          /\ i \in Nat /\ Child(i) \in Nat /\ Child(i) < i
<1>1. CASE i = 1
  BY <1>1, PlanAssumption DEF Nodes, Node, Reads, Scan
<1>2. CASE i # 1
  BY <1>2, PlanAssumption DEF Nodes, Node, Reads, Child
<1> QED
  BY <1>1, <1>2

LEMMA NodesAreNumbers == ASSUME plan \in Plans, NEW i \in Nodes PROVE i \in Nat
  BY PlanAssumption DEF Nodes

LEMMA Initial == Init => QInv
<1> SUFFICES ASSUME Init PROVE QInv
  OBVIOUS
<1>1. Types
  <2>1. frames \in Seq(Nodes) /\ returned \in BOOLEAN
    BY EmptySeq, Zenon DEF Init
  <2>2. record \in [Nodes -> Nat]
    BY DEF Init
  <2>3. /\ DOMAIN out = Nodes /\ DOMAIN sorted = Nodes
        /\ \A i \in Nodes : out[i] = <<>> /\ sorted[i] = <<>>
    BY DEF Init
  <2> QED
    BY <2>1, <2>2, <2>3, EmptyIsSeq DEF Init, Types
<1> QED
  BY <1>1 DEF Init, QInv, Descent, Fed, FedBelow, Collecting, CrashCauses

\* The innermost call calls its child's next(); a sort may store a tuple before.
LEMMA PullKeeps ==
    ASSUME QInv, NEW i \in Nodes, frames # <<>>, i = Top, Reads(i),
           frames' = Append(frames, Child(i)), ~returned',  returned' \in BOOLEAN,
           outcome' = outcome,
           UNCHANGED <<reply, plan, out, record, threw>>,
           \/ UNCHANGED sorted
           \/ \E x : /\ sorted' = [sorted EXCEPT ![i] = Append(@, x)]
                     /\ returned /\ reply # <<>> /\ Sorts(i),
           Sorts(i) => record[i] = 0
    PROVE  QInv'
<1> DEFINE c == Child(i)
<1>1. PICK n \in Nat \ {0} :
      /\ frames \in Seq(Nodes) /\ n = Len(frames) /\ DOMAIN frames = 1..n /\ frames[n] = i
      /\ c \in Nodes /\ c < i /\ i \in Nat /\ c \in Nat
      /\ \A k \in 1..n : frames[k] \in Nodes /\ frames[k] \in Nat
  <2>1. plan \in Plans /\ frames \in Seq(Nodes)
    BY DEF QInv, Types
  <2> QED
    BY <2>1, PlanFacts, NodesAreNumbers DEF Top
<1> HIDE DEF c
<1>2. /\ frames' \in Seq(Nodes) /\ DOMAIN frames' = 1..(n + 1) /\ Len(frames') = n + 1
      /\ frames'[n + 1] = c /\ \A k \in 1..n : frames'[k] = frames[k]
  BY <1>1 DEF c
<1>3. /\ Nodes' = Nodes
      /\ \A j : Node(j)' = Node(j) /\ Child(j)' = Child(j) /\ Sorts(j)' = Sorts(j)
                /\ Reads(j)' = Reads(j)
  BY DEF Nodes, Node, Child, Sorts, Reads
<1>4. /\ DOMAIN sorted' = Nodes
      /\ \A j \in Nodes : /\ IsSeq(sorted'[j])
                          /\ sorted[j] # <<>> => sorted'[j] # <<>>
                          /\ j # i => sorted'[j] = sorted[j]
      /\ sorted'[i] # <<>> /\ sorted[i] = <<>> =>
            returned /\ reply # <<>> /\ Sorts(i)
  <2>1. CASE UNCHANGED sorted
    BY <2>1 DEF QInv, Types
  <2>2. ASSUME NEW x, sorted' = [sorted EXCEPT ![i] = Append(@, x)],
               returned, reply # <<>>, Sorts(i)
        PROVE  <1>4!1 /\ <1>4!2 /\ <1>4!3
    BY <2>2, AppendIsSeq DEF QInv, Types
  <2> QED
    BY <2>1, <2>2
<1>5. Types'
  BY <1>2, <1>3, <1>4 DEF QInv, Types
<1>6. sorted'[i] # <<>> \/ out[i] # <<>> => out[c] # <<>>
  BY <1>1, <1>4 DEF QInv, Fed, FedBelow, c
<1>7. Descent'
  <2>1. ASSUME NEW k \in 1..(n + 1), NEW m \in 1..(n + 1), k < m
        PROVE  frames'[m] < frames'[k]
    <3>1. CASE m \in 1..n
      <4>1. k \in 1..n
        BY <2>1, <3>1
      <4>2. frames[m] < frames[k]
        BY <1>1, <2>1, <3>1, <4>1 DEF QInv, Descent
      <4> QED
        BY <1>2, <3>1, <4>1, <4>2
    <3>2. CASE m = n + 1 /\ k = n
      BY <1>1, <1>2, <3>2
    <3>3. CASE m = n + 1 /\ k < n
      <4>1. i < frames[k] /\ frames[k] \in Nat
        BY <1>1, <3>3, <2>1 DEF QInv, Descent
      <4> QED
        BY <1>1, <1>2, <3>3, <2>1, <4>1
    <3>4. m \in 1..n \/ (m = n + 1 /\ (k = n \/ k < n))
      BY <2>1
    <3> QED
      BY <3>1, <3>2, <3>3, <3>4
  <2>2. ASSUME NEW k \in 1..(n + 1), k + 1 \in 1..(n + 1)
        PROVE  Reads(frames'[k]) /\ frames'[k + 1] = Child(frames'[k])
    <3>1. CASE k = n
      BY <1>1, <1>2, <3>1 DEF c
    <3>2. CASE k # n
      <4>1. k \in 1..n /\ k + 1 \in 1..n
        BY <2>2, <3>2
      <4> QED
        BY <1>1, <1>2, <4>1 DEF QInv, Descent
    <3> QED
      BY <3>1, <3>2
  <2>3. outcome' = "running"
    BY DEF QInv, Descent
  <2> QED
    BY <1>2, <1>3, <2>1, <2>2, <2>3 DEF Descent
<1>8. Fed'
  BY <1>1, <1>3, <1>4, <1>6 DEF QInv, Fed, c
<1>9. FedBelow'
  <2>1. ASSUME NEW k \in 1..(n + 1), NEW m \in 1..(n + 1), k < m,
               sorted'[frames'[k]] # <<>> \/ out[frames'[k]] # <<>>
        PROVE  out[frames'[m]] # <<>>
    <3>1. k \in 1..n /\ frames'[k] = frames[k]
      BY <1>1, <1>2, <2>1
    <3>2. CASE k = n
      <4>1. frames'[k] = i /\ m = n + 1
        BY <1>1, <2>1, <3>1, <3>2
      <4> QED
        BY <1>2, <1>6, <2>1, <4>1
    <3>3. CASE k < n
      <4>1. frames[k] # i
        BY <1>1, <3>1, <3>3 DEF QInv, Descent
      <4>2. sorted[frames[k]] # <<>> \/ out[frames[k]] # <<>>
        BY <1>1, <1>4, <2>1, <3>1, <4>1
      <4>3. \A l \in 1..n : k < l => out[frames[l]] # <<>>
        BY <1>1, <3>1, <4>2 DEF QInv, FedBelow
      <4>4. out[i] # <<>>
        BY <1>1, <3>3, <4>3
      <4>5. CASE m \in 1..n
        BY <1>2, <2>1, <4>3, <4>5
      <4>6. CASE m = n + 1
        BY <1>2, <1>6, <4>4, <4>6
      <4>7. m \in 1..n \/ m = n + 1
        OBVIOUS
      <4> QED
        BY <4>5, <4>6, <4>7
    <3>4. k = n \/ k < n
      BY <3>1
    <3> QED
      BY <3>2, <3>3, <3>4
  <2> QED
    BY <1>2, <2>1 DEF FedBelow
<1>10. Collecting'
  <2>1. ASSUME NEW k \in 1..(n + 1), Sorts(frames'[k]), k < n + 1
        PROVE  record[frames'[k]] = 0
    <3>1. k \in 1..n /\ frames'[k] = frames[k]
      BY <1>1, <1>2, <2>1
    <3>2. CASE k = n
      BY <1>1, <2>1, <3>1, <3>2
    <3>3. CASE k < n
      BY <1>1, <2>1, <3>1, <3>3 DEF QInv, Collecting, Waits
    <3> QED
      BY <1>1, <3>1, <3>2, <3>3
  <2>2. ASSUME NEW j \in Nodes, sorted'[j] # <<>>, record[j] = 0, j \notin threw
        PROVE  \E k \in 1..(n + 1) : frames'[k] = j /\ k < n + 1
    <3>1. CASE j = i
      <4>1. n \in 1..(n + 1) /\ n < n + 1 /\ frames'[n] = i
        BY <1>1, <1>2
      <4> QED
        BY <3>1, <4>1
    <3>2. CASE j # i
      <4>1. PICK k \in 1..n : frames[k] = j
        BY <1>1, <1>4, <2>2, <3>2 DEF QInv, Collecting
      <4>2. k \in 1..(n + 1) /\ k < n + 1 /\ frames'[k] = j
        BY <1>1, <1>2, <4>1
      <4> QED
        BY <4>2
    <3> QED
      BY <3>1, <3>2
  <2> QED
    BY <1>2, <1>3, <2>1, <2>2 DEF Collecting, Waits
<1>11. CrashCauses'
  BY DEF QInv, Descent, CrashCauses
<1> QED
  BY <1>5, <1>7, <1>8, <1>9, <1>10, <1>11 DEF QInv

\* The innermost call returns r.
LEMMA ReturnKeeps ==
    ASSUME QInv, NEW i \in Nodes, frames # <<>>, i = Top,
           NEW r, IsSeq(r), Return(i, r),
           UNCHANGED <<plan, threw>>,
           DOMAIN sorted' = Nodes, IsSeq(sorted'[i]),
           \A j \in Nodes \ {i} : sorted'[j] = sorted[j] /\ record'[j] = record[j],
           record' \in [Nodes -> Nat],
           sorted'[i] # <<>> <=> sorted[i] # <<>>,
           Reads(i) /\ r # <<>> => out[Child(i)] # <<>>,
           Sorts(i) /\ r # <<>> => record'[i] # 0,
           record[i] # 0 => record'[i] # 0,
           record'[i] # 0 => sorted'[i] # <<>>,
           sorted'[i] # <<>> /\ record'[i] = 0 => i \in threw
    PROVE  QInv'
<1>1. PICK n \in Nat \ {0} :
      /\ frames \in Seq(Nodes) /\ n = Len(frames) /\ DOMAIN frames = 1..n /\ frames[n] = i
      /\ \A k \in 1..n : frames[k] \in Nodes /\ frames[k] \in Nat
      /\ plan \in Plans
  <2>1. plan \in Plans /\ frames \in Seq(Nodes)
    BY DEF QInv, Types
  <2>2. Len(frames) \in Nat \ {0} /\ DOMAIN frames = 1..Len(frames)
    BY <2>1
  <2>3. \A k \in DOMAIN frames : frames[k] \in Nodes
    BY <2>1
  <2>4. \A k \in DOMAIN frames : frames[k] \in Nat
    BY <2>1, <2>3, NodesAreNumbers
  <2> QED
    BY <2>1, <2>2, <2>3, <2>4 DEF Top
<1>2. /\ frames' \in Seq(Nodes) /\ DOMAIN frames' = 1..(n - 1) /\ Len(frames') = n - 1
      /\ \A k \in 1..(n - 1) : k \in 1..n /\ frames'[k] = frames[k] /\ frames[k] # i
  <2>1. frames' = SubSeq(frames, 1, n - 1)
    BY <1>1 DEF Return, Front
  <2>2. /\ frames' \in Seq(Nodes) /\ DOMAIN frames' = 1..(n - 1) /\ Len(frames') = n - 1
        /\ \A k \in 1..(n - 1) : k \in 1..n /\ frames'[k] = frames[k]
    BY <1>1, <2>1
  <2>3. ASSUME NEW k \in 1..(n - 1)
        PROVE  frames[k] # i
    <3>1. k \in 1..n /\ n \in 1..n /\ k < n
      BY <1>1
    <3>2. frames[n] < frames[k]
      BY <1>1, <3>1 DEF QInv, Descent
    <3>3. frames[k] \in Nat /\ frames[n] = i /\ i \in Nat
      BY <1>1, <3>1
    <3> QED
      BY <3>2, <3>3
  <2> QED
    BY <2>2, <2>3
<1>3. /\ Nodes' = Nodes
      /\ \A j : Node(j)' = Node(j) /\ Child(j)' = Child(j) /\ Sorts(j)' = Sorts(j)
                /\ Reads(j)' = Reads(j)
  BY DEF Nodes, Node, Child, Sorts, Reads
<1>4. /\ DOMAIN out' = Nodes
      /\ \A j \in Nodes : IsSeq(out'[j]) /\ (j # i => out'[j] = out[j])
      /\ out'[i] # <<>> <=> out[i] # <<>> \/ r # <<>>
      /\ returned' = TRUE /\ reply' = r /\ outcome' = outcome
  <2>1. /\ out' = [out EXCEPT ![i] = @ \o r]
        /\ returned' = TRUE /\ reply' = r /\ outcome' = outcome
    BY DEF Return
  <2>2. IsSeq(out[i] \o r) /\ (out[i] \o r # <<>> <=> out[i] # <<>> \/ r # <<>>)
    BY JoinIsSeq DEF QInv, Types
  <2> QED
    BY <2>1, <2>2 DEF QInv, Types
<1>5. Types'
  BY <1>2, <1>3, <1>4 DEF QInv, Types
<1>6. Descent'
  <2>1. \A k, m \in 1..(n - 1) : k < m => frames'[m] < frames'[k]
    BY <1>1, <1>2 DEF QInv, Descent
  <2>2. ASSUME NEW k \in 1..(n - 1), NEW m \in 1..(n - 1), m = k + 1
        PROVE  Reads(frames'[k]) /\ frames'[m] = Child(frames'[k])
    <3>1. k \in 1..n /\ m \in 1..n /\ frames'[k] = frames[k] /\ frames'[m] = frames[m]
      BY <1>2
    <3>2. Reads(frames[k]) /\ frames[m] = Child(frames[k])
      BY <1>1, <2>2, <3>1 DEF QInv, Descent
    <3> QED
      BY <3>1, <3>2
  <2>3. ASSUME frames' # <<>>
        PROVE  Reads(Top')
    <3>1. n - 1 \in 1..(n - 1) /\ n - 1 \in 1..n /\ n \in 1..n /\ n = (n - 1) + 1
      <4>1. Len(frames') # 0
        BY <1>2, <2>3
      <4>2. n \in Nat \ {0} /\ n # 1
        BY <1>1, <1>2, <4>1
      <4> QED
        BY <4>2
    <3>2. Top' = frames[n - 1]
      BY <1>2, <3>1 DEF Top
    <3> QED
      BY <1>1, <3>1, <3>2 DEF QInv, Descent
  <2>4. outcome' = "running"
    BY <1>4 DEF QInv, Descent
  <2> QED
    BY <1>2, <1>3, <2>1, <2>2, <2>3, <2>4 DEF Descent
<1>7. Fed'
  <2> SUFFICES ASSUME NEW j \in Nodes
               PROVE  /\ Reads(j) /\ (sorted'[j] # <<>> \/ out'[j] # <<>>) => out'[Child(j)] # <<>>
                      /\ Sorts(j) /\ out'[j] # <<>> => record'[j] # 0
                      /\ record'[j] # 0 => sorted'[j] # <<>>
                      /\ sorted'[j] # <<>> => Sorts(j)
    BY <1>3 DEF Fed
  <2>1. \A l \in Nodes : out[l] # <<>> => out'[l] # <<>>
    BY <1>4
  <2>2. Reads(j) => Child(j) \in Nodes
    BY <1>1, PlanFacts
  <2>3. CASE j = i
    BY <1>4, <2>1, <2>2, <2>3 DEF QInv, Fed
  <2>4. CASE j # i
    BY <1>4, <2>1, <2>2, <2>4 DEF QInv, Fed
  <2> QED
    BY <2>3, <2>4
<1>8. FedBelow'
  <2>1. ASSUME NEW k \in 1..(n - 1), NEW m \in 1..(n - 1), k < m,
               sorted'[frames'[k]] # <<>> \/ out'[frames'[k]] # <<>>
        PROVE  out'[frames'[m]] # <<>>
    <3>1. /\ frames'[k] = frames[k] /\ frames'[m] = frames[m]
          /\ frames[k] \in Nodes \ {i} /\ frames[m] \in Nodes \ {i}
          /\ k \in DOMAIN frames /\ m \in DOMAIN frames
      BY <1>1, <1>2
    <3> QED
      BY <1>4, <2>1, <3>1 DEF QInv, FedBelow
  <2>2. ASSUME frames' # <<>>, r # <<>>
        PROVE  out'[Child(Top')] # <<>>
    <3>1. n - 1 \in 1..(n - 1) /\ n - 1 \in 1..n /\ n \in 1..n /\ n = (n - 1) + 1
      BY <1>1, <1>2, <2>2
    <3>2. Top' = frames[n - 1]
      BY <1>2, <3>1 DEF Top
    <3>3. Child(frames[n - 1]) = i
      BY <1>1, <3>1 DEF QInv, Descent
    <3> QED
      BY <1>4, <2>2, <3>2, <3>3
  <2> QED
    BY <1>2, <1>3, <1>4, <2>1, <2>2 DEF FedBelow
<1>9. Collecting'
  <2>1. ASSUME NEW k \in 1..(n - 1), Sorts(frames'[k])
        PROVE  record'[frames'[k]] = 0
    <3>1. frames'[k] = frames[k] /\ k \in 1..n /\ frames[k] \in Nodes \ {i}
      BY <1>1, <1>2
    <3>2. k < n
      OBVIOUS
    <3>3. record[frames[k]] = 0
      BY <1>1, <2>1, <3>1, <3>2 DEF QInv, Collecting, Waits
    <3> QED
      BY <3>1, <3>3
  <2>2. ASSUME NEW j \in Nodes, sorted'[j] # <<>>, record'[j] = 0, j \notin threw
        PROVE  \E k \in 1..(n - 1) : frames'[k] = j
    <3>1. j # i
      BY <2>2
    <3>2. PICK k \in 1..n : frames[k] = j
      BY <1>1, <2>2, <3>1 DEF QInv, Collecting
    <3>3. k \in 1..(n - 1)
      BY <1>1, <3>1, <3>2
    <3> QED
      BY <1>2, <3>2, <3>3
  <2> QED
    BY <1>2, <1>3, <1>4, <2>1, <2>2 DEF Collecting, Waits
<1>10. CrashCauses'
  BY <1>4 DEF QInv, Descent, CrashCauses
<1> QED
  BY <1>5, <1>6, <1>7, <1>8, <1>9, <1>10 DEF QInv

\* An exception or a fault ends every call in progress; whoever leaves tuples
\* stored without d_currentRecord has thrown.
LEMMA AbortKeeps ==
    ASSUME QInv, frames' = <<>>, returned' \in BOOLEAN,
           UNCHANGED <<plan, out, sorted, record, reply>>,
           \A j \in Nodes : sorted[j] # <<>> /\ record[j] = 0 => j \in threw',
           CrashCauses'
    PROVE  QInv'
<1>1. /\ Nodes' = Nodes
      /\ \A j : Node(j)' = Node(j) /\ Child(j)' = Child(j) /\ Sorts(j)' = Sorts(j)
                /\ Reads(j)' = Reads(j)
  BY DEF Nodes, Node, Child, Sorts, Reads
<1>2. frames' \in Seq(Nodes) /\ DOMAIN frames' = {}
  BY EmptySeq
<1>3. Types'
  BY <1>1, <1>2 DEF QInv, Types
<1>4. Descent' /\ FedBelow'
  BY <1>2 DEF Descent, FedBelow
<1>5. Fed'
  BY <1>1 DEF QInv, Fed
<1>6. Collecting'
  BY <1>1, <1>2 DEF Collecting
<1> QED
  BY <1>3, <1>4, <1>5, <1>6 DEF QInv

-----------------------------------------------------------------------------
LEMMA CallKeeps == ASSUME QInv, NEW h \in plan.handles, Call(h) PROVE QInv'
<1>1. /\ frames = <<>> /\ frames' = <<h>> /\ returned' = FALSE /\ outcome' = "running"
      /\ UNCHANGED <<plan, out, sorted, record, reply, threw>>
  BY DEF Call, machine, history
<1>2. /\ Nodes' = Nodes
      /\ \A j : Node(j)' = Node(j) /\ Child(j)' = Child(j) /\ Sorts(j)' = Sorts(j)
                /\ Reads(j)' = Reads(j)
  BY <1>1 DEF Nodes, Node, Child, Sorts, Reads
<1>3. h \in Nodes
  BY PlanAssumption DEF QInv, Types, Nodes
<1>4. frames' \in Seq(Nodes) /\ Len(frames') = 1 /\ DOMAIN frames' = {1} /\ frames'[1] = h
  BY <1>1, <1>3
<1>5. Types'
  BY <1>1, <1>2, <1>4 DEF QInv, Types
<1>6. Descent' /\ FedBelow'
  BY <1>1, <1>4 DEF Descent, FedBelow
<1>7. Fed'
  BY <1>1, <1>2 DEF QInv, Fed
<1>8. Collecting'
  <2>1. ~Waits(1)'
    BY <1>1, <1>4 DEF Waits
  <2>2. \A j \in Nodes : sorted[j] # <<>> /\ record[j] = 0 => j \in threw
    BY <1>1 DEF QInv, Collecting
  <2> QED
    BY <1>1, <1>2, <1>4, <2>1, <2>2 DEF Collecting
<1>9. CrashCauses'
  BY <1>1 DEF CrashCauses
<1> QED
  BY <1>5, <1>6, <1>7, <1>8, <1>9 DEF QInv

\* Only the innermost call can be a sort whose stored tuples wait for the rest:
\* what a sort above it stored came through this one.
LEMMA OnlyInnermostCollects ==
    ASSUME QInv, frames # <<>>, Sorts(Top), record[Top] = 0,
           NEW j \in Nodes, sorted[j] # <<>>, record[j] = 0
    PROVE  j \in threw \/ (j = Top /\ returned)
<1>1. PICK n \in Nat \ {0} :
      frames \in Seq(Nodes) /\ n = Len(frames) /\ DOMAIN frames = 1..n /\ frames[n] = Top
  BY DEF QInv, Types, Top
<1>2. Top \in Nodes
  BY <1>1
<1>3. out[Top] = <<>>
  BY <1>2 DEF QInv, Fed
<1> SUFFICES ASSUME NEW k \in 1..n, frames[k] = j, Waits(k)
             PROVE  j = Top /\ returned
  BY <1>1 DEF QInv, Collecting
<1>4. CASE k = n
  BY <1>1, <1>4 DEF Waits
<1>5. CASE k < n
  BY <1>1, <1>3, <1>5 DEF QInv, FedBelow
<1> QED
  BY <1>4, <1>5

LEMMA WaitingSortHasNoRecord ==
    ASSUME QInv, frames # <<>>, returned, Sorts(Top)
    PROVE  record[Top] = 0
<1>1. frames \in Seq(Nodes)
  BY DEF QInv, Types
<1>2. Len(frames) \in DOMAIN frames
  BY <1>1
<1> QED
  BY <1>2 DEF QInv, Collecting, Waits, Top

LEMMA StepKeeps == ASSUME QInv, NEW i \in Nodes, Step(i) PROVE QInv'
<1>1. /\ IsSeq(reply) /\ IsSeq(<<>>) /\ \A x : IsSeq(<<x>>)
      /\ record \in [Nodes -> Nat] /\ DOMAIN sorted = Nodes /\ IsSeq(sorted[i])
      /\ record[i] # 0 => sorted[i] # <<>>
      /\ ~Sorts(i) => sorted[i] = <<>> /\ record[i] = 0
      /\ Reads(i) /\ sorted[i] # <<>> => out[Child(i)] # <<>>
  BY EmptyIsSeq, OneIsSeq DEF QInv, Types, Fed
<1>2. ASSUME frames # <<>>, i = Top, returned, reply # <<>>
      PROVE  out[Child(i)] # <<>>
  BY <1>2 DEF QInv, FedBelow
<1>3. CASE ScanNext(i)
  <2>1. PICK r : Return(i, r) /\ IsSeq(r)
    BY <1>1, <1>3 DEF ScanNext
  <2>2. /\ frames # <<>> /\ i = Top /\ ~Reads(i) /\ ~Sorts(i)
        /\ UNCHANGED <<plan, sorted, record, threw>>
    BY <1>3 DEF ScanNext, Entered, Reads, Sorts
  <2> QED
    BY <1>1, <2>1, <2>2, ReturnKeeps
<1>4. CASE LimitNext(i)
  <2>1. /\ frames # <<>> /\ i = Top /\ Reads(i) /\ ~Sorts(i)
        /\ Pull(i) /\ UNCHANGED <<plan, sorted, record, out, threw>>
    BY <1>4 DEF LimitNext, Entered, Reads, Sorts, history
  <2> QED
    BY <2>1, PullKeeps DEF Pull
<1>5. CASE SelectionPull(i)
  <2>1. /\ frames # <<>> /\ i = Top /\ Reads(i) /\ ~Sorts(i)
        /\ Pull(i) /\ UNCHANGED <<plan, sorted, record, out, threw>>
    BY <1>5 DEF SelectionPull, Entered, Resumed, Reads, Sorts, machine, history
  <2> QED
    BY <2>1, PullKeeps DEF Pull
<1>6. CASE ProjectionPull(i)
  <2>1. /\ frames # <<>> /\ i = Top /\ Reads(i) /\ ~Sorts(i)
        /\ Pull(i) /\ UNCHANGED <<plan, sorted, record, out, threw>>
    BY <1>6 DEF ProjectionPull, Entered, Reads, Sorts, machine, history
  <2> QED
    BY <2>1, PullKeeps DEF Pull
<1>7. CASE SortPull(i)
  <2>1. /\ frames # <<>> /\ i = Top /\ Reads(i) /\ sorted[i] = <<>>
        /\ Pull(i) /\ UNCHANGED <<plan, sorted, record, out, threw>>
    BY <1>7 DEF SortPull, Entered, Reads, Sorts, machine, history
  <2> QED
    BY <1>1, <2>1, PullKeeps DEF Pull
<1>8. CASE SortStore(i)
  <2>1. /\ frames # <<>> /\ i = Top /\ Reads(i) /\ Sorts(i) /\ returned /\ reply # <<>>
        /\ sorted' = [sorted EXCEPT ![i] = Append(@, reply[1])]
        /\ Pull(i) /\ UNCHANGED <<plan, record, out, threw>>
    BY <1>8 DEF SortStore, Resumed, Reads, Sorts, history
  <2>2. record[i] = 0
    BY <2>1, WaitingSortHasNoRecord
  <2>3. \E x : sorted' = [sorted EXCEPT ![i] = Append(@, x)] /\ returned /\ reply # <<>> /\ Sorts(i)
    BY <2>1
  <2> QED
    BY <2>1, <2>2, <2>3, PullKeeps DEF Pull
<1>9. CASE LimitReached(i)
  <2>1. /\ frames # <<>> /\ i = Top /\ ~Sorts(i) /\ Return(i, <<>>)
        /\ UNCHANGED <<plan, sorted, record, threw>>
    BY <1>9 DEF LimitReached, Entered, Sorts, machine
  <2> QED
    BY <1>1, <2>1, ReturnKeeps
<1>10. CASE LimitReturn(i) \/ SelectionReturn(i)
  <2>1. /\ frames # <<>> /\ i = Top /\ returned /\ ~Sorts(i) /\ Return(i, reply)
        /\ UNCHANGED <<plan, sorted, record, threw>>
    BY <1>10 DEF LimitReturn, SelectionReturn, Resumed, Sorts, machine
  <2> QED
    BY <1>1, <1>2, <2>1, ReturnKeeps
<1>11. CASE ProjectionReturn(i)
  <2>1. /\ frames # <<>> /\ i = Top /\ returned /\ ~Sorts(i)
        /\ UNCHANGED <<plan, sorted, record, threw>>
    BY <1>11 DEF ProjectionReturn, Resumed, Sorts, machine
  <2>2. PICK r : Return(i, r) /\ IsSeq(r) /\ (r # <<>> => reply # <<>>)
    BY <1>1, <1>11 DEF ProjectionReturn
  <2> QED
    BY <1>1, <1>2, <2>1, <2>2, ReturnKeeps
<1>12. CASE SortNothing(i)
  <2>1. /\ frames # <<>> /\ i = Top /\ sorted[i] = <<>> /\ Return(i, <<>>)
        /\ UNCHANGED <<plan, sorted, record, threw>>
    BY <1>12 DEF SortNothing, Resumed, machine
  <2> QED
    BY <1>1, <2>1, ReturnKeeps
<1>13. CASE SortAndReturn(i)
  <2>1. PICK s \in Sortings(Node(i), sorted[i]) :
          sorted' = [sorted EXCEPT ![i] = s] /\ Return(i, <<s[1]>>)
    BY <1>13 DEF SortAndReturn
  <2>2. /\ frames # <<>> /\ i = Top /\ Reads(i) /\ sorted[i] # <<>>
        /\ record' = [record EXCEPT ![i] = 2] /\ UNCHANGED <<plan, threw>>
    BY <1>13 DEF SortAndReturn, Resumed, Reads
  <2>3. IsSeq(s) /\ s # <<>>
    BY <1>1, <2>1, <2>2, SortingIsSeq
  <2>4. /\ DOMAIN sorted' = Nodes /\ sorted'[i] = s
        /\ record' \in [Nodes -> Nat] /\ record'[i] = 2
        /\ \A j \in Nodes \ {i} : sorted'[j] = sorted[j] /\ record'[j] = record[j]
    BY <1>1, <2>1, <2>2
  <2> QED
    BY <1>1, <2>1, <2>2, <2>3, <2>4, ReturnKeeps
<1>14. CASE SortNext(i)
  <2>1. /\ frames # <<>> /\ i = Top /\ Reads(i) /\ sorted[i] # <<>> /\ record[i] # 0
        /\ UNCHANGED <<plan, sorted, threw>>
    BY <1>14 DEF SortNext, Entered, Reads
  <2>2. PICK r : Return(i, r) /\ IsSeq(r)
    BY <1>1, <1>14 DEF SortNext
  <2>3. record' = record \/ record' = [record EXCEPT ![i] = @ + 1]
    BY <1>14 DEF SortNext
  <2>4. /\ record' \in [Nodes -> Nat] /\ record'[i] # 0
        /\ \A j \in Nodes \ {i} : record'[j] = record[j]
    BY <1>1, <2>1, <2>3
  <2> QED
    BY <1>1, <2>1, <2>2, <2>4, ReturnKeeps
<1>15. CASE SortThrow(i)
  <2>1. /\ frames # <<>> /\ i = Top /\ Sorts(i) /\ returned
        /\ frames' = <<>> /\ returned' = FALSE /\ outcome' = "threw" /\ threw' = threw \cup {i}
        /\ UNCHANGED <<plan, out, sorted, record, reply>>
    BY <1>15 DEF SortThrow, Throw, Resumed, Sorts, machine
  <2>2. record[i] = 0
    BY <2>1, WaitingSortHasNoRecord
  <2>3. \A j \in Nodes : sorted[j] # <<>> /\ record[j] = 0 => j \in threw'
    BY <2>1, <2>2, OnlyInnermostCollects
  <2>4. CrashCauses' /\ returned' \in BOOLEAN
    BY <2>1 DEF CrashCauses
  <2> QED
    BY <2>1, <2>3, <2>4, AbortKeeps
<1>16. CASE SortUnset(i)
  <2>1. /\ frames # <<>> /\ i = Top /\ Sorts(i) /\ ~returned
        /\ sorted[i] # <<>> /\ record[i] = 0
        /\ frames' = <<>> /\ UNCHANGED <<plan, out, sorted, record, reply, returned, threw>>
    BY <1>16 DEF SortUnset, Entered, Sorts, machine, history
  <2>2. \A j \in Nodes : sorted[j] # <<>> /\ record[j] = 0 => j \in threw'
    BY <2>1, OnlyInnermostCollects
  <2>3. CrashCauses' /\ returned' \in BOOLEAN
    BY <2>1, <2>2 DEF CrashCauses, QInv, Types
  <2> QED
    BY <2>1, <2>2, <2>3, AbortKeeps
<1> QED
  BY <1>3, <1>4, <1>5, <1>6, <1>7, <1>8, <1>9, <1>10, <1>11, <1>12, <1>13, <1>14, <1>15, <1>16
  DEF Step

LEMMA StutterKeeps == ASSUME QInv, UNCHANGED vars PROVE QInv'
  BY DEF QInv, Types, Descent, Fed, FedBelow, Waits, Collecting, CrashCauses, IsSeq, Sorts, Reads,
         Nodes, Node, Child, Top, vars, machine, history

LEMMA NextKeeps == QInv /\ [Next]_vars => QInv'
  BY CallKeeps, StepKeeps, StutterKeeps DEF Next

\* The unset d_currentRecord is dereferenced only by a sort that threw before,
\* with tuples already stored: no plan, no table and no order of calls on the
\* iterators gets a sort into that state otherwise (sortiterator.cpp tests only
\* whether d_tuples is empty).
THEOREM CrashOnlyAfterThrow == FairSpec => []CrashCauses
<1>1. QInv => CrashCauses
  BY DEF QInv
<1> QED
  BY Initial, NextKeeps, <1>1, PTL DEF FairSpec

-----------------------------------------------------------------------------
(* Induction over the nodes of a plan.                                     *)

LEMMA Induction ==
    ASSUME NEW S, 0 \in S, \A n \in Nat : n \in S => n + 1 \in S
    PROVE  Nat \subseteq S
<1> SUFFICES ASSUME Nat \ S # {} PROVE FALSE
  OBVIOUS
<1>1. IsWellFoundedOn(OpToRel(<, Nat), Nat)
  BY NatLessThanWellFounded
<1>2. PICK n \in Nat \ S : \A m \in Nat \ S : <<m, n>> \notin OpToRel(<, Nat)
  <2>1. Nat \ S \subseteq Nat /\ Nat \ S # {}
    OBVIOUS
  <2> QED
    BY <1>1, <2>1, WFMin
<1>3. n # 0 /\ n \in Nat
  OBVIOUS
<1>4. n - 1 \in Nat /\ n - 1 < n /\ (n - 1) + 1 = n
  BY <1>3
<1>5. n - 1 \in S
  BY <1>2, <1>4 DEF OpToRel
<1> QED
  BY <1>4, <1>5

\* What a node reaches: nothing, or its child and what that reaches.
LEMMA BelowIs ==
    ASSUME plan \in Plans, NEW i \in Nodes
    PROVE  Below[i] = IF Reads(i) THEN {Child(i)} \cup Below[Child(i)] ELSE {}
<1> DEFINE Low(j) == {x \in Nodes : x <= j}
           P(j) == \E f : f = [x \in Low(j) |-> IF Node(x).kind = "scan" THEN {} ELSE {Child(x)} \cup f[Child(x)]]
           S == {j \in Nat : P(j)}
<1>1. PICK n \in Nat : Nodes = 1..n
  BY PlanAssumption DEF Nodes
<1>2. \A x \in Nodes : Reads(x) => Child(x) \in Nodes /\ Child(x) < x /\ x \in Nat /\ Child(x) \in Nat
  BY PlanFacts
<1>3. P(0)
  <2> DEFINE f == [x \in Low(0) |-> {}]
  <2>1. Low(0) = {}
    BY <1>1
  <2>2. f = [x \in Low(0) |-> IF Node(x).kind = "scan" THEN {} ELSE {Child(x)} \cup f[Child(x)]]
    BY <2>1
  <2> QED
    BY <2>2
<1>4. ASSUME NEW j \in Nat, P(j) PROVE P(j + 1)
  <2>1. PICK f : f = [x \in Low(j) |-> IF Node(x).kind = "scan" THEN {} ELSE {Child(x)} \cup f[Child(x)]]
    BY <1>4
  <2>2. Low(j) \subseteq Low(j + 1)
    BY <1>1
  <2>3. \A x \in Low(j + 1) : Node(x).kind # "scan" => Child(x) \in Low(j)
    BY <1>1, <1>2 DEF Reads
  <2> HIDE DEF Low
  <2> DEFINE g == [x \in Low(j + 1) |-> IF Node(x).kind = "scan" THEN {} ELSE {Child(x)} \cup f[Child(x)]]
  <2>4. \A x \in Low(j) : f[x] = g[x]
    BY <2>1, <2>2
  <2>5. g = [x \in Low(j + 1) |-> IF Node(x).kind = "scan" THEN {} ELSE {Child(x)} \cup g[Child(x)]]
    BY <2>3, <2>4
  <2> QED
    BY <2>5
<1> HIDE DEF P
<1>5. 0 \in S /\ \A j \in Nat : j \in S => j + 1 \in S
  BY <1>3, <1>4
<1>6. Nat \subseteq S
  BY <1>5, Induction
<1>7. P(n)
  BY <1>6
<1>8. Low(n) = Nodes
  BY <1>1
<1> HIDE DEF Low
<1>9. \E f : f = [x \in Nodes |-> IF Node(x).kind = "scan" THEN {} ELSE {Child(x)} \cup f[Child(x)]]
  BY <1>7, <1>8 DEF P
<1>10. Below = CHOOSE f : f = [x \in Nodes |-> IF Node(x).kind = "scan" THEN {} ELSE {Child(x)} \cup f[Child(x)]]
  BY DEF Below
<1>11. Below = [x \in Nodes |-> IF Node(x).kind = "scan" THEN {} ELSE {Child(x)} \cup Below[Child(x)]]
  BY <1>9, <1>10
<1> QED
  BY <1>11 DEF Reads

-----------------------------------------------------------------------------
(* The end of an iterator.                                                 *)

\* It has returned nullopt, at the end of the query.
Final(i) == i \in ended /\ i \notin gap /\ ~Disturbed(i)

\* Such an iterator has nothing left: it reads from one that has ended, or its own
\* count or buffer is used up.
Spent(i) ==
    LET k == Node(i).kind
    IN  /\ k = "scan" => current > Len(tuples)
        /\ k = "limit" => limit[i] = 0 \/ Child(i) \in ended
        /\ k \in {"selection", "projection"} => Child(i) \in ended
        /\ k = "sort" => IF sorted[i] = <<>> THEN Child(i) \in ended ELSE record[i] > Len(sorted[i])

EInv ==
    /\ \A i \in Nodes : Final(i) => Spent(i)
    /\ \A k \in DOMAIN frames : Waits(k) /\ Final(frames[k]) => Child(frames[k]) \in ended
    /\ returned /\ frames # <<>> =>
          IF reply = <<>> THEN Child(Top) \in ended ELSE ~Final(Child(Top))

LEMMA FinalChild ==
    ASSUME plan \in Plans, NEW i \in Nodes, Final(i), Reads(i), Child(i) \in ended
    PROVE  Final(Child(i))
<1>1. Below[i] = {Child(i)} \cup Below[Child(i)]
  BY BelowIs
<1> QED
  BY <1>1 DEF Final, Disturbed

\* Nothing becomes undisturbed.
LEMMA FinalBefore ==
    ASSUME UNCHANGED plan, gap \subseteq gap', threw \subseteq threw',
           NEW i, Final(i)', i \in ended
    PROVE  Final(i)
<1>1. Below' = Below
  BY DEF Below, Nodes, Node, Child
<1> QED
  BY <1>1 DEF Final, Disturbed

LEMMA FinalReplyEnds ==
    ASSUME QInv, EInv, frames # <<>>, returned, Final(Top)
    PROVE  reply = <<>> /\ Child(Top) \in ended
<1>1. frames \in Seq(Nodes) /\ plan \in Plans /\ Reads(Top)
  BY DEF QInv, Types, Descent
<1>2. Len(frames) \in DOMAIN frames /\ Top = frames[Len(frames)] /\ Top \in Nodes
  BY <1>1 DEF Top
<1>3. Child(Top) \in ended
  BY <1>2 DEF EInv, Waits
<1>4. Final(Child(Top))
  BY <1>1, <1>2, <1>3, FinalChild
<1> QED
  BY <1>3, <1>4 DEF EInv

\* The chain of calls after a call and after a return.
LEMMA Deeper ==
    ASSUME QInv, NEW i \in Nodes, frames # <<>>, i = Top, Reads(i), frames' = Append(frames, Child(i))
    PROVE  \E n \in Nat \ {0} :
              /\ n = Len(frames) /\ DOMAIN frames = 1..n /\ frames[n] = i
              /\ Len(frames') = n + 1 /\ DOMAIN frames' = 1..(n + 1) /\ frames' # <<>>
              /\ frames'[n + 1] = Child(i)
              /\ \A k \in 1..n : frames[k] \in Nodes /\ frames'[k] = frames[k]
<1>1. frames \in Seq(Nodes) /\ Child(i) \in Nodes
  BY PlanFacts DEF QInv, Types
<1>2. PICK c \in Nodes : c = Child(i)
  BY <1>1
<1>3. PICK n \in Nat \ {0} : n = Len(frames)
  BY <1>1
<1> QED
  BY <1>1, <1>2, <1>3 DEF Top

LEMMA Shallower ==
    ASSUME QInv, NEW i \in Nodes, frames # <<>>, i = Top, frames' = Front(frames)
    PROVE  \E n \in Nat \ {0} :
              /\ n = Len(frames) /\ DOMAIN frames = 1..n /\ frames[n] = i
              /\ Len(frames') = n - 1 /\ DOMAIN frames' = 1..(n - 1)
              /\ \A k \in 1..(n - 1) :
                    k \in 1..n /\ frames[k] \in Nodes /\ frames'[k] = frames[k] /\ frames[k] # i
              /\ frames' # <<>> => n - 1 \in 1..(n - 1) /\ Child(frames[n - 1]) = i
<1>1. frames \in Seq(Nodes) /\ \A j \in Nodes : j \in Nat
  BY NodesAreNumbers DEF QInv, Types
<1>2. PICK n \in Nat \ {0} : n = Len(frames) /\ DOMAIN frames = 1..n /\ frames[n] = i
  BY <1>1 DEF Top
<1>3. frames' = SubSeq(frames, 1, n - 1)
  BY <1>2 DEF Front
<1>4. /\ Len(frames') = n - 1 /\ DOMAIN frames' = 1..(n - 1)
      /\ \A k \in 1..(n - 1) : k \in 1..n /\ frames[k] \in Nodes /\ frames'[k] = frames[k]
  BY <1>1, <1>2, <1>3
<1>5. ASSUME NEW k \in 1..(n - 1) PROVE frames[k] # i
  <2>1. k \in 1..n /\ n \in 1..n /\ k < n
    BY <1>2
  <2>2. frames[n] < frames[k] /\ i \in Nat
    BY <1>1, <1>2, <2>1 DEF QInv, Descent
  <2> QED
    BY <1>2, <2>2
<1>6. ASSUME frames' # <<>> PROVE n - 1 \in 1..(n - 1) /\ Child(frames[n - 1]) = i
  <2>1. n # 1
    BY <1>3, <1>6
  <2>2. n - 1 \in 1..n /\ n \in 1..n /\ n = (n - 1) + 1 /\ n - 1 \in 1..(n - 1)
    BY <1>2, <2>1
  <2> QED
    BY <1>2, <2>2 DEF QInv, Descent
<1> QED
  BY <1>2, <1>4, <1>5, <1>6

\* A call of the child by an iterator that, if it has ended, has an ended child.
LEMMA PullSpends ==
    ASSUME QInv, EInv, NEW i \in Nodes, frames # <<>>, i = Top, Reads(i), Pull(i),
           UNCHANGED <<plan, out, ended, gap, threw>>,
           Final(i) => Child(i) \in ended,
           \A j \in Nodes : Final(j) => Spent(j)'
    PROVE  EInv'
<1>1. PICK n \in Nat \ {0} :
              /\ n = Len(frames) /\ DOMAIN frames = 1..n /\ frames[n] = i
              /\ Len(frames') = n + 1 /\ DOMAIN frames' = 1..(n + 1) /\ frames' # <<>>
              /\ frames'[n + 1] = Child(i)
              /\ \A k \in 1..n : frames[k] \in Nodes /\ frames'[k] = frames[k]
  BY Deeper DEF Pull
<1>2. /\ Nodes' = Nodes /\ ended' = ended /\ ~returned'
      /\ \A j : Node(j)' = Node(j) /\ Child(j)' = Child(j)
      /\ \A j : Final(j)' => Final(j)
  BY FinalBefore DEF Nodes, Node, Child, Pull, Final
<1>3. ASSUME NEW k \in DOMAIN frames', Waits(k)', Final(frames[k])' PROVE Child(frames[k])' \in ended
  <2>1. k \in 1..n
    BY <1>1, <1>2, <1>3 DEF Waits
  <2>2. frames'[k] = frames[k] /\ Final(frames[k])
    BY <1>1, <1>2, <1>3, <2>1
  <2>3. CASE k = n
    BY <1>1, <1>2, <2>2, <2>3
  <2>4. CASE k # n
    <3>1. Waits(k)
      BY <1>1, <2>1, <2>4 DEF Waits
    <3> QED
      BY <1>1, <1>2, <2>1, <2>2, <3>1 DEF EInv
  <2> QED
    BY <2>3, <2>4
<1> QED
  BY <1>2, <1>3 DEF EInv

\* A return; what has ended before gives nothing.
LEMMA ReturnSpends ==
    ASSUME QInv, EInv, NEW i \in Nodes, frames # <<>>, i = Top, NEW r, Return(i, r),
           UNCHANGED <<plan, threw>>, gap \subseteq gap',
           Final(i) => r = <<>>,
           \A j \in Nodes : Final(j)' => Spent(j)'
    PROVE  EInv' /\ \A j \in Nodes : Final(j) => out'[j] = out[j]
<1>1. PICK n \in Nat \ {0} :
              /\ n = Len(frames) /\ DOMAIN frames = 1..n /\ frames[n] = i
              /\ Len(frames') = n - 1 /\ DOMAIN frames' = 1..(n - 1)
              /\ \A k \in 1..(n - 1) :
                    k \in 1..n /\ frames[k] \in Nodes /\ frames'[k] = frames[k] /\ frames[k] # i
              /\ frames' # <<>> => n - 1 \in 1..(n - 1) /\ Child(frames[n - 1]) = i
  BY Shallower DEF Return
<1>2. /\ Nodes' = Nodes /\ \A j : Node(j)' = Node(j) /\ Child(j)' = Child(j)
      /\ reply' = r /\ returned' = TRUE /\ out' = [out EXCEPT ![i] = @ \o r]
      /\ ended' = IF r = <<>> THEN ended \cup {i} ELSE ended
  BY DEF Nodes, Node, Child, Return
<1>3. \A j : Final(j)' /\ j \in ended => Final(j)
  BY FinalBefore
<1>4. ASSUME NEW k \in DOMAIN frames', Final(frames[k])' PROVE Child(frames[k])' \in ended'
  <2>1. frames'[k] = frames[k] /\ frames[k] # i /\ k \in DOMAIN frames /\ k < Len(frames)
    <3>1. k \in 1..(n - 1) /\ n \in Nat
      BY <1>1
    <3>2. k < n /\ k \in 1..n
      BY <3>1
    <3> QED
      BY <1>1, <3>1, <3>2
  <2>2. Final(frames[k])
    BY <1>2, <1>3, <1>4, <2>1 DEF Final
  <2>3. Child(frames[k]) \in ended
    BY <2>1, <2>2 DEF EInv, Waits
  <2> QED
    BY <1>2, <2>1, <2>3
<1>5. ASSUME frames' # <<>>
      PROVE  IF r = <<>> THEN Child(Top)' \in ended' ELSE ~Final(Child(Top))'
  <2>1. Child(Top)' = i
    BY <1>1, <1>2, <1>5 DEF Top
  <2>2. CASE r = <<>>
    BY <1>2, <2>1, <2>2
  <2>3. CASE r # <<>>
    <3>1. i \in ended' => i \in ended
      BY <1>2, <2>3
    <3>2. ~Final(i)'
      BY <1>3, <2>3, <3>1 DEF Final
    <3> QED
      BY <2>1, <2>3, <3>2 DEF Final, Disturbed
  <2> QED
    BY <2>2, <2>3
<1>6. EInv'
  BY <1>2, <1>4, <1>5 DEF EInv
<1>7. ASSUME NEW j \in Nodes, Final(j) PROVE out'[j] = out[j]
  <2>1. IsSeq(out[j]) /\ DOMAIN out = Nodes
    BY DEF QInv, Types
  <2>2. CASE j = i
    <3>1. PICK S : out[i] \in Seq(S)
      BY <2>1, <2>2 DEF IsSeq
    <3>2. out[i] \o <<>> = out[i]
      BY <3>1
    <3> QED
      BY <1>2, <1>7, <2>1, <2>2, <3>2
  <2>3. CASE j # i
    BY <1>2, <2>1, <2>3
  <2> QED
    BY <2>2, <2>3
<1> QED
  BY <1>6, <1>7

\* What a step leaves alone keeps a node as it is.
LEMMA SpentStays ==
    ASSUME UNCHANGED <<plan, tuples>>, ended \subseteq ended', NEW j, Spent(j),
           current > Len(tuples) => current' > Len(tuples),
           Node(j).kind = "limit" => limit'[j] = limit[j],
           Node(j).kind = "sort" => sorted'[j] = sorted[j] /\ record'[j] = record[j]
    PROVE  Spent(j)'
  BY DEF Spent, Node, Child

\* The step of an iterator: those that have ended give nothing more.
LEMMA StepSpends ==
    ASSUME QInv, EInv, NEW i \in Nodes, Step(i)
    PROVE  EInv' /\ \A j \in Nodes : Final(j) => out'[j] = out[j]
<1>1. /\ plan \in Plans /\ IsSeq(sorted[i]) /\ DOMAIN sorted = Nodes /\ record \in [Nodes -> Nat]
  BY DEF QInv, Types
<1>2. \A j \in Nodes : Final(j) => Spent(j)
  BY DEF EInv
<1>3. CASE ScanNext(i)
  <2>1. /\ frames # <<>> /\ i = Top /\ Node(i).kind = "scan" /\ Node(i)' = Node(i)
        /\ UNCHANGED <<plan, tuples, limit, sorted, record, gap, threw>>
    BY <1>3 DEF ScanNext, Entered, Node
  <2>2. CASE current > Len(tuples)
    <3>1. Return(i, <<>>) /\ current' = current
      BY <1>3, <2>2 DEF ScanNext
    <3>2. ended' = ended \cup {i}
      BY <3>1 DEF Return
    <3>3. ASSUME NEW j \in Nodes, Final(j)' PROVE Spent(j)'
      <4>1. CASE j = i
        BY <2>1, <2>2, <3>1, <4>1 DEF Spent
      <4>2. CASE j # i
        <5>1. Final(j)
          BY <2>1, <3>2, <3>3, <4>2, FinalBefore DEF Final
        <5> QED
          BY <1>2, <2>1, <3>1, <3>2, <5>1, SpentStays
      <4> QED
        BY <4>1, <4>2
    <3> QED
      BY <2>1, <3>1, <3>3, ReturnSpends
  <2>3. CASE ~(current > Len(tuples))
    <3>1. Return(i, <<tuples[current]>>)
      BY <1>3, <2>3 DEF ScanNext
    <3>2. ended' = ended /\ \A j : Final(j)' => Final(j)
      BY <2>1, <3>1, FinalBefore DEF Return, Final
    <3>3. ~Final(i)
      BY <1>2, <2>1, <2>3 DEF Spent
    <3>4. ASSUME NEW j \in Nodes, Final(j)' PROVE Spent(j)'
      BY <1>2, <2>1, <2>3, <3>2, <3>4, SpentStays
    <3> QED
      BY <2>1, <3>1, <3>3, <3>4, ReturnSpends
  <2> QED
    BY <2>2, <2>3
<1>4. ASSUME UNCHANGED <<plan, tuples, current, limit, sorted, record, threw>>, gap \subseteq gap',
             NEW r, Return(i, r), frames # <<>>, i = Top,
             Final(i) => r = <<>>,
             r = <<>> /\ i \notin gap' => Spent(i)'
      PROVE  EInv' /\ \A j \in Nodes : Final(j) => out'[j] = out[j]
  <2>1. ended' = IF r = <<>> THEN ended \cup {i} ELSE ended
    BY <1>4 DEF Return
  <2>2. ASSUME NEW j \in Nodes, Final(j)' PROVE Spent(j)'
    <3>1. CASE j = i /\ r = <<>>
      BY <1>4, <2>2, <3>1 DEF Final
    <3>2. CASE ~(j = i /\ r = <<>>)
      <4>1. Final(j)
        BY <1>4, <2>1, <2>2, <3>2, FinalBefore DEF Final
      <4>2. ended \subseteq ended'
        BY <2>1
      <4> QED
        BY <1>2, <1>4, <4>1, <4>2, SpentStays
    <3> QED
      BY <3>1, <3>2
  <2> QED
    BY <1>4, <2>2, ReturnSpends
<1>5. CASE LimitNext(i)
  <2>1. /\ frames # <<>> /\ i = Top /\ Node(i).kind = "limit" /\ Reads(i) /\ Pull(i)
        /\ limit[i] > 0 /\ limit' = [limit EXCEPT ![i] = @ - 1]
        /\ UNCHANGED <<plan, tuples, current, sorted, record, out, ended, gap, threw>>
    BY <1>5 DEF LimitNext, Entered, Reads, history
  <2>2. Final(i) => Child(i) \in ended
    BY <1>2, <2>1 DEF Spent
  <2>3. ASSUME NEW j \in Nodes, Final(j) PROVE Spent(j)'
    <3>1. CASE j = i
      BY <2>1, <2>2, <2>3, <3>1 DEF Spent, Node, Child
    <3>2. CASE j # i
      <4>1. limit'[j] = limit[j]
        BY <2>1, <3>2
      <4> QED
        BY <1>2, <2>1, <2>3, <4>1, SpentStays
    <3> QED
      BY <3>1, <3>2
  <2> QED
    BY <2>1, <2>2, <2>3, PullSpends
<1>6. ASSUME UNCHANGED <<plan, tuples, current, limit, sorted, record, out, ended, gap, threw>>,
             Pull(i), frames # <<>>, i = Top, Reads(i),
             Final(i) => Child(i) \in ended
      PROVE  EInv' /\ \A j \in Nodes : Final(j) => out'[j] = out[j]
  <2>1. \A j \in Nodes : Final(j) => Spent(j)'
    BY <1>2, <1>6, SpentStays
  <2> QED
    BY <1>6, <2>1, PullSpends
<1>7. CASE SelectionPull(i) \/ ProjectionPull(i)
  <2>1. /\ frames # <<>> /\ i = Top /\ Node(i).kind \in {"selection", "projection"} /\ Reads(i) /\ Pull(i)
        /\ UNCHANGED <<plan, tuples, current, limit, sorted, record, out, ended, gap, threw>>
    BY <1>7 DEF SelectionPull, ProjectionPull, Entered, Resumed, Reads, machine, history
  <2> QED
    BY <1>2, <1>6, <2>1 DEF Spent
<1>8. CASE SortPull(i)
  <2>1. /\ frames # <<>> /\ i = Top /\ Node(i).kind = "sort" /\ Reads(i) /\ Pull(i) /\ sorted[i] = <<>>
        /\ UNCHANGED <<plan, tuples, current, limit, sorted, record, out, ended, gap, threw>>
    BY <1>8 DEF SortPull, Entered, Reads, machine, history
  <2> QED
    BY <1>2, <1>6, <2>1 DEF Spent
<1>9. CASE LimitReached(i)
  <2>1. /\ frames # <<>> /\ i = Top /\ Node(i).kind = "limit" /\ limit[i] = 0 /\ Return(i, <<>>)
        /\ UNCHANGED <<plan, tuples, current, limit, sorted, record, gap, threw>> /\ Node(i)' = Node(i)
    BY <1>9 DEF LimitReached, Entered, machine, Node
  <2>2. Spent(i)'
    BY <2>1 DEF Spent
  <2> QED
    BY <1>4, <2>1, <2>2
<1>10. CASE LimitReturn(i) \/ SelectionReturn(i)
  <2>1. /\ frames # <<>> /\ i = Top /\ returned /\ Node(i).kind \in {"limit", "selection"}
        /\ Return(i, reply)
        /\ UNCHANGED <<plan, tuples, current, limit, sorted, record, gap, threw>>
        /\ Node(i)' = Node(i) /\ Child(i)' = Child(i)
    BY <1>10 DEF LimitReturn, SelectionReturn, Resumed, machine, Node, Child
  <2>2. Final(i) => reply = <<>>
    BY <2>1, FinalReplyEnds
  <2>3. reply = <<>> => Spent(i)'
    <3>1. reply = <<>> => Child(i) \in ended'
      BY <2>1 DEF EInv, Return
    <3> QED
      BY <2>1, <3>1 DEF Spent
  <2> QED
    BY <1>4, <2>1, <2>2, <2>3
<1>11. CASE ProjectionReturn(i)
  <2>1. PICK r :
        /\ frames # <<>> /\ i = Top /\ returned /\ Node(i).kind = "projection"
        /\ Return(i, r) /\ (reply = <<>> => r = <<>>)
        /\ gap' = IF reply # <<>> /\ r = <<>> THEN gap \cup {i} ELSE gap
        /\ UNCHANGED <<plan, tuples, current, limit, sorted, record, threw>>
        /\ Node(i)' = Node(i) /\ Child(i)' = Child(i)
    <3> DEFINE fields == IF reply = <<>> THEN <<>> ELSE Projected(Node(i), reply[1])
               r == IF fields = <<>> THEN <<>> ELSE <<fields>>
    <3>1. r = <<>> <=> fields = <<>>
      BY OneIsSeq
    <3>2. /\ frames # <<>> /\ i = Top /\ returned /\ Node(i).kind = "projection"
          /\ Return(i, r) /\ gap' = IF reply # <<>> /\ fields = <<>> THEN gap \cup {i} ELSE gap
          /\ UNCHANGED <<plan, tuples, current, limit, sorted, record, threw>>
      BY <1>11 DEF ProjectionReturn, Resumed, machine
    <3>3. Node(i)' = Node(i) /\ Child(i)' = Child(i)
      BY <3>2 DEF Node, Child
    <3> QED
      BY <3>1, <3>2, <3>3
  <2>2. Final(i) => r = <<>>
    BY <2>1, FinalReplyEnds
  <2>3. r = <<>> /\ i \notin gap' => Spent(i)'
    <3>1. reply = <<>> => Child(i) \in ended'
      BY <2>1 DEF EInv, Return
    <3> QED
      BY <2>1, <3>1 DEF Spent
  <2> QED
    BY <1>4, <2>1, <2>2, <2>3
<1>12. CASE SortNothing(i)
  <2>1. /\ frames # <<>> /\ i = Top /\ returned /\ Node(i).kind = "sort"
        /\ reply = <<>> /\ sorted[i] = <<>> /\ Return(i, <<>>)
        /\ UNCHANGED <<plan, tuples, current, limit, sorted, record, gap, threw>>
        /\ Node(i)' = Node(i) /\ Child(i)' = Child(i)
    BY <1>12 DEF SortNothing, Resumed, machine, Node, Child
  <2>2. Spent(i)'
    <3>1. Child(i) \in ended'
      BY <2>1 DEF EInv, Return
    <3> QED
      BY <2>1, <3>1 DEF Spent
  <2> QED
    BY <1>4, <2>1, <2>2
\* A sort that waits for its child has set no record: it has not ended with tuples.
<1>13. ASSUME frames # <<>>, i = Top, returned, Node(i).kind = "sort", sorted[i] # <<>> \/ reply # <<>>
       PROVE  ~Final(i)
  <2>1. Sorts(i) /\ record[i] = 0
    BY <1>13, WaitingSortHasNoRecord DEF Sorts
  <2>2. Len(sorted[i]) \in Nat
    <3>1. PICK S : sorted[i] \in Seq(S)
      BY <1>1 DEF IsSeq
    <3> QED
      BY <3>1
  <2>3. sorted[i] # <<>> => ~Final(i)
    BY <1>2, <1>13, <2>1, <2>2 DEF Spent
  <2>4. reply # <<>> => ~Final(i)
    BY <1>13, FinalReplyEnds
  <2> QED
    BY <1>13, <2>3, <2>4
<1>14. CASE SortStore(i)
  <2>1. /\ frames # <<>> /\ i = Top /\ returned /\ Node(i).kind = "sort" /\ Reads(i) /\ reply # <<>>
        /\ Pull(i) /\ \A j \in Nodes \ {i} : sorted'[j] = sorted[j]
        /\ UNCHANGED <<plan, tuples, current, limit, record, out, ended, gap, threw>>
    BY <1>1, <1>14 DEF SortStore, Resumed, Reads, history
  <2>2. ~Final(i)
    BY <1>13, <2>1
  <2>3. \A j \in Nodes : Final(j) => Spent(j)'
    BY <1>2, <2>1, <2>2, SpentStays
  <2> QED
    BY <2>1, <2>2, <2>3, PullSpends
<1>15. CASE SortAndReturn(i)
  <2>1. PICK s \in Sortings(Node(i), sorted[i]) :
          /\ sorted' = [sorted EXCEPT ![i] = s] /\ Return(i, <<s[1]>>)
          /\ record' = [record EXCEPT ![i] = 2]
    BY <1>15 DEF SortAndReturn
  <2>2. /\ frames # <<>> /\ i = Top /\ returned /\ Node(i).kind = "sort" /\ sorted[i] # <<>>
        /\ UNCHANGED <<plan, tuples, current, limit, gap, threw>>
        /\ \A j \in Nodes \ {i} : sorted'[j] = sorted[j] /\ record'[j] = record[j]
    BY <1>1, <1>15, <2>1 DEF SortAndReturn, Resumed
  <2>3. ~Final(i)
    BY <1>13, <2>2
  <2>4. PICK r : Return(i, r) /\ r # <<>>
    BY <2>1, OneIsSeq
  <2>5. ended' = ended /\ \A j : Final(j)' => Final(j)
    BY <2>2, <2>4, FinalBefore DEF Return, Final
  <2>6. \A j \in Nodes : Final(j)' => Spent(j)'
    BY <1>2, <2>2, <2>3, <2>5, SpentStays
  <2> QED
    BY <2>2, <2>3, <2>4, <2>6, ReturnSpends
<1>16. CASE SortNext(i)
  <2>1. /\ frames # <<>> /\ i = Top /\ Node(i).kind = "sort" /\ sorted[i] # <<>> /\ record[i] # 0
        /\ UNCHANGED <<plan, tuples, current, limit, sorted, gap, threw>>
        /\ Node(i)' = Node(i)
    BY <1>16 DEF SortNext, Entered, Node
  <2>2. CASE record[i] > Len(sorted[i])
    <3>1. Return(i, <<>>) /\ UNCHANGED record
      BY <1>16, <2>2 DEF SortNext
    <3>2. Spent(i)'
      BY <2>1, <2>2, <3>1 DEF Spent
    <3> QED
      BY <1>4, <2>1, <3>1, <3>2
  <2>3. CASE ~(record[i] > Len(sorted[i]))
    <3>1. PICK r : Return(i, r) /\ r # <<>>
      BY <1>16, <2>3, OneIsSeq DEF SortNext
    <3>2. record' = [record EXCEPT ![i] = @ + 1]
      BY <1>16, <2>3 DEF SortNext
    <3>3. ~Final(i) /\ \A j \in Nodes \ {i} : record'[j] = record[j]
      BY <1>1, <1>2, <2>1, <2>3, <3>2 DEF Spent
    <3>4. ended' = ended /\ \A j : Final(j)' => Final(j)
      BY <2>1, <3>1, FinalBefore DEF Return, Final
    <3>5. \A j \in Nodes : Final(j)' => Spent(j)'
      BY <1>2, <2>1, <3>3, <3>4, SpentStays
    <3> QED
      BY <2>1, <3>1, <3>3, <3>5, ReturnSpends
  <2> QED
    BY <2>2, <2>3
<1>17. CASE SortThrow(i) \/ SortUnset(i)
  <2>1. /\ frames' = <<>> /\ threw \subseteq threw'
        /\ UNCHANGED <<plan, tuples, current, limit, sorted, record, out, ended, gap>>
    BY <1>17 DEF SortThrow, SortUnset, Throw, machine, history
  <2>2. \A j : Final(j)' => Final(j)
    BY <2>1, FinalBefore DEF Final
  <2>3. \A j \in Nodes : Final(j)' => Spent(j)'
    BY <1>2, <2>1, <2>2, SpentStays
  <2>4. Nodes' = Nodes /\ DOMAIN frames' = {}
    BY <2>1, EmptySeq DEF Nodes
  <2> QED
    BY <2>1, <2>3, <2>4 DEF EInv
<1> QED
  BY <1>3, <1>5, <1>7, <1>8, <1>9, <1>10, <1>11, <1>12, <1>14, <1>15, <1>16, <1>17 DEF Step

LEMMA FirstSpends == Init => EInv
  BY DEF Init, EInv, Final

LEMMA NextSpends ==
    ASSUME QInv, EInv, [Next]_vars
    PROVE  EInv' /\ \A j \in Nodes : Final(j) => out'[j] = out[j]
<1>1. CASE \E i \in Nodes : Step(i)
  BY <1>1, StepSpends
<1>2. CASE UNCHANGED vars \/ \E h \in plan.handles : Call(h)
  <2>1. /\ \/ UNCHANGED <<frames, reply, returned>>
           \/ \E h : frames' = <<h>> /\ returned' = FALSE
        /\ UNCHANGED <<plan, tuples, current, limit, sorted, record, out, ended, gap, threw>>
    BY <1>2 DEF vars, machine, history, Call
  <2>2. \A j : Final(j)' => Final(j)
    BY <2>1, FinalBefore DEF Final
  <2>3. \A j \in Nodes : Final(j)' => Spent(j)'
    BY <2>1, <2>2, SpentStays DEF EInv
  <2>4. Nodes' = Nodes /\ \A j : Child(j)' = Child(j)
    BY <2>1 DEF Nodes, Node, Child
  <2>5. CASE UNCHANGED <<frames, reply, returned>>
    BY <2>1, <2>2, <2>3, <2>4, <2>5 DEF EInv, Waits, Top, Final, Disturbed
  <2>6. CASE \E h : frames' = <<h>> /\ returned' = FALSE
    <3>1. \A k \in DOMAIN frames' : ~(k < Len(frames'))
      BY <2>6
    <3> QED
      BY <2>1, <2>3, <2>4, <2>6, <3>1 DEF EInv, Waits
  <2> QED
    BY <2>1, <2>5, <2>6
<1> QED
  BY <1>1, <1>2 DEF Next

\* After nullopt an iterator gives no tuple any more, whatever is called.
THEOREM EndsForGood == FairSpec => EndIsFinal
<1>1. QInv /\ EInv /\ [Next]_vars =>
        EInv' /\ [\A i \in Nodes : i \in ended /\ i \notin gap /\ ~Disturbed(i) => out'[i] = out[i]]_vars
  BY NextSpends DEF Final
<1> QED
  BY Initial, NextKeeps, FirstSpends, <1>1, PTL DEF FairSpec, EndIsFinal

-----------------------------------------------------------------------------
(* The types of the variables.                                             *)

LEMMA SortingLen ==
    ASSUME NEW n, NEW s, IsSeq(s), NEW p \in Sortings(n, s)
    PROVE  \E f \in [DOMAIN s -> DOMAIN s] :
              /\ \A a, b \in DOMAIN s : f[a] = f[b] => a = b
              /\ \A a \in DOMAIN s : p[a] = s[f[a]]
              /\ DOMAIN p = DOMAIN s /\ Len(p) = Len(s) /\ IsSeq(p)
              /\ Len(s) \in Nat /\ DOMAIN s = 1..Len(s)
<1>1. PICK S : s \in Seq(S)
  BY DEF IsSeq
<1>2. PICK m \in Nat : m = Len(s) /\ DOMAIN s = 1..m /\ \A a \in 1..m : s[a] \in S
  BY <1>1
<1>3. PICK f \in Bijection(DOMAIN s, DOMAIN s) : p = [k \in DOMAIN s |-> s[f[k]]]
  BY DEF Sortings
<1>4. f \in [DOMAIN s -> DOMAIN s] /\ \A a, b \in DOMAIN s : f[a] = f[b] => a = b
  BY <1>3 DEF Bijection, Injection, IsInjective
<1>5. p \in [1..m -> S]
  BY <1>2, <1>3, <1>4
<1>6. p \in Seq(S) /\ Len(p) = m
  BY <1>2, <1>5
<1> QED
  BY <1>2, <1>3, <1>4, <1>6 DEF IsSeq

TInv == tuples \in Tables /\ TypeOK

LEMMA LenOfOne == ASSUME NEW x PROVE Len(<<x>>) = 1 /\ <<x>>[1] = x
  OBVIOUS

LEMMA SeqLen ==
    ASSUME NEW s, IsSeq(s)
    PROVE  /\ Len(s) \in Nat /\ DOMAIN s = 1..Len(s) /\ (s # <<>> <=> Len(s) > 0)
           /\ \A x : /\ Len(Append(s, x)) = Len(s) + 1 /\ Append(s, x)[Len(s) + 1] = x
                     /\ DOMAIN Append(s, x) = 1..(Len(s) + 1)
                     /\ \A k \in 1..Len(s) : Append(s, x)[k] = s[k]
<1>1. PICK S : s \in Seq(S)
  BY DEF IsSeq
<1>2. ASSUME NEW x
      PROVE  /\ Len(Append(s, x)) = Len(s) + 1 /\ Append(s, x)[Len(s) + 1] = x
             /\ DOMAIN Append(s, x) = 1..(Len(s) + 1)
             /\ \A k \in 1..Len(s) : Append(s, x)[k] = s[k]
  <2>1. s \in Seq(S \cup {x}) /\ x \in S \cup {x}
    <3>1. S \subseteq S \cup {x}
      OBVIOUS
    <3> QED
      BY <1>1, <3>1, SeqMonotonic
  <2> QED
    BY <2>1
<1> QED
  BY <1>1, <1>2

LEMMA StepTypes ==
    ASSUME QInv, TInv, NEW i \in Nodes, Step(i)
    PROVE  TInv'
<1>1. /\ plan \in Plans /\ DOMAIN sorted = Nodes /\ record \in [Nodes -> Nat]
      /\ \A j \in Nodes : IsSeq(sorted[j])
      /\ Len(tuples) \in Nat /\ current \in Nat
  BY TableAssumption DEF QInv, Types, TInv, TypeOK
<1>2. \A j \in Nodes : Len(sorted[j]) \in Nat
  BY <1>1, SeqLen
<1>3. UNCHANGED <<plan, tuples>> /\ Nodes' = Nodes /\ \A j : Node(j)' = Node(j) /\ Child(j)' = Child(j)
  <2>1. UNCHANGED <<plan, tuples>>
    BY DEF Step, ScanNext, LimitNext, LimitReached, LimitReturn, SelectionPull, SelectionReturn,
           ProjectionPull, ProjectionReturn, SortPull, SortStore, SortThrow, SortNothing,
           SortAndReturn, SortNext, SortUnset, machine
  <2> QED
    BY <2>1 DEF Nodes, Node, Child
<1>4. current' \in 1..(Len(tuples) + 1)
  <2>1. CASE current' = current
    BY <2>1 DEF TInv, TypeOK
  <2>2. CASE ScanNext(i)
    BY <1>1, <2>1, <2>2 DEF ScanNext, TInv, TypeOK
  <2>3. ScanNext(i) \/ current' = current
    BY DEF Step, LimitNext, LimitReached, LimitReturn, SelectionPull, SelectionReturn,
           ProjectionPull, ProjectionReturn, SortPull, SortStore, SortThrow, SortNothing,
           SortAndReturn, SortNext, SortUnset, machine
  <2> QED
    BY <2>1, <2>2, <2>3
<1>5. \A j \in Nodes : Node(j).kind = "limit" => limit'[j] \in 0..Node(j).limit
  <2>1. CASE limit' = limit
    BY <2>1 DEF TInv, TypeOK
  <2>2. CASE LimitNext(i)
    <3>1. Node(i).kind = "limit" /\ limit[i] > 0 /\ limit' = [limit EXCEPT ![i] = @ - 1]
      BY <2>2 DEF LimitNext, Entered
    <3>2. Node(i).limit \in Nat
      BY <1>1, <3>1, PlanAssumption DEF Nodes, Node, Scan
    <3>3. limit[i] \in 0..Node(i).limit
      BY <3>1 DEF TInv, TypeOK
    <3>4. limit[i] - 1 \in 0..Node(i).limit
      BY <3>1, <3>2, <3>3
    <3>5. ASSUME NEW j \in Nodes, Node(j).kind = "limit" PROVE limit'[j] \in 0..Node(j).limit
      <4>1. CASE j = i /\ i \in DOMAIN limit
        BY <3>1, <3>4, <4>1
      <4>2. CASE j # i \/ i \notin DOMAIN limit
        <5>1. limit'[j] = limit[j]
          BY <3>1, <4>2
        <5> QED
          BY <3>5, <5>1 DEF TInv, TypeOK
      <4> QED
        BY <4>1, <4>2
    <3> QED
      BY <3>5
  <2>3. LimitNext(i) \/ limit' = limit
    BY DEF Step, ScanNext, LimitReached, LimitReturn, SelectionPull, SelectionReturn,
           ProjectionPull, ProjectionReturn, SortPull, SortStore, SortThrow, SortNothing,
           SortAndReturn, SortNext, SortUnset, machine
  <2> QED
    BY <2>1, <2>2, <2>3
<1>6. \A j \in Nodes : record'[j] \in 0..(Len(sorted'[j]) + 1)
  <2>1. CASE UNCHANGED <<sorted, record>>
    BY <2>1 DEF TInv, TypeOK
  <2>2. CASE SortStore(i)
    <3>1. /\ sorted' = [sorted EXCEPT ![i] = Append(@, reply[1])] /\ record' = record
          /\ frames # <<>> /\ i = Top /\ returned /\ Sorts(Top)
      BY <2>2 DEF SortStore, Resumed, Sorts
    <3>2. record[i] = 0
      BY <3>1, WaitingSortHasNoRecord
    <3>3. sorted'[i] = Append(sorted[i], reply[1]) /\ \A j \in Nodes \ {i} : sorted'[j] = sorted[j]
      BY <1>1, <3>1
    <3>4. Len(sorted'[i]) = Len(sorted[i]) + 1 /\ Len(sorted[i]) \in Nat
      BY <1>1, <1>2, <3>3, SeqLen
    <3> QED
      BY <3>1, <3>2, <3>3, <3>4 DEF TInv, TypeOK
  <2>3. CASE SortAndReturn(i)
    <3>1. PICK s \in Sortings(Node(i), sorted[i]) : sorted' = [sorted EXCEPT ![i] = s]
      BY <2>3 DEF SortAndReturn
    <3>2. sorted[i] # <<>> /\ record' = [record EXCEPT ![i] = 2]
      BY <2>3 DEF SortAndReturn
    <3>3. Len(s) = Len(sorted[i]) /\ Len(s) \in Nat /\ Len(s) > 0
      BY <1>1, <3>2, SortingLen, SeqLen
    <3>4. /\ sorted'[i] = s /\ record'[i] = 2
          /\ \A j \in Nodes \ {i} : sorted'[j] = sorted[j] /\ record'[j] = record[j]
      BY <1>1, <3>1, <3>2
    <3>5. 2 \in 0..(Len(s) + 1)
      BY <3>3
    <3> QED
      BY <3>4, <3>5 DEF TInv, TypeOK
  <2>4. CASE SortNext(i) /\ record' # record
    <3>1. record' = [record EXCEPT ![i] = @ + 1] /\ sorted' = sorted /\ ~(record[i] > Len(sorted[i]))
      BY <2>4 DEF SortNext
    <3>2. record'[i] = record[i] + 1 /\ \A j \in Nodes \ {i} : record'[j] = record[j]
      BY <1>1, <3>1
    <3>3. record[i] \in Nat /\ Len(sorted[i]) \in Nat
      BY <1>1, <1>2
    <3> QED
      BY <3>1, <3>2, <3>3 DEF TInv, TypeOK
  <2>5. UNCHANGED <<sorted, record>> \/ SortStore(i) \/ SortAndReturn(i) \/ (SortNext(i) /\ record' # record)
    BY DEF Step, ScanNext, LimitNext, LimitReached, LimitReturn, SelectionPull, SelectionReturn,
           ProjectionPull, ProjectionReturn, SortPull, SortThrow, SortNothing,
           SortNext, SortUnset, machine
  <2> QED
    BY <2>1, <2>2, <2>3, <2>4, <2>5
<1>7. Len(reply') <= 1
  <2>1. reply' = reply \/ reply' = <<>> \/ \E x : reply' = <<x>>
    BY DEF Step, ScanNext, LimitNext, LimitReached, LimitReturn, SelectionPull, SelectionReturn,
           ProjectionPull, ProjectionReturn, SortPull, SortStore, SortThrow, SortNothing,
           SortAndReturn, SortNext, SortUnset, Return, Pull, Throw
  <2>2. Len(<<>>) <= 1 /\ \A x : Len(<<x>>) <= 1
    BY LenOfOne
  <2> QED
    BY <2>1, <2>2 DEF TInv, TypeOK
<1>8. \A k \in 1..Len(frames') - 1 : frames'[k + 1] = Child(frames'[k])
  <2>1. QInv'
    BY StepKeeps
  <2>2. frames' \in Seq(Nodes)
    BY <1>3, <2>1 DEF QInv, Types
  <2>3. ASSUME NEW k \in 1..(Len(frames') - 1) PROVE frames'[k + 1] = Child(frames[k])'
    <3>1. k \in DOMAIN frames' /\ k + 1 \in DOMAIN frames'
      BY <2>2
    <3> QED
      BY <2>1, <3>1 DEF QInv, Descent
  <2> QED
    BY <1>3, <2>3
<1> QED
  BY <1>3, <1>4, <1>5, <1>6, <1>7, <1>8 DEF TInv, TypeOK

-----------------------------------------------------------------------------
(* No row twice.  A slot is a place where a tuple on its way waits: among   *)
(* those a root returned, in a sort that has not given it out yet, or as    *)
(* what a call has just returned to its caller in the plan.                 *)

Slots == {"out", "stored", "reply"} \X Nat \X Nat

Filled(p) ==
    \/ p[1] = "out" /\ p[2] \in Roots /\ p[3] \in DOMAIN out[p[2]]
    \/ p[1] = "stored" /\ p[2] \in Nodes /\ p[3] \in DOMAIN sorted[p[2]] /\ record[p[2]] <= p[3]
    \/ p = <<"reply", 0, 0>> /\ returned /\ frames # <<>> /\ reply # <<>>

Held(p) == IF p[1] = "out" THEN out[p[2]][p[3]]
           ELSE IF p[1] = "stored" THEN sorted[p[2]][p[3]] ELSE reply[1]

\* Tuples in different slots come from different positions the scan has passed.
Sourced ==
    \E src \in [Slots -> Nat] :
       /\ \A p \in Slots : Filled(p) =>
             src[p] \in 1..Len(tuples) /\ src[p] < current /\ tuples[src[p]] = Held(p)
       /\ \A p, q \in Slots : Filled(p) /\ Filled(q) /\ src[p] = src[q] => p = q

\* The tuples move from slot to slot, and at most one comes from the scan.
LEMMA Moves ==
    ASSUME Sourced, current \in Nat, UNCHANGED tuples, current' \in Nat,
           NEW g \in [Slots -> Slots], NEW fresh,
           \A p \in Slots : Filled(p)' /\ p # fresh => Filled(g[p]) /\ Held(g[p]) = Held(p)',
           \A p, q \in Slots : Filled(p)' /\ Filled(q)' /\ p # fresh /\ q # fresh /\ g[p] = g[q] => p = q,
           \/ current' = current /\ ~Filled(fresh)'
           \/ current' = current + 1 /\ current \in 1..Len(tuples) /\ tuples[current] = Held(fresh)'
    PROVE  Sourced'
<1>1. PICK src \in [Slots -> Nat] :
       /\ \A p \in Slots : Filled(p) =>
             src[p] \in 1..Len(tuples) /\ src[p] < current /\ tuples[src[p]] = Held(p)
       /\ \A p, q \in Slots : Filled(p) /\ Filled(q) /\ src[p] = src[q] => p = q
  BY DEF Sourced
<1> DEFINE new == [p \in Slots |-> IF p = fresh THEN current ELSE src[g[p]]]
<1>2. new \in [Slots -> Nat] /\ Slots' = Slots
  BY <1>1 DEF Slots
<1>3. \A p \in Slots : new[p] = IF p = fresh THEN current ELSE src[g[p]]
  OBVIOUS
<1> HIDE DEF new
<1>4. ASSUME NEW p \in Slots, Filled(p)'
      PROVE  new[p] \in 1..Len(tuples) /\ new[p] < current' /\ tuples[new[p]] = Held(p)'
  <2>1. CASE p = fresh
    BY <1>3, <1>4, <2>1
  <2>2. CASE p # fresh
    <3>1. g[p] \in Slots /\ Filled(g[p]) /\ Held(g[p]) = Held(p)'
      BY <1>4, <2>2
    <3>2. src[g[p]] \in 1..Len(tuples) /\ src[g[p]] < current /\ tuples[src[g[p]]] = Held(g[p])
      BY <1>1, <3>1
    <3>3. new[p] = src[g[p]] /\ src[g[p]] \in Nat
      BY <1>1, <1>3, <2>2, <3>1
    <3>4. current' = current \/ current' = current + 1
      OBVIOUS
    <3> QED
      BY <3>1, <3>2, <3>3, <3>4
  <2> QED
    BY <2>1, <2>2
<1>5. ASSUME NEW p \in Slots, NEW q \in Slots, Filled(p)', Filled(q)', new[p] = new[q]
      PROVE  p = q
  <2>1. \A r \in Slots : Filled(r)' /\ r # fresh => new[r] = src[g[r]] /\ new[r] < current /\ new[r] \in Nat
    BY <1>1, <1>3
  <2>2. \A r \in Slots : r = fresh => new[r] = current
    BY <1>3
  <2>3. CASE p # fresh /\ q # fresh
    BY <1>1, <1>5, <2>1, <2>3
  <2>4. CASE p = fresh \/ q = fresh
    BY <1>5, <2>1, <2>2, <2>4
  <2> QED
    BY <2>3, <2>4
<1> QED
  BY <1>2, <1>4, <1>5 DEF Sourced

\* A row comes out of the roots no more often than it is in the table.
LEMMA SourcedCounts ==
    ASSUME QInv, TInv, Sourced, NEW t
    PROVE  LET shown == {e \in UNION {{i} \X DOMAIN out[i] : i \in Roots} : out[e[1]][e[2]] = t}
           IN  Cardinality(shown) <= Cardinality({k \in DOMAIN tuples : tuples[k] = t})
<1> DEFINE shown == {e \in UNION {{i} \X DOMAIN out[i] : i \in Roots} : out[e[1]][e[2]] = t}
           rows == {k \in DOMAIN tuples : tuples[k] = t}
<1>1. PICK src \in [Slots -> Nat] :
       /\ \A p \in Slots : Filled(p) =>
             src[p] \in 1..Len(tuples) /\ src[p] < current /\ tuples[src[p]] = Held(p)
       /\ \A p, q \in Slots : Filled(p) /\ Filled(q) /\ src[p] = src[q] => p = q
  BY DEF Sourced
<1>2. Len(tuples) \in Nat /\ DOMAIN tuples = 1..Len(tuples)
  BY TableAssumption DEF TInv
<1>3. IsFiniteSet(rows)
  <2>1. IsFiniteSet(1..Len(tuples))
    BY <1>2, FS_Interval
  <2>2. rows \in SUBSET (1..Len(tuples))
    BY <1>2
  <2> QED
    BY <2>1, <2>2, FS_Subset
<1> DEFINE f == [e \in shown |-> src[<<"out", e[1], e[2]>>]]
<1>4. ASSUME NEW e \in shown
      PROVE  /\ <<"out", e[1], e[2]>> \in Slots /\ Filled(<<"out", e[1], e[2]>>)
             /\ Held(<<"out", e[1], e[2]>>) = t /\ e = <<e[1], e[2]>>
  <2>1. PICK i \in Roots : e \in {i} \X DOMAIN out[i]
    BY <1>4
  <2>2. PICK k \in DOMAIN out[i] : e = <<i, k>>
    BY <2>1
  <2>3. i \in Nat /\ k \in Nat
    <3>1. i \in Nodes /\ plan \in Plans /\ IsSeq(out[i])
      BY DEF Roots, QInv, Types
    <3>2. i \in Nat
      BY <3>1, NodesAreNumbers
    <3>3. DOMAIN out[i] = 1..Len(out[i]) /\ Len(out[i]) \in Nat
      BY <3>1, SeqLen
    <3> QED
      BY <3>2, <3>3
  <2>4. out[i][k] = t
    BY <1>4, <2>2
  <2> QED
    BY <2>2, <2>3, <2>4 DEF Slots, Filled, Held
<1>5. f \in Injection(shown, rows)
  <2>1. f \in [shown -> rows]
    BY <1>1, <1>2, <1>4
  <2>2. ASSUME NEW a \in shown, NEW b \in shown, f[a] = f[b]
        PROVE  a = b
    <3>1. src[<<"out", a[1], a[2]>>] = src[<<"out", b[1], b[2]>>]
      BY <2>2
    <3>2. <<"out", a[1], a[2]>> = <<"out", b[1], b[2]>>
      BY <1>1, <1>4, <3>1
    <3> QED
      BY <1>4, <3>2
  <2> QED
    BY <2>1, <2>2 DEF Injection, IsInjective
<1> QED
  BY <1>3, <1>5, FS_Injection

\* Where a row that node i returns goes.
Given(i) == IF i \in Roots THEN <<"out", i, Len(out[i]) + 1>> ELSE <<"reply", 0, 0>>

LEMMA ReturnFills ==
    ASSUME QInv, NEW i \in Nodes, frames # <<>>, i = Top, UNCHANGED plan, NEW r, Return(i, r),
           r = <<>> \/ \E x : r = <<x>>, NEW g, g = Given(i)
    PROVE  /\ g \in Slots /\ g[1] # "stored"
           /\ r # <<>> => Held(g)' = r[1]
           /\ \A p \in Slots : Filled(p)' /\ p[1] # "stored" =>
                 \/ p[1] = "out" /\ Filled(p) /\ Held(p)' = Held(p) /\ p # g
                 \/ r # <<>> /\ p = g
<1>1. /\ plan \in Plans /\ i \in Nat /\ DOMAIN out = Nodes /\ IsSeq(out[i]) /\ frames \in Seq(Nodes)
  BY NodesAreNumbers DEF QInv, Types
<1>2. /\ Len(out[i]) \in Nat /\ DOMAIN out[i] = 1..Len(out[i])
  BY <1>1, SeqLen
<1>3. /\ out' = [out EXCEPT ![i] = @ \o r] /\ reply' = r /\ returned' = TRUE /\ frames' = Front(frames)
  BY DEF Return
<1>4. /\ Roots' = Roots /\ Nodes' = Nodes
  BY DEF Roots, Nodes, Readers, Node, Child
<1>5. /\ out'[i] = out[i] \o r /\ \A j : j # i => out'[j] = out[j]
  BY <1>1, <1>3
<1>6. CASE r = <<>>
  <2>1. out'[i] = out[i]
    <3>1. PICK S : out[i] \in Seq(S)
      BY <1>1 DEF IsSeq
    <3> QED
      BY <1>5, <1>6, <3>1
  <2>2. \A j : out'[j] = out[j]
    BY <1>5, <2>1
  <2>3. g \in Slots /\ g[1] # "stored"
    BY <1>1, <1>2 DEF Given, Slots
  <2>4. ASSUME NEW p \in Slots, Filled(p)', p[1] # "stored"
        PROVE  p[1] = "out" /\ Filled(p) /\ Held(p)' = Held(p) /\ p # g
    <3>1. p[1] = "out" /\ p[2] \in Roots /\ p[3] \in DOMAIN out[p[2]]
      BY <1>3, <1>4, <1>6, <2>2, <2>4 DEF Filled
    <3>2. p # g
      BY <1>2, <3>1 DEF Given
    <3> QED
      BY <2>2, <3>1, <3>2 DEF Filled, Held
  <2> QED
    BY <1>6, <2>3, <2>4
<1>7. ASSUME NEW x, r = <<x>>
      PROVE  /\ g \in Slots /\ g[1] # "stored"
             /\ Held(g)' = x
             /\ \A p \in Slots : Filled(p)' /\ p[1] # "stored" =>
                   \/ p[1] = "out" /\ Filled(p) /\ Held(p)' = Held(p) /\ p # g
                   \/ p = g
  <2>1. /\ DOMAIN out'[i] = 1..(Len(out[i]) + 1) /\ out'[i][Len(out[i]) + 1] = x
        /\ \A k \in 1..Len(out[i]) : out'[i][k] = out[i][k]
    <3>1. PICK S : out[i] \in Seq(S)
      BY <1>1 DEF IsSeq
    <3>2. out[i] \in Seq(S \cup {x}) /\ <<x>> \in Seq(S \cup {x})
      <4>1. S \subseteq S \cup {x}
        OBVIOUS
      <4> QED
        BY <3>1, <4>1, SeqMonotonic
    <3> QED
      BY <1>5, <1>7, <3>2
  <2>2. i \in Roots => frames' = <<>>
    <3>1. ASSUME i \in Roots, Len(frames) # 1 PROVE FALSE
      <4>1. Len(frames) - 1 \in DOMAIN frames /\ Len(frames) \in DOMAIN frames /\ frames[Len(frames)] = i
        <5>1. Len(frames) \in Nat /\ Len(frames) # 0 /\ DOMAIN frames = 1..Len(frames)
          BY <1>1
        <5> QED
          BY <3>1, <5>1 DEF Top
      <4>2. Reads(frames[Len(frames) - 1]) /\ i = Child(frames[Len(frames) - 1]) /\ frames[Len(frames) - 1] \in Nodes
        BY <1>1, <4>1 DEF QInv, Descent
      <4>3. frames[Len(frames) - 1] \in Readers(i)
        BY <4>2 DEF Readers, Reads
      <4> QED
        BY <3>1, <4>3 DEF Roots
    <3>2. Len(frames) = 1 => frames' = <<>>
      BY <1>1, <1>3 DEF Front
    <3> QED
      BY <3>1, <3>2
  <2>3. g \in Slots /\ g[1] # "stored"
    BY <1>1, <1>2 DEF Given, Slots
  <2>4. Held(g)' = x
    <3>1. CASE i \in Roots
      <4>1. g = <<"out", i, Len(out[i]) + 1>>
        BY <3>1 DEF Given
      <4>2. g[1] = "out" /\ g[2] = i /\ g[3] = Len(out[i]) + 1
        BY <4>1
      <4> QED
        BY <2>1, <4>2 DEF Held
    <3>2. CASE i \notin Roots
      BY <1>3, <1>7, <3>2 DEF Given, Held
    <3> QED
      BY <3>1, <3>2
  <2>5. ASSUME NEW p \in Slots, Filled(p)', p[1] # "stored", p # g
        PROVE  p[1] = "out" /\ Filled(p) /\ Held(p)' = Held(p)
    <3>1. CASE p[1] = "out"
      <4>1. p[2] \in Roots /\ p[3] \in DOMAIN out'[p[2]]
        BY <1>4, <2>5, <3>1 DEF Filled
      <4>2. p[2] = i => p[3] # Len(out[i]) + 1
        <5>1. p = <<p[1], p[2], p[3]>>
          BY DEF Slots
        <5>2. p[2] = i => g = <<"out", i, Len(out[i]) + 1>>
          BY <4>1 DEF Given
        <5>3. p[2] = i /\ p[3] = Len(out[i]) + 1 => p = <<"out", i, Len(out[i]) + 1>>
          BY <3>1, <5>1, Zenon
        <5> QED
          BY <2>5, <5>2, <5>3
      <4>3. p[3] \in DOMAIN out[p[2]] /\ out'[p[2]][p[3]] = out[p[2]][p[3]]
        <5>1. CASE p[2] = i
          <6>1. p[3] \in DOMAIN out'[i] /\ p[3] # Len(out[i]) + 1
            BY <4>1, <4>2, <5>1
          <6>2. p[3] \in 1..Len(out[i])
            BY <1>2, <2>1, <6>1
          <6> QED
            BY <1>2, <2>1, <5>1, <6>2
        <5>2. CASE p[2] # i
          <6>1. out'[p[2]] = out[p[2]]
            BY <1>5, <5>2
          <6> QED
            BY <4>1, <6>1, Zenon
        <5> QED
          BY <5>1, <5>2
      <4> QED
        BY <3>1, <4>1, <4>3 DEF Filled, Held
    <3>2. CASE p[1] # "out"
      <4>1. p = <<"reply", 0, 0>> /\ frames' # <<>>
        BY <2>5, <3>2 DEF Filled
      <4>2. i \notin Roots
        BY <2>2, <4>1
      <4> QED
        BY <2>5, <4>1, <4>2 DEF Given
    <3> QED
      BY <3>1, <3>2
  <2> QED
    BY <2>3, <2>4, <2>5
<1>8. CASE \E x : r = <<x>>
  <2>1. PICK x : r = <<x>>
    BY <1>8
  <2>2. r[1] = x /\ r # <<>>
    BY <2>1, OneIsSeq, LenOfOne
  <2> QED
    BY <1>7, <2>1, <2>2
<1> QED
  BY <1>6, <1>8

\* The slot that gave up each row a sort holds now (h), and the row returned (q).
Supplied(h, q, r) ==
    /\ h \in [Slots -> Slots]
    /\ r # <<>> => q \in Slots /\ Filled(q) /\ Held(q) = r[1] /\ q[1] # "out"
    /\ \A p \in Slots : Filled(p)' /\ p[1] = "stored" =>
          Filled(h[p]) /\ Held(h[p]) = Held(p)' /\ h[p][1] = "stored" /\ (r # <<>> => h[p] # q)
    /\ \A p, o \in Slots : Filled(p)' /\ Filled(o)' /\ p[1] = "stored" /\ o[1] = "stored" /\ h[p] = h[o] => p = o

\* A call returns nothing, or a row that another slot gave up; the rows in the
\* sorts stay, change their order, or are the one returned.
LEMMA ReturnSources ==
    ASSUME QInv, Sourced, current \in Nat, NEW i \in Nodes, frames # <<>>, i = Top,
           UNCHANGED <<plan, tuples, current>>,
           NEW r, Return(i, r), r = <<>> \/ \E x : r = <<x>>,
           NEW q, NEW h, Supplied(h, q, r)
    PROVE  Sourced'
<1>1. PICK n \in Slots : n = Given(i)
  BY ReturnFills
<1>3. \A p \in Slots : Filled(p)' /\ p[1] # "stored" =>
                 \/ p[1] = "out" /\ Filled(p) /\ Held(p)' = Held(p) /\ p # n
                 \/ r # <<>> /\ p = n
  BY <1>1, ReturnFills
<1>4. n[1] # "stored"
  BY <1>1, ReturnFills
<1>5. r # <<>> => Held(n)' = r[1]
  BY <1>1, ReturnFills
<1> DEFINE g == [p \in Slots |-> IF p[1] = "stored" THEN h[p] ELSE IF p = n /\ r # <<>> THEN q ELSE p]
<1>6. g \in [Slots -> Slots]
  BY DEF Supplied
<1>7. \A p \in Slots : g[p] = IF p[1] = "stored" THEN h[p] ELSE IF p = n /\ r # <<>> THEN q ELSE p
  OBVIOUS
<1> HIDE DEF g
<1>8. ASSUME NEW p \in Slots, Filled(p)'
      PROVE  Filled(g[p]) /\ Held(g[p]) = Held(p)'
  <2>1. CASE p[1] = "stored"
    BY <1>7, <1>8, <2>1 DEF Supplied
  <2>2. CASE p[1] # "stored" /\ p = n /\ r # <<>>
    BY <1>5, <1>7, <2>2 DEF Supplied
  <2>3. CASE p[1] # "stored" /\ ~(p = n /\ r # <<>>)
    BY <1>3, <1>7, <1>8, <2>3
  <2> QED
    BY <2>1, <2>2, <2>3
<1>9. ASSUME NEW p \in Slots, Filled(p)'
      PROVE  \/ p[1] = "stored" /\ g[p] = h[p] /\ g[p][1] = "stored" /\ (r # <<>> => g[p] # q)
             \/ p[1] # "stored" /\ p = n /\ r # <<>> /\ g[p] = q
             \/ p[1] = "out" /\ g[p] = p /\ (r # <<>> => g[p] # q)
  BY <1>3, <1>7, <1>9 DEF Supplied
<1>10. ASSUME NEW p \in Slots, NEW o \in Slots, Filled(p)', Filled(o)', g[p] = g[o]
       PROVE  p = o
  <2>1. CASE p[1] = "stored" /\ o[1] = "stored"
    BY <1>7, <1>10, <2>1 DEF Supplied
  <2>2. CASE p[1] # "stored" /\ o[1] # "stored"
    BY <1>9, <1>10, <2>2
  <2>3. CASE p[1] = "stored" /\ o[1] # "stored"
    BY <1>9, <1>10, <2>3
  <2>4. CASE p[1] # "stored" /\ o[1] = "stored"
    BY <1>9, <1>10, <2>4
  <2> QED
    BY <2>1, <2>2, <2>3, <2>4
<1>11. <<"reply", 1, 1>> \in Slots /\ ~Filled(<<"reply", 1, 1>>)'
  BY DEF Slots, Filled
<1> DEFINE u == <<"reply", 1, 1>>
<1>12. PICK v : v = u
  OBVIOUS
<1>13. ~Filled(v)'
  BY <1>11, <1>12
<1>14. /\ \A p \in Slots : Filled(p)' /\ p # v => Filled(g[p]) /\ Held(g[p]) = Held(p)'
       /\ \A p, o \in Slots : Filled(p)' /\ Filled(o)' /\ p # v /\ o # v /\ g[p] = g[o] => p = o
  BY <1>8, <1>10
<1>15. PICK gg \in [Slots -> Slots] : gg = g
  BY <1>6
<1>16. /\ \A p \in Slots : Filled(p)' /\ p # v => Filled(gg[p]) /\ Held(gg[p]) = Held(p)'
       /\ \A p, o \in Slots : Filled(p)' /\ Filled(o)' /\ p # v /\ o # v /\ gg[p] = gg[o] => p = o
  BY <1>14, <1>15
<1> HIDE DEF u
<1> QED
  BY <1>13, <1>16, Moves

\* No row moves: none comes back from a call, or nothing changes.
LEMMA StaySources ==
    ASSUME QInv, Sourced, current \in Nat, UNCHANGED <<plan, tuples, current, sorted, record, out>>,
           returned' = FALSE \/ frames' = <<>> \/ UNCHANGED <<frames, reply, returned>>
    PROVE  Sourced'
<1>1. Roots' = Roots /\ Nodes' = Nodes
  BY DEF Roots, Nodes, Readers, Node, Child
<1>2. \A p \in Slots : Filled(p)' => Filled(p) /\ Held(p) = Held(p)'
  BY <1>1 DEF Filled, Held
<1>3. PICK src \in [Slots -> Nat] :
       /\ \A p \in Slots : Filled(p) =>
             src[p] \in 1..Len(tuples) /\ src[p] < current /\ tuples[src[p]] = Held(p)
       /\ \A p, q \in Slots : Filled(p) /\ Filled(q) /\ src[p] = src[q] => p = q
  BY DEF Sourced
<1>4. Slots' = Slots
  BY DEF Slots
<1>5. \A p \in Slots : Filled(p)' =>
             src[p] \in 1..Len(tuples) /\ src[p] < current /\ tuples[src[p]] = Held(p)'
  BY <1>2, <1>3
<1>6. \A p, q \in Slots : Filled(p)' /\ Filled(q)' /\ src[p] = src[q] => p = q
  BY <1>2, <1>3
<1> QED
  BY <1>3, <1>4, <1>5, <1>6 DEF Sourced

\* A row goes on to the caller in the plan, or out of it.
LEMMA PassSources ==
    ASSUME QInv, TInv, Sourced, NEW i \in Nodes, frames # <<>>, i = Top,
           UNCHANGED <<plan, tuples, current, sorted, record>>,
           NEW r, Return(i, r), r = <<>> \/ (returned /\ r = reply)
    PROVE  Sourced'
<1> DEFINE h == [p \in Slots |-> p]
<1>1. h \in [Slots -> Slots] /\ \A p \in Slots : h[p] = p
  OBVIOUS
<1>2. PICK q \in Slots : q = <<"reply", 0, 0>>
  BY DEF Slots
<1>3. q[1] = "reply"
  BY <1>2
<1>4. Nodes' = Nodes
  BY DEF Nodes
<1>5. \A p \in Slots : Filled(p)' /\ p[1] = "stored" => Filled(p) /\ Held(p) = Held(p)'
  BY <1>4 DEF Filled, Held
<1>6. r = <<>> \/ \E x : r = <<x>>
  <2>1. CASE r = reply
    <3>1. PICK S : reply \in Seq(S)
      BY DEF QInv, Types, IsSeq
    <3>2. Len(reply) = 0 \/ Len(reply) = 1
      <4>1. PICK l \in Nat : l = Len(reply)
        BY <3>1
      <4>2. l <= 1
        BY <4>1 DEF TInv, TypeOK
      <4>3. l = 0 \/ l = 1
        BY <4>2
      <4> QED
        BY <4>1, <4>3
    <3>3. Len(reply) = 0 => reply = <<>>
      BY <3>1
    <3>4. Len(reply) = 1 => reply = <<reply[1]>>
      BY <3>1
    <3> QED
      BY <2>1, <3>2, <3>3, <3>4
  <2> QED
    BY <2>1
<1>7. r # <<>> => q \in Slots /\ Filled(q) /\ Held(q) = r[1] /\ q[1] # "out"
  BY <1>2, <1>3 DEF Filled, Held
<1>8. current \in Nat
  BY TableAssumption DEF TInv, TypeOK
<1>9. PICK hh \in [Slots -> Slots] : \A p \in Slots : hh[p] = p
  BY <1>1
<1>10. \A p \in Slots : Filled(p)' /\ p[1] = "stored" =>
              Filled(hh[p]) /\ Held(hh[p]) = Held(p)' /\ hh[p][1] = "stored" /\ (r # <<>> => hh[p] # q)
  BY <1>3, <1>5, <1>9
<1>11. \A p, o \in Slots : Filled(p)' /\ Filled(o)' /\ p[1] = "stored" /\ o[1] = "stored" /\ hh[p] = hh[o] => p = o
  BY <1>9
<1>12. Supplied(hh, q, r)
  BY <1>7, <1>10, <1>11 DEF Supplied
<1> QED
  BY <1>6, <1>8, <1>12, ReturnSources

\* The scan gives out the tuple at its position and moves on.
LEMMA ScanSources ==
    ASSUME QInv, TInv, Sourced, NEW i \in Nodes, frames # <<>>, i = Top,
           UNCHANGED <<plan, tuples, sorted, record>>,
           current \in 1..Len(tuples), Return(i, <<tuples[current]>>), current' = current + 1
    PROVE  Sourced'
<1>1. PICK r : r = <<tuples[current]>>
  OBVIOUS
<1>2. Return(i, r) /\ r # <<>> /\ r[1] = tuples[current] /\ (r = <<>> \/ \E x : r = <<x>>)
  BY <1>1, OneIsSeq, LenOfOne
<1>3. PICK n \in Slots : n = Given(i)
  BY <1>2, ReturnFills
<1>4. Held(n)' = tuples[current]
  BY <1>2, <1>3, ReturnFills
<1>5. \A p \in Slots : Filled(p)' /\ p[1] # "stored" =>
                 \/ p[1] = "out" /\ Filled(p) /\ Held(p)' = Held(p) /\ p # n
                 \/ r # <<>> /\ p = n
  BY <1>2, <1>3, ReturnFills
<1>6. \A p \in Slots : Filled(p)' /\ p[1] = "stored" => Filled(p) /\ Held(p) = Held(p)'
  BY DEF Filled, Held, Nodes
<1>7. PICK g \in [Slots -> Slots] : \A p \in Slots : g[p] = p
  <2> DEFINE h == [p \in Slots |-> p]
  <2>1. h \in [Slots -> Slots] /\ \A p \in Slots : h[p] = p
    OBVIOUS
  <2> QED
    BY <2>1
<1>8. \A p \in Slots : Filled(p)' /\ p # n => Filled(g[p]) /\ Held(g[p]) = Held(p)'
  BY <1>5, <1>6, <1>7
<1>9. \A p, q \in Slots : Filled(p)' /\ Filled(q)' /\ p # n /\ q # n /\ g[p] = g[q] => p = q
  BY <1>7
<1>10. current \in Nat /\ current' \in Nat
  BY TableAssumption DEF TInv, TypeOK
<1> QED
  BY <1>4, <1>8, <1>9, <1>10, Moves

LEMMA StoreSources ==
    ASSUME QInv, TInv, Sourced, NEW i \in Nodes, SortStore(i)
    PROVE  Sourced'
<1>1. /\ frames # <<>> /\ returned /\ reply # <<>> /\ returned' = FALSE
      /\ sorted' = [sorted EXCEPT ![i] = Append(@, reply[1])]
      /\ UNCHANGED <<plan, tuples, current, record, out, reply>>
  BY DEF SortStore, Resumed, Pull, history
<1>2. IsSeq(sorted[i]) /\ DOMAIN sorted = Nodes /\ i \in Nat
  BY NodesAreNumbers DEF QInv, Types
<1>3. PICK m \in Nat : m = Len(sorted[i]) /\ DOMAIN sorted[i] = 1..m
  BY <1>2, SeqLen
<1>4. /\ DOMAIN sorted'[i] = 1..(m + 1) /\ sorted'[i][m + 1] = reply[1]
      /\ \A k \in 1..m : sorted'[i][k] = sorted[i][k]
      /\ \A j \in Nodes \ {i} : sorted'[j] = sorted[j]
  BY <1>1, <1>2, <1>3, SeqLen
<1>5. PICK n \in Slots : n = <<"stored", i, m + 1>>
  <2>1. m + 1 \in Nat
    OBVIOUS
  <2>2. <<"stored", i, m + 1>> \in Slots
    BY <1>2, <2>1 DEF Slots
  <2> QED
    BY <2>2
<1>6. PICK q \in Slots : q = <<"reply", 0, 0>>
  BY DEF Slots
<1>7. Filled(q) /\ Held(q) = reply[1] /\ q[1] = "reply"
  BY <1>1, <1>6 DEF Filled, Held
<1>8. Held(n)' = reply[1]
  BY <1>4, <1>5 DEF Held
<1>9. Nodes' = Nodes /\ Roots' = Roots
  BY <1>1 DEF Nodes, Roots, Readers, Node, Child
<1>10. ASSUME NEW p \in Slots, Filled(p)', p # n
       PROVE  Filled(p) /\ Held(p) = Held(p)' /\ p[1] # "reply"
  <2>1. p = <<p[1], p[2], p[3]>>
    BY DEF Slots
  <2>2. CASE p[1] = "out"
    BY <1>1, <1>9, <1>10, <2>2 DEF Filled, Held
  <2>3. CASE p[1] # "out"
    <3>1. p[1] = "stored" /\ p[2] \in Nodes /\ p[3] \in DOMAIN sorted'[p[2]] /\ record[p[2]] <= p[3]
      BY <1>1, <1>9, <1>10, <2>3 DEF Filled
    <3>2. CASE p[2] = i
      <4>1. p[3] # m + 1
        BY <1>5, <1>10, <2>1, <3>1, <3>2
      <4>2. p[3] \in 1..(m + 1)
        BY <1>4, <3>1, <3>2
      <4>3. p[3] \in 1..m
        BY <4>1, <4>2
      <4> QED
        BY <1>3, <1>4, <3>1, <3>2, <4>3 DEF Filled, Held
    <3>3. CASE p[2] # i
      <4>1. sorted'[p[2]] = sorted[p[2]]
        BY <1>4, <3>1, <3>3
      <4> QED
        BY <3>1, <4>1 DEF Filled, Held
    <3> QED
      BY <3>2, <3>3
  <2> QED
    BY <2>2, <2>3
<1> DEFINE h == [p \in Slots |-> IF p = n THEN q ELSE p]
<1>11. h \in [Slots -> Slots] /\ \A p \in Slots : h[p] = IF p = n THEN q ELSE p
  OBVIOUS
<1>12. PICK g \in [Slots -> Slots] : \A p \in Slots : g[p] = IF p = n THEN q ELSE p
  BY <1>11
<1> HIDE DEF h
<1>13. ASSUME NEW p \in Slots, Filled(p)'
       PROVE  Filled(g[p]) /\ Held(g[p]) = Held(p)'
  <2>1. CASE p = n
    BY <1>7, <1>8, <1>12, <2>1
  <2>2. CASE p # n
    BY <1>10, <1>12, <1>13, <2>2
  <2> QED
    BY <2>1, <2>2
<1>14. ASSUME NEW p \in Slots, NEW o \in Slots, Filled(p)', Filled(o)', g[p] = g[o]
       PROVE  p = o
  BY <1>7, <1>10, <1>12, <1>14
<1>15. PICK v \in Slots : v = <<"reply", 1, 1>>
  BY DEF Slots
<1>16. ~Filled(v)'
  BY <1>15 DEF Filled
<1>17. current \in Nat /\ current' \in Nat
  BY <1>1, TableAssumption DEF TInv, TypeOK
<1> QED
  BY <1>1, <1>13, <1>14, <1>16, <1>17, Moves

LEMMA NextSources ==
    ASSUME QInv, TInv, Sourced, NEW i \in Nodes, SortNext(i)
    PROVE  Sourced'
<1>1. /\ frames # <<>> /\ i = Top /\ record[i] # 0
      /\ UNCHANGED <<plan, tuples, current, sorted>>
  BY DEF SortNext, Entered
<1>2. CASE record[i] > Len(sorted[i])
  <2>1. PICK r : r = <<>> /\ Return(i, r) /\ UNCHANGED record
    BY <1>2 DEF SortNext
  <2> QED
    BY <1>1, <2>1, PassSources
<1>3. CASE ~(record[i] > Len(sorted[i]))
  <2>1. PICK k : k = record[i]
    OBVIOUS
  <2>2. PICK r : r = <<sorted[i][k]>> /\ Return(i, r) /\ record' = [record EXCEPT ![i] = @ + 1]
    BY <1>3, <2>1 DEF SortNext
  <2>3. r # <<>> /\ r[1] = sorted[i][k] /\ (r = <<>> \/ \E x : r = <<x>>)
    BY <2>2, OneIsSeq, LenOfOne
  <2>4. /\ IsSeq(sorted[i]) /\ i \in Nat /\ k \in Nat /\ record \in [Nodes -> Nat]
    BY <2>1, NodesAreNumbers DEF QInv, Types
  <2>5. k \in DOMAIN sorted[i] /\ record'[i] = k + 1 /\ \A j \in Nodes \ {i} : record'[j] = record[j]
    <3>1. Len(sorted[i]) \in Nat /\ DOMAIN sorted[i] = 1..Len(sorted[i])
      BY <2>4, SeqLen
    <3> QED
      BY <1>1, <1>3, <2>1, <2>2, <2>4, <3>1
  <2>6. PICK q \in Slots : q = <<"stored", i, k>>
    BY <2>4 DEF Slots
  <2>7. Filled(q) /\ Held(q) = r[1] /\ q[1] # "out"
    <3>1. q[1] = "stored" /\ q[2] = i /\ q[3] = k
      BY <2>6
    <3> QED
      BY <2>1, <2>3, <2>4, <2>5, <3>1 DEF Filled, Held
  <2>8. PICK g \in [Slots -> Slots] : \A p \in Slots : g[p] = p
    <3> DEFINE h == [p \in Slots |-> p]
    <3>1. h \in [Slots -> Slots] /\ \A p \in Slots : h[p] = p
      OBVIOUS
    <3> QED
      BY <3>1
  <2>9. ASSUME NEW p \in Slots, Filled(p)', p[1] = "stored"
        PROVE  Filled(p) /\ Held(p) = Held(p)' /\ p # q
    <3>1. p[2] \in Nodes /\ p[3] \in DOMAIN sorted[p[2]] /\ record'[p[2]] <= p[3] /\ p[3] \in Nat
      BY <1>1, <2>9 DEF Filled, Nodes, Slots
    <3>2. record[p[2]] <= p[3] /\ (p[2] = i => p[3] # k)
      <4>1. CASE p[2] = i
        BY <2>1, <2>4, <2>5, <3>1, <4>1
      <4>2. CASE p[2] # i
        BY <2>5, <3>1, <4>2
      <4> QED
        BY <4>1, <4>2
    <3>3. p # q
      BY <2>6, <3>2
    <3> QED
      BY <1>1, <2>9, <3>1, <3>2, <3>3 DEF Filled, Held
  <2>10. \A p \in Slots : Filled(p)' /\ p[1] = "stored" =>
              Filled(g[p]) /\ Held(g[p]) = Held(p)' /\ g[p][1] = "stored" /\ (r # <<>> => g[p] # q)
    BY <2>8, <2>9
  <2>11. \A p, o \in Slots : Filled(p)' /\ Filled(o)' /\ p[1] = "stored" /\ o[1] = "stored" /\ g[p] = g[o] => p = o
    BY <2>8
  <2>12. current \in Nat
    BY TableAssumption DEF TInv, TypeOK
  <2>13. Supplied(g, q, r)
    BY <2>3, <2>7, <2>10, <2>11 DEF Supplied
  <2> QED
    BY <1>1, <2>2, <2>3, <2>12, <2>13, ReturnSources
<1> QED
  BY <1>2, <1>3

LEMMA SortSources ==
    ASSUME QInv, TInv, Sourced, NEW i \in Nodes, SortAndReturn(i)
    PROVE  Sourced'
<1>1. /\ frames # <<>> /\ i = Top /\ returned /\ Node(i).kind = "sort" /\ sorted[i] # <<>>
      /\ UNCHANGED <<plan, tuples, current>> /\ record' = [record EXCEPT ![i] = 2]
  BY DEF SortAndReturn, Resumed
<1>2. PICK s \in Sortings(Node(i), sorted[i]) :
         sorted' = [sorted EXCEPT ![i] = s] /\ Return(i, <<s[1]>>)
  BY DEF SortAndReturn
<1>3. /\ IsSeq(sorted[i]) /\ DOMAIN sorted = Nodes /\ i \in Nat /\ record \in [Nodes -> Nat] /\ record[i] = 0
  BY <1>1, NodesAreNumbers, WaitingSortHasNoRecord DEF QInv, Types, Sorts
<1>4. PICK m \in Nat : m = Len(sorted[i]) /\ DOMAIN sorted[i] = 1..m /\ m > 0
  BY <1>1, <1>3, SeqLen
<1>5. PICK f \in [1..m -> 1..m] :
         /\ \A a, b \in 1..m : f[a] = f[b] => a = b
         /\ \A a \in 1..m : s[a] = sorted[i][f[a]]
         /\ DOMAIN s = 1..m
  <2>1. PICK n, t : n = Node(i) /\ t = sorted[i]
    OBVIOUS
  <2>2. IsSeq(t) /\ s \in Sortings(n, t)
    BY <1>3, <2>1
  <2>3. PICK e \in [DOMAIN t -> DOMAIN t] :
              /\ \A a, b \in DOMAIN t : e[a] = e[b] => a = b
              /\ \A a \in DOMAIN t : s[a] = t[e[a]]
              /\ DOMAIN s = DOMAIN t
    BY <2>2, SortingLen
  <2>4. DOMAIN t = 1..m
    BY <1>4, <2>1
  <2>5. /\ e \in [1..m -> 1..m] /\ DOMAIN s = 1..m
        /\ \A a, b \in 1..m : e[a] = e[b] => a = b
        /\ \A a \in 1..m : s[a] = sorted[i][e[a]]
    BY <2>1, <2>3, <2>4, Zenon
  <2> QED
    BY <2>5
<1>6. /\ sorted'[i] = s /\ record'[i] = 2
      /\ \A j \in Nodes \ {i} : sorted'[j] = sorted[j] /\ record'[j] = record[j]
  BY <1>1, <1>2, <1>3
<1>7. PICK r : r = <<s[1]>> /\ Return(i, r)
  BY <1>2
<1>8. r # <<>> /\ r[1] = s[1] /\ (r = <<>> \/ \E x : r = <<x>>)
  BY <1>7, OneIsSeq, LenOfOne
\* The slot node i gave up for the row at position k of its sorting.
<1>9. \A k \in 1..m : <<"stored", i, f[k]>> \in Slots
  <2>1. \A k \in 1..m : f[k] \in Nat
    BY <1>5
  <2> QED
    BY <1>3, <2>1 DEF Slots
<1>10. 1 \in 1..m
  BY <1>4
<1>11. PICK q \in Slots : q = <<"stored", i, f[1]>>
  BY <1>9, <1>10
<1>12. Filled(q) /\ Held(q) = r[1] /\ q[1] # "out"
  <2>1. q[1] = "stored" /\ q[2] = i /\ q[3] = f[1] /\ f[1] \in 1..m
    BY <1>5, <1>10, <1>11
  <2>2. record[i] <= f[1]
    BY <1>3, <2>1
  <2> QED
    BY <1>4, <1>5, <1>8, <1>10, <2>1, <2>2 DEF Filled, Held
<1> DEFINE h == [p \in Slots |-> IF p[1] = "stored" /\ p[2] = i /\ p[3] \in 1..m
                                 THEN <<"stored", i, f[p[3]]>> ELSE p]
<1>13. h \in [Slots -> Slots] /\ \A p \in Slots : h[p] = IF p[1] = "stored" /\ p[2] = i /\ p[3] \in 1..m
                                 THEN <<"stored", i, f[p[3]]>> ELSE p
  BY <1>9
<1>14. PICK g \in [Slots -> Slots] : \A p \in Slots : g[p] = IF p[1] = "stored" /\ p[2] = i /\ p[3] \in 1..m
                                 THEN <<"stored", i, f[p[3]]>> ELSE p
  BY <1>13
<1> HIDE DEF h
<1>15. ASSUME NEW p \in Slots, Filled(p)', p[1] = "stored"
       PROVE  \/ /\ p[2] = i /\ p[3] \in 1..m /\ p[3] # 1 /\ g[p] = <<"stored", i, f[p[3]]>>
                 /\ Held(p)' = s[p[3]]
              \/ p[2] # i /\ g[p] = p /\ Filled(p) /\ Held(p)' = Held(p)
  <2>1. p[2] \in Nodes /\ p[3] \in DOMAIN sorted'[p[2]] /\ record'[p[2]] <= p[3]
    BY <1>1, <1>15 DEF Filled, Nodes
  <2>2. CASE p[2] = i
    <3>1. p[3] \in 1..m /\ 2 <= p[3]
      BY <1>5, <1>6, <2>1, <2>2
    <3>2. p[3] # 1
      BY <3>1
    <3>3. Held(p)' = s[p[3]]
      BY <1>6, <1>15, <2>2 DEF Held
    <3>4. g[p] = <<"stored", i, f[p[3]]>>
      BY <1>14, <1>15, <2>2, <3>1
    <3> QED
      BY <2>2, <3>1, <3>2, <3>3, <3>4
  <2>3. CASE p[2] # i
    BY <1>6, <1>14, <1>15, <2>1, <2>3 DEF Held, Filled
  <2> QED
    BY <2>2, <2>3
<1>16. ASSUME NEW p \in Slots, Filled(p)', p[1] = "stored"
       PROVE  Filled(g[p]) /\ Held(g[p]) = Held(p)' /\ g[p][1] = "stored" /\ (r # <<>> => g[p] # q)
  <2>1. CASE p[2] = i
    <3>1. /\ p[3] \in 1..m /\ p[3] # 1 /\ g[p] = <<"stored", i, f[p[3]]>> /\ Held(p)' = s[p[3]]
      BY <1>15, <1>16, <2>1
    <3>2. PICK k \in 1..m : k = p[3]
      BY <3>1
    <3>3. g[p][1] = "stored" /\ g[p][2] = i /\ g[p][3] = f[k] /\ f[k] \in 1..m
      BY <1>5, <3>1, <3>2
    <3>4. record[i] <= f[k]
      BY <1>3, <3>3
    <3>5. f[k] # f[1]
      BY <1>5, <1>10, <3>1, <3>2
    <3>6. g[p] # q
      BY <1>11, <3>3, <3>5
    <3>7. Filled(g[p])
      BY <1>4, <3>3, <3>4 DEF Filled
    <3>8. Held(g[p]) = s[k]
      BY <1>5, <3>3 DEF Held
    <3> QED
      BY <3>1, <3>2, <3>3, <3>6, <3>7, <3>8
  <2>2. CASE p[2] # i
    BY <1>11, <1>15, <1>16, <2>2
  <2> QED
    BY <2>1, <2>2
<1>17. ASSUME NEW p \in Slots, NEW o \in Slots, Filled(p)', Filled(o)', p[1] = "stored", o[1] = "stored",
              g[p] = g[o]
       PROVE  p = o
  <2>1. p = <<p[1], p[2], p[3]>> /\ o = <<o[1], o[2], o[3]>>
    BY DEF Slots
  <2>2. CASE p[2] = i /\ o[2] = i
    <3>1. /\ p[3] \in 1..m /\ g[p] = <<"stored", i, f[p[3]]>>
          /\ o[3] \in 1..m /\ g[o] = <<"stored", i, f[o[3]]>>
      <4>1. p[3] \in 1..m /\ g[p] = <<"stored", i, f[p[3]]>>
        BY <1>15, <1>17, <2>2
      <4>2. o[3] \in 1..m /\ g[o] = <<"stored", i, f[o[3]]>>
        BY <1>15, <1>17, <2>2
      <4> QED
        BY <4>1, <4>2
    <3>3. f[p[3]] = f[o[3]]
      <4>1. g[p][3] = f[p[3]] /\ g[o][3] = f[o[3]]
        BY <3>1
      <4> QED
        BY <1>17, <4>1
    <3>2. p[3] = o[3]
      BY <1>5, <3>1, <3>3
    <3> QED
      BY <1>17, <2>1, <2>2, <3>2
  <2>3. CASE p[2] # i /\ o[2] # i
    BY <1>15, <1>17, <2>3
  <2>4. CASE (p[2] = i /\ o[2] # i) \/ (p[2] # i /\ o[2] = i)
    BY <1>15, <1>17, <2>4
  <2> QED
    BY <2>2, <2>3, <2>4
<1>18. current \in Nat
  BY TableAssumption DEF TInv, TypeOK
<1>19. \A p \in Slots : Filled(p)' /\ p[1] = "stored" =>
          Filled(g[p]) /\ Held(g[p]) = Held(p)' /\ g[p][1] = "stored" /\ (r # <<>> => g[p] # q)
  BY <1>16
<1>20. \A p, o \in Slots : Filled(p)' /\ Filled(o)' /\ p[1] = "stored" /\ o[1] = "stored" /\ g[p] = g[o] => p = o
  BY <1>17
<1>21. r # <<>> => q \in Slots /\ Filled(q) /\ Held(q) = r[1] /\ q[1] # "out"
  BY <1>12
<1>22. /\ frames # <<>> /\ i = Top /\ UNCHANGED <<plan, tuples, current>> /\ Return(i, r)
       /\ r = <<>> \/ \E x : r = <<x>>
  BY <1>1, <1>7, <1>8
<1>23. Supplied(g, q, r)
  BY <1>19, <1>20, <1>21 DEF Supplied
<1> QED
  BY <1>18, <1>22, <1>23, ReturnSources

\* No step of a call makes a second copy of a row, in a plan without projections.
LEMMA StepSources ==
    ASSUME QInv, TInv, Sourced, \A j \in Nodes : Node(j).kind # "projection",
           NEW i \in Nodes, Step(i)
    PROVE  Sourced'
<1>1. current \in Nat
  BY TableAssumption DEF TInv, TypeOK
<1>2. CASE ScanNext(i)
  <2>1. frames # <<>> /\ i = Top /\ UNCHANGED <<plan, tuples, sorted, record>>
    BY <1>2 DEF ScanNext, Entered
  <2>2. CASE current > Len(tuples)
    <3>1. PICK r : r = <<>> /\ Return(i, r) /\ UNCHANGED current
      BY <1>2, <2>2 DEF ScanNext
    <3> QED
      BY <2>1, <3>1, PassSources
  <2>3. CASE ~(current > Len(tuples))
    <3>1. current \in 1..Len(tuples)
      BY <2>3, TableAssumption DEF TInv, TypeOK
    <3>2. Return(i, <<tuples[current]>>) /\ current' = current + 1
      BY <1>2, <2>3 DEF ScanNext
    <3> QED
      BY <2>1, <3>1, <3>2, ScanSources
  <2> QED
    BY <2>2, <2>3
<1>3. CASE LimitNext(i) \/ SelectionPull(i) \/ SortPull(i) \/ SortThrow(i) \/ SortUnset(i)
  <2>1. UNCHANGED <<plan, tuples, current, sorted, record, out>> /\ (returned' = FALSE \/ frames' = <<>>)
    BY <1>3 DEF LimitNext, SelectionPull, SortPull, SortThrow, SortUnset, Pull, Throw, machine, history
  <2> QED
    BY <1>1, <2>1, StaySources
<1>4. CASE LimitReached(i) \/ SortNothing(i)
  <2>1. PICK r : r = <<>> /\ Return(i, r) /\ frames # <<>> /\ i = Top
                 /\ UNCHANGED <<plan, tuples, current, sorted, record>>
    BY <1>4 DEF LimitReached, SortNothing, Entered, Resumed, machine
  <2> QED
    BY <2>1, PassSources
<1>5. CASE LimitReturn(i) \/ SelectionReturn(i)
  <2>1. returned /\ Return(i, reply) /\ frames # <<>> /\ i = Top
        /\ UNCHANGED <<plan, tuples, current, sorted, record>>
    BY <1>5 DEF LimitReturn, SelectionReturn, Resumed, machine
  <2> QED
    BY <2>1, PassSources
<1>6. ~ProjectionPull(i) /\ ~ProjectionReturn(i)
  BY DEF ProjectionPull, ProjectionReturn, Entered, Resumed
<1> QED
  BY <1>2, <1>3, <1>4, <1>5, <1>6, StoreSources, NextSources, SortSources DEF Step

SInv == (\A i \in Nodes : Node(i).kind # "projection") => Sourced

LEMMA FirstCounts == Init => TInv /\ SInv
<1> SUFFICES ASSUME Init PROVE TInv /\ SInv
  OBVIOUS
<1>1. QInv
  BY Initial
<1>2. plan \in Plans /\ Len(tuples) \in Nat /\ frames = <<>> /\ reply = <<>>
  BY TableAssumption DEF Init
<1>3. /\ Len(<<>>) = 0 /\ DOMAIN <<>> = {}
  BY EmptySeq
<1>4. TypeOK
  <2>1. current \in 1..(Len(tuples) + 1)
    BY <1>2 DEF Init
  <2>2. ASSUME NEW i \in Nodes, Node(i).kind = "limit" PROVE limit[i] \in 0..Node(i).limit
    <3>1. Node(i).limit \in Nat
      BY <1>2, <2>2, PlanAssumption DEF Nodes, Node, Scan
    <3>2. limit[i] = Node(i).limit
      BY <2>2 DEF Init
    <3> QED
      BY <3>1, <3>2
  <2>3. \A i \in Nodes : record[i] \in 0..(Len(sorted[i]) + 1)
    BY <1>3 DEF Init
  <2>4. \A k \in 1..(Len(frames) - 1) : frames[k + 1] = Child(frames[k])
    BY <1>2, <1>3
  <2>5. Len(reply) <= 1
    BY <1>2, <1>3
  <2> QED
    BY <2>1, <2>2, <2>3, <2>4, <2>5 DEF TypeOK
<1>5. Sourced
  <2>1. \A p \in Slots : ~Filled(p)
    BY <1>2, <1>3 DEF Init, Filled, Roots
  <2>2. [p \in Slots |-> 0] \in [Slots -> Nat]
    OBVIOUS
  <2> QED
    BY <2>1, <2>2 DEF Sourced
<1> QED
  BY <1>4, <1>5 DEF TInv, SInv, Init

LEMMA NextCounts == ASSUME QInv, TInv, SInv, [Next]_vars PROVE TInv' /\ SInv'
<1>1. CASE \E i \in Nodes : Step(i)
  <2>1. PICK i \in Nodes : Step(i)
    BY <1>1
  <2>2. UNCHANGED plan
    BY <2>1 DEF Step, ScanNext, LimitNext, LimitReached, LimitReturn, SelectionPull, SelectionReturn,
         ProjectionPull, ProjectionReturn, SortPull, SortStore, SortThrow, SortNothing,
         SortAndReturn, SortNext, SortUnset, machine
  <2>3. SInv'
    BY <2>1, <2>2, StepSources DEF SInv, Nodes, Node
  <2> QED
    BY <2>1, <2>3, StepTypes
<1>2. CASE UNCHANGED vars \/ \E h \in plan.handles : Call(h)
  <2>1. /\ UNCHANGED <<plan, tuples, current, limit, sorted, record, out, reply>>
        /\ \/ UNCHANGED <<frames, reply, returned>>
           \/ returned' = FALSE /\ \E h : frames' = <<h>>
    BY <1>2 DEF vars, machine, history, Call
  <2>2. current \in Nat
    BY TableAssumption DEF TInv, TypeOK
  <2>3. Nodes' = Nodes /\ \A j : Node(j)' = Node(j) /\ Child(j)' = Child(j)
    BY <2>1 DEF Nodes, Node, Child
  <2>4. SInv'
    BY <2>1, <2>2, <2>3, StaySources DEF SInv
  <2>5. \A k \in 1..(Len(frames') - 1) : frames'[k + 1] = Child(frames[k])'
    <3>1. CASE UNCHANGED frames
      BY <2>3, <3>1 DEF TInv, TypeOK
    <3>2. ASSUME NEW h, frames' = <<h>>
          PROVE  <2>5
      <4>1. Len(frames') = 1
        BY <3>2, LenOfOne
      <4> QED
        BY <4>1
    <3> QED
      BY <2>1, <3>1, <3>2
  <2>6. TInv'
    BY <2>1, <2>3, <2>5 DEF TInv, TypeOK
  <2> QED
    BY <2>4, <2>6
<1> QED
  BY <1>1, <1>2 DEF Next

\* Whatever the plan, the table and the order of the calls, the roots of a plan
\* without projections return no row more often than the table has it, and the
\* variables keep their types.
THEOREM RowsOnce == FairSpec => []NoRowTwice
<1>1. QInv /\ TInv /\ SInv => NoRowTwice
  <2> SUFFICES ASSUME QInv, TInv, SInv PROVE NoRowTwice
    OBVIOUS
  <2>1. ASSUME \A i \in Nodes : Node(i).kind # "projection",
               NEW t \in UNION {Range(out[i]) : i \in Roots}
        PROVE  LET shown == {e \in UNION {{i} \X DOMAIN out[i] : i \in Roots} : out[e[1]][e[2]] = t}
               IN  Cardinality(shown) <= Cardinality({k \in DOMAIN tuples : tuples[k] = t})
    <3>1. Sourced
      BY <2>1 DEF SInv
    <3> QED
      BY <3>1, SourcedCounts
  <2>2. TypeOK
    BY DEF TInv
  <2> QED
    BY <2>1, <2>2 DEF NoRowTwice
<1>2. QInv /\ TInv /\ SInv /\ [Next]_vars => TInv' /\ SInv'
  BY NextCounts
<1> QED
  BY Initial, NextKeeps, FirstCounts, <1>1, <1>2, PTL DEF FairSpec

-----------------------------------------------------------------------------
(* What the iterators compute.                                             *)

\* Two lists that agree everywhere.
LEMMA SameSeq ==
    ASSUME NEW s, NEW t, IsSeq(s), IsSeq(t), Len(s) = Len(t), \A k \in 1..Len(s) : s[k] = t[k]
    PROVE  s = t
<1>1. PICK S, T : s \in Seq(S) /\ t \in Seq(T)
  BY DEF IsSeq
<1> QED
  BY <1>1

LEMMA JoinIs ==
    ASSUME NEW s, NEW t, IsSeq(s), IsSeq(t)
    PROVE  /\ IsSeq(s \o t) /\ Len(s \o t) = Len(s) + Len(t)
           /\ \A k \in 1..Len(s) : (s \o t)[k] = s[k]
           /\ \A k \in 1..Len(t) : (s \o t)[Len(s) + k] = t[k]
<1>1. PICK S, T : s \in Seq(S) /\ t \in Seq(T)
  BY DEF IsSeq
<1> DEFINE U == S \cup T
<1>2. S \subseteq U /\ T \subseteq U
  OBVIOUS
<1> HIDE DEF U
<1>3. s \in Seq(U) /\ t \in Seq(U)
  BY <1>1, <1>2, SeqMonotonic
<1> QED
  BY <1>3 DEF IsSeq

LEMMA JoinOne ==
    ASSUME NEW s, NEW x, IsSeq(s)
    PROVE  s \o <<x>> = Append(s, x) /\ s \o <<>> = s /\ <<>> \o s = s
<1>1. PICK S : s \in Seq(S)
  BY DEF IsSeq
<1>2. S \subseteq S \cup {x}
  OBVIOUS
<1>3. s \in Seq(S \cup {x})
  BY <1>1, <1>2, SeqMonotonic
<1> QED
  BY <1>3

\* s is the beginning of t.
Begins(s, t) == Len(s) <= Len(t) /\ \A k \in 1..Len(s) : s[k] = t[k]

LEMMA CutIs ==
    ASSUME NEW s, IsSeq(s), NEW m \in Nat, m <= Len(s)
    PROVE  /\ IsSeq(SubSeq(s, 1, m)) /\ Len(SubSeq(s, 1, m)) = m
           /\ \A k \in 1..m : SubSeq(s, 1, m)[k] = s[k]
<1>1. PICK S : s \in Seq(S)
  BY DEF IsSeq
<1>2. SubSeq(s, 1, m) \in Seq(S) /\ Len(SubSeq(s, 1, m)) = m /\ \A k \in 1..m : SubSeq(s, 1, m)[k] = s[k]
  BY <1>1
<1> QED
  BY <1>2 DEF IsSeq

LEMMA BeginsIsPrefix ==
    ASSUME NEW s, NEW t, IsSeq(s), IsSeq(t), Begins(s, t)
    PROVE  IsPrefix(s, t)
<1>1. Len(s) \in Nat /\ Len(t) \in Nat /\ Len(s) <= Len(t)
  BY SeqLen DEF Begins
<1>2. PICK a, b : a = SubSeq(s, 1, Len(s)) /\ b = SubSeq(t, 1, Len(s))
  OBVIOUS
<1>3. IsSeq(a) /\ Len(a) = Len(s) /\ \A k \in 1..Len(s) : a[k] = s[k]
  BY <1>1, <1>2, CutIs
<1>4. IsSeq(b) /\ Len(b) = Len(s) /\ \A k \in 1..Len(s) : b[k] = t[k]
  BY <1>1, <1>2, CutIs
<1>5. a = b
  BY <1>3, <1>4, SameSeq DEF Begins
<1> QED
  BY <1>1, <1>2, <1>5 DEF IsPrefix

LEMMA BeginsJoin ==
    ASSUME NEW s, NEW t, IsSeq(s), IsSeq(t)
    PROVE  Begins(s, s \o t)
<1>1. Len(s) \in Nat /\ Len(t) \in Nat
  BY SeqLen
<1> QED
  BY <1>1, JoinIs DEF Begins

LEMMA ListIsSeq == ASSUME NEW s, IsList(s) PROVE IsSeq(s)
<1> DEFINE S == {s[k] : k \in 1..Len(s)}
<1>1. Len(s) \in Nat /\ s = [k \in 1..Len(s) |-> s[k]]
  BY DEF IsList
<1>2. s \in [1..Len(s) -> S]
  BY <1>1
<1>3. s \in Seq(S)
  BY <1>1, <1>2
<1> QED
  BY <1>3 DEF IsSeq

\* A filtered list, position by position.
KeptUpTo(s, K, f) ==
    f = [k \in 0..Len(s) |->
           IF k = 0 THEN <<>> ELSE IF k \in K THEN Append(f[k - 1], s[k]) ELSE f[k - 1]]

LEMMA KeptIs ==
    ASSUME NEW s, NEW K, Len(s) \in Nat
    PROVE  \E f : KeptUpTo(s, K, f) /\ Kept(s, K) = f[Len(s)]
<1> DEFINE Body(f, k) == IF k = 0 THEN <<>> ELSE IF k \in K THEN Append(f[k - 1], s[k]) ELSE f[k - 1]
           P(j) == \E f : f = [k \in 0..j |-> Body(f, k)]
           S == {j \in Nat : P(j)}
<1>1. P(0)
  <2> DEFINE f == [k \in 0..0 |-> <<>>]
  <2>1. f = [k \in 0..0 |-> Body(f, k)]
    OBVIOUS
  <2> QED
    BY <2>1
<1>2. ASSUME NEW j \in Nat, P(j) PROVE P(j + 1)
  <2>1. PICK f : f = [k \in 0..j |-> Body(f, k)]
    BY <1>2
  <2> HIDE DEF Body
  <2> DEFINE g == [k \in 0..(j + 1) |-> Body(f, k)]
  <2>2. \A k \in 0..j : f[k] = g[k]
    <3>1. \A k \in 0..j : f[k] = Body(f, k)
      BY <2>1, Zenon
    <3>2. \A k \in 0..j : k \in 0..(j + 1)
      OBVIOUS
    <3> QED
      BY <3>1, <3>2
  <2>3. \A k \in 0..(j + 1) : k = 0 \/ k - 1 \in 0..j
    OBVIOUS
  <2> HIDE DEF g
  <2>4. \A k \in 0..(j + 1) : Body(f, k) = Body(g, k)
    BY <2>2, <2>3 DEF Body
  <2>5. g = [k \in 0..(j + 1) |-> Body(g, k)]
    BY <2>4 DEF g
  <2> QED
    BY <2>5
<1> HIDE DEF P
<1>3. 0 \in S /\ \A j \in Nat : j \in S => j + 1 \in S
  BY <1>1, <1>2
<1>4. Nat \subseteq S
  BY <1>3, Induction
<1>5. P(Len(s))
  BY <1>4
<1>6. \E f : KeptUpTo(s, K, f)
  BY <1>5 DEF P, KeptUpTo
<1>7. KeptUpTo(s, K, CHOOSE f : KeptUpTo(s, K, f))
  BY <1>6
<1>8. Kept(s, K) = (CHOOSE f : KeptUpTo(s, K, f))[Len(s)]
  BY DEF Kept, KeptUpTo
<1> QED
  BY <1>7, <1>8

LEMMA KeptSteps ==
    ASSUME NEW s, NEW K, NEW f, IsSeq(s), KeptUpTo(s, K, f)
    PROVE  /\ f[0] = <<>>
           /\ \A k \in 1..Len(s) : f[k] = IF k \in K THEN Append(f[k - 1], s[k]) ELSE f[k - 1]
           /\ \A k \in 0..Len(s) : /\ IsSeq(f[k])
                                   /\ \A m \in 1..Len(f[k]) : \E l \in K \cap 1..k : f[k][m] = s[l]
<1>1. PICK n \in Nat : n = Len(s)
  BY SeqLen
<1>2. f[0] = <<>>
  BY <1>1 DEF KeptUpTo
<1>3. \A k \in 1..n : f[k] = IF k \in K THEN Append(f[k - 1], s[k]) ELSE f[k - 1]
  <2>1. \A k \in 0..n : f[k] = IF k = 0 THEN <<>> ELSE IF k \in K THEN Append(f[k - 1], s[k]) ELSE f[k - 1]
    BY <1>1, Zenon DEF KeptUpTo
  <2>2. \A k \in 1..n : k \in 0..n /\ k # 0
    OBVIOUS
  <2> QED
    BY <2>1, <2>2
<1> DEFINE P(k) == IsSeq(f[k]) /\ \A m \in 1..Len(f[k]) : \E l \in K \cap 1..k : f[k][m] = s[l]
           S == {k \in Nat : k <= n => P(k)}
<1>4. P(0)
  BY <1>2, EmptyIsSeq
<1>5. ASSUME NEW k \in Nat, k \in S, k + 1 <= n PROVE P(k + 1)
  <2>1. P(k)
    BY <1>1, <1>5
  <2>2. Len(f[k]) \in Nat
    BY <2>1, SeqLen
  <2>3. f[k + 1] = IF k + 1 \in K THEN Append(f[k], s[k + 1]) ELSE f[k]
    BY <1>1, <1>3, <1>5
  <2>4. CASE k + 1 \in K
    <3>1. PICK x, t, u : x = s[k + 1] /\ t = f[k] /\ u = f[k + 1]
      OBVIOUS
    <3>2. u = Append(t, x) /\ IsSeq(t)
      BY <2>1, <2>3, <2>4, <3>1
    <3>3. /\ IsSeq(u) /\ Len(t) \in Nat /\ Len(u) = Len(t) + 1 /\ u[Len(t) + 1] = x
          /\ \A m \in 1..Len(t) : u[m] = t[m]
      BY <3>2, SeqLen, AppendIsSeq
    <3>4. ASSUME NEW m \in 1..Len(u) PROVE \E l \in K \cap 1..(k + 1) : u[m] = s[l]
      <4>1. CASE m = Len(t) + 1
        <5>1. k + 1 \in K \cap 1..(k + 1)
          BY <2>4
        <5> QED
          BY <3>1, <3>3, <4>1, <5>1
      <4>2. CASE m # Len(t) + 1
        <5>1. m \in 1..Len(t)
          BY <3>3, <4>2
        <5>2. PICK l \in K \cap 1..k : t[m] = s[l]
          BY <2>1, <3>1, <5>1
        <5>3. l \in K \cap 1..(k + 1)
          OBVIOUS
        <5> QED
          BY <3>3, <5>1, <5>2, <5>3
      <4> QED
        BY <4>1, <4>2
    <3> QED
      BY <3>1, <3>3, <3>4
  <2>5. CASE k + 1 \notin K
    <3>1. f[k + 1] = f[k]
      BY <2>3, <2>5
    <3>2. K \cap 1..k \subseteq K \cap 1..(k + 1)
      OBVIOUS
    <3> QED
      BY <2>1, <3>1, <3>2
  <2> QED
    BY <2>4, <2>5
<1> HIDE DEF P
<1>6. 0 \in S /\ \A k \in Nat : k \in S => k + 1 \in S
  BY <1>1, <1>4, <1>5
<1>7. Nat \subseteq S
  BY <1>6, Induction
<1>8. \A k \in 0..n : P(k)
  BY <1>1, <1>7
<1> QED
  BY <1>1, <1>2, <1>3, <1>8 DEF P

\* The kept elements are elements.
LEMMA KeptElements ==
    ASSUME NEW s, NEW K, IsSeq(s)
    PROVE  /\ IsSeq(Kept(s, K))
           /\ \A m \in 1..Len(Kept(s, K)) : \E l \in K \cap 1..Len(s) : Kept(s, K)[m] = s[l]
<1>1. Len(s) \in Nat
  BY SeqLen
<1>2. PICK f : KeptUpTo(s, K, f) /\ Kept(s, K) = f[Len(s)]
  BY <1>1, KeptIs
<1>3. Len(s) \in 0..Len(s)
  BY <1>1
<1> QED
  BY <1>2, <1>3, KeptSteps

\* Two filters of lists that begin alike.
LEMMA KeptAlike ==
    ASSUME NEW s, NEW t, NEW K, NEW L, NEW f, NEW g, IsSeq(s), IsSeq(t),
           KeptUpTo(s, K, f), KeptUpTo(t, L, g),
           NEW n \in Nat, n <= Len(s), n <= Len(t),
           \A k \in 1..n : s[k] = t[k] /\ (k \in K <=> k \in L)
    PROVE  \A k \in 0..n : f[k] = g[k]
<1>1. Len(s) \in Nat /\ Len(t) \in Nat
  BY SeqLen
<1> DEFINE S == {k \in Nat : k <= n => f[k] = g[k]}
<1>2. f[0] = g[0]
  BY KeptSteps
<1>3. ASSUME NEW k \in Nat, k \in S, k + 1 <= n PROVE f[k + 1] = g[k + 1]
  <2>1. f[k] = g[k]
    BY <1>3
  <2>2. k + 1 \in 1..n /\ k + 1 \in 1..Len(s) /\ k + 1 \in 1..Len(t) /\ (k + 1) - 1 = k
    BY <1>1, <1>3
  <2>3. f[k + 1] = IF k + 1 \in K THEN Append(f[k], s[k + 1]) ELSE f[k]
    BY <2>2, KeptSteps
  <2>4. g[k + 1] = IF k + 1 \in L THEN Append(g[k], t[k + 1]) ELSE g[k]
    BY <2>2, KeptSteps
  <2> QED
    BY <2>1, <2>2, <2>3, <2>4
<1>4. 0 \in S /\ \A k \in Nat : k \in S => k + 1 \in S
  BY <1>2, <1>3
<1>5. Nat \subseteq S
  BY <1>4, Induction
<1> QED
  BY <1>5

\* One more element.
LEMMA KeptOneMore ==
    ASSUME NEW s, NEW t, NEW K, NEW L, IsSeq(s), IsSeq(t), Len(t) = Len(s) + 1,
           \A k \in 1..Len(s) : s[k] = t[k] /\ (k \in K <=> k \in L)
    PROVE  Kept(t, L) = IF Len(t) \in L THEN Append(Kept(s, K), t[Len(t)]) ELSE Kept(s, K)
<1>1. PICK n \in Nat : n = Len(s) /\ n + 1 = Len(t)
  BY SeqLen
<1>2. PICK f : KeptUpTo(s, K, f) /\ Kept(s, K) = f[n]
  BY <1>1, KeptIs
<1>3. PICK g : KeptUpTo(t, L, g) /\ Kept(t, L) = g[n + 1]
  BY <1>1, KeptIs
<1>4. f[n] = g[n]
  <2>1. /\ n <= Len(s) /\ n <= Len(t) /\ KeptUpTo(s, K, f) /\ KeptUpTo(t, L, g)
        /\ \A k \in 1..n : s[k] = t[k] /\ (k \in K <=> k \in L)
    BY <1>1, <1>2, <1>3
  <2>2. \A k \in 0..n : f[k] = g[k]
    BY <2>1, KeptAlike
  <2> QED
    BY <2>2
<1>5. g[n + 1] = IF n + 1 \in L THEN Append(g[n], t[n + 1]) ELSE g[n]
  <2>1. n + 1 \in 1..Len(t) /\ (n + 1) - 1 = n
    BY <1>1
  <2> QED
    BY <1>3, <2>1, KeptSteps
<1> QED
  BY <1>1, <1>2, <1>3, <1>4, <1>5

\* A filter of a longer list begins with the filter of the shorter.
LEMMA KeptBegins ==
    ASSUME NEW s, NEW t, NEW K, NEW L, IsSeq(s), IsSeq(t), Begins(s, t),
           \A k \in 1..Len(s) : k \in K <=> k \in L
    PROVE  Begins(Kept(s, K), Kept(t, L))
<1>1. PICK n \in Nat, m \in Nat : n = Len(s) /\ m = Len(t) /\ n <= m
  BY SeqLen DEF Begins
<1>2. PICK f : KeptUpTo(s, K, f) /\ Kept(s, K) = f[n]
  BY <1>1, KeptIs
<1>3. PICK g : KeptUpTo(t, L, g) /\ Kept(t, L) = g[m]
  BY <1>1, KeptIs
<1>4. f[n] = g[n]
  <2>1. \A k \in 1..n : s[k] = t[k]
    BY <1>1 DEF Begins
  <2>2. \A k \in 0..n : f[k] = g[k]
    BY <1>1, <1>2, <1>3, <2>1, KeptAlike
  <2> QED
    BY <2>2
<1> DEFINE S == {k \in Nat : n <= k /\ k <= m => Begins(g[n], g[k])}
<1>5. Begins(g[n], g[n]) /\ IsSeq(g[n]) /\ Len(g[n]) \in Nat
  <2>1. n \in 0..Len(t)
    BY <1>1
  <2>2. IsSeq(g[n])
    BY <1>3, <2>1, KeptSteps
  <2> QED
    BY <2>2, SeqLen DEF Begins
<1>6. ASSUME NEW k \in Nat, k \in S, n <= k + 1, k + 1 <= m PROVE Begins(g[n], g[k + 1])
  <2>1. CASE n = k + 1
    BY <1>5, <2>1
  <2>2. CASE n # k + 1
    <3>1. Begins(g[n], g[k])
      BY <1>6, <2>2
    <3>2. k + 1 \in 1..Len(t) /\ (k + 1) - 1 = k /\ k \in 0..Len(t)
      BY <1>1, <1>6
    <3>3. g[k + 1] = IF k + 1 \in L THEN Append(g[k], t[k + 1]) ELSE g[k]
      BY <1>3, <3>2, KeptSteps
    <3>4. IsSeq(g[k])
      BY <1>3, <3>2, KeptSteps
    <3>5. \A x : Begins(g[n], Append(g[k], x))
      BY <1>5, <3>1, <3>4, SeqLen DEF Begins
    <3> QED
      BY <3>1, <3>3, <3>5
  <2> QED
    BY <2>1, <2>2
<1>7. 0 \in S
  BY <1>1, <1>5
<1>8. \A k \in Nat : k \in S => k + 1 \in S
  BY <1>6
<1>9. Nat \subseteq S
  BY <1>7, <1>8, Induction
<1> QED
  BY <1>1, <1>2, <1>3, <1>4, <1>9

-----------------------------------------------------------------------------
(* Tuples have fields whose data can be compared, and stay so.             *)

IsTuple(t) == IsSeq(t) /\ \A k \in 1..Len(t) : t[k].data \in Nat \X Nat

IsTable(s) == IsSeq(s) /\ \A k \in 1..Len(s) : IsTuple(s[k])

LEMMA TablesAreTables == ASSUME NEW s \in Tables PROVE IsTable(s)
<1>1. IsList(s) /\ \A k \in 1..Len(s) : IsList(s[k]) /\ \A j \in 1..Len(s[k]) : s[k][j].data \in Nat \X Nat
  BY TableAssumption
<1> QED
  BY <1>1, ListIsSeq DEF IsTable, IsTuple

LEMMA NamedIsTuple == ASSUME NEW t, NEW name, IsTuple(t) PROVE IsTuple(Named(t, name))
<1>1. PICK K : Named(t, name) = Kept(t, K)
  BY DEF Named
<1>2. /\ IsSeq(Kept(t, K))
      /\ \A m \in 1..Len(Kept(t, K)) : \E l \in K \cap 1..Len(t) : Kept(t, K)[m] = t[l]
  BY KeptElements DEF IsTuple
<1>3. PICK u : u = Kept(t, K)
  OBVIOUS
<1>4. IsTuple(u)
  BY <1>2, <1>3 DEF IsTuple
<1> QED
  BY <1>1, <1>3, <1>4

LEMMA SortKeyIsData ==
    ASSUME NEW n, NEW t, IsTuple(t), HasSortKey(n, t)
    PROVE  SortKey(n, t) \in Nat \X Nat
<1>1. PICK u : u = Named(t, n.key)
  OBVIOUS
<1>2. IsTuple(u) /\ u # <<>>
  BY <1>1, NamedIsTuple DEF HasSortKey
<1>3. Len(u) \in 1..Len(u)
  <2>1. Len(u) \in Nat /\ Len(u) > 0
    BY <1>2, SeqLen DEF IsTuple
  <2> QED
    BY <2>1
<1>4. SortKey(n, t) = u[Len(u)].data
  BY <1>1 DEF SortKey
<1> QED
  BY <1>2, <1>3, <1>4 DEF IsTuple

LEMMA JoinIsTuple == ASSUME NEW s, NEW t, IsTuple(s), IsTuple(t) PROVE IsTuple(s \o t)
<1>1. Len(s) \in Nat /\ Len(t) \in Nat
  BY SeqLen DEF IsTuple
<1>2. PICK u : u = s \o t
  OBVIOUS
<1>3. /\ IsSeq(u) /\ Len(u) = Len(s) + Len(t)
      /\ \A k \in 1..Len(s) : u[k] = s[k]
      /\ \A k \in 1..Len(t) : u[Len(s) + k] = t[k]
  BY <1>2, JoinIs DEF IsTuple
<1>4. ASSUME NEW k \in 1..Len(u) PROVE u[k].data \in Nat \X Nat
  <2>1. CASE k \in 1..Len(s)
    BY <1>3, <2>1 DEF IsTuple
  <2>2. CASE k \notin 1..Len(s)
    <3>1. PICK j \in 1..Len(t) : k = Len(s) + j
      <4>1. k - Len(s) \in 1..Len(t) /\ k = Len(s) + (k - Len(s))
        BY <1>1, <1>3, <2>2
      <4> QED
        BY <4>1
    <3>2. u[k] = t[j]
      BY <1>3, <3>1
    <3> QED
      BY <3>2 DEF IsTuple
  <2> QED
    BY <2>1, <2>2
<1> QED
  BY <1>2, <1>3, <1>4 DEF IsTuple

LEMMA FlattenIsTuple ==
    ASSUME NEW w, IsSeq(w), \A k \in 1..Len(w) : IsTuple(w[k])
    PROVE  IsTuple(FlattenSeq(w))
<1> DEFINE Body(f, k) == IF k = 1 THEN w[k] ELSE f[k - 1] \o w[k]
           P(j) == \E f : f = [k \in 1..j |-> Body(f, k)]
           S == {j \in Nat : P(j)}
<1>1. PICK n \in Nat : n = Len(w) /\ (w # <<>> <=> n > 0)
  BY SeqLen
<1>2. P(0)
  <2>1. \A k \in 1..0 : FALSE
    OBVIOUS
  <2> DEFINE f == [k \in 1..0 |-> <<>>]
  <2>2. f = [k \in 1..0 |-> Body(f, k)]
    BY <2>1
  <2> QED
    BY <2>2
<1>3. ASSUME NEW j \in Nat, P(j) PROVE P(j + 1)
  <2>1. PICK f : f = [k \in 1..j |-> Body(f, k)]
    BY <1>3
  <2> HIDE DEF Body
  <2> DEFINE g == [k \in 1..(j + 1) |-> Body(f, k)]
  <2>2. \A k \in 1..j : f[k] = g[k]
    <3>1. \A k \in 1..j : f[k] = Body(f, k)
      BY <2>1, Zenon
    <3>2. \A k \in 1..j : k \in 1..(j + 1)
      OBVIOUS
    <3> QED
      BY <3>1, <3>2
  <2>3. \A k \in 1..(j + 1) : k = 1 \/ k - 1 \in 1..j
    OBVIOUS
  <2> HIDE DEF g
  <2>4. \A k \in 1..(j + 1) : Body(f, k) = Body(g, k)
    BY <2>2, <2>3 DEF Body
  <2>5. g = [k \in 1..(j + 1) |-> Body(g, k)]
    BY <2>4 DEF g
  <2> QED
    BY <2>5
<1> HIDE DEF P
<1>4. 0 \in S /\ \A j \in Nat : j \in S => j + 1 \in S
  BY <1>1, <1>2, <1>3
<1>5. Nat \subseteq S
  BY <1>4, Induction
<1>6. P(n)
  BY <1>1, <1>5
<1>7. CASE n = 0
  <2>1. FlattenSeq(w) = <<>>
    BY <1>1, <1>7 DEF FlattenSeq
  <2>2. Len(<<>>) = 0
    OBVIOUS
  <2> QED
    BY <2>1, <2>2, EmptyIsSeq DEF IsTuple
<1>8. CASE n # 0
  <2> DEFINE F == CHOOSE f : f = [k \in 1..n |-> IF k = 1 THEN w[k] ELSE f[k - 1] \o w[k]]
  <2>1. FlattenSeq(w) = F[n]
    BY <1>1, <1>8 DEF FlattenSeq
  <2>2. \E f : f = [k \in 1..n |-> IF k = 1 THEN w[k] ELSE f[k - 1] \o w[k]]
    BY <1>6 DEF P
  <2>3. F = [k \in 1..n |-> IF k = 1 THEN w[k] ELSE F[k - 1] \o w[k]]
    BY <2>2
  <2> HIDE DEF F
  <2> DEFINE T == {k \in Nat : k + 1 <= n => IsTuple(F[k + 1])}
  <2>4. 0 \in T
    <3>1. 1 \in 1..n
      BY <1>8
    <3> QED
      BY <1>1, <2>3, <3>1
  <2>5. ASSUME NEW k \in Nat, k \in T PROVE k + 1 \in T
    <3> SUFFICES ASSUME (k + 1) + 1 <= n PROVE IsTuple(F[(k + 1) + 1])
      OBVIOUS
    <3>1. (k + 1) + 1 \in 1..n /\ (k + 1) + 1 # 1 /\ ((k + 1) + 1) - 1 = k + 1 /\ k + 1 <= n
      OBVIOUS
    <3>2. F[(k + 1) + 1] = F[k + 1] \o w[(k + 1) + 1]
      BY <2>3, <3>1
    <3>3. IsTuple(F[k + 1]) /\ IsTuple(w[(k + 1) + 1])
      BY <1>1, <2>5, <3>1
    <3> QED
      BY <3>2, <3>3, JoinIsTuple
  <2>6. Nat \subseteq T
    BY <2>4, <2>5, Induction
  <2>7. n - 1 \in Nat /\ (n - 1) + 1 = n
    BY <1>8
  <2>8. IsTuple(F[n])
    BY <2>6, <2>7
  <2> QED
    BY <2>1, <2>8
<1> QED
  BY <1>7, <1>8

LEMMA ProjectedIsTuple ==
    ASSUME NEW n, NEW t, IsTuple(t), IsList(n.names)
    PROVE  IsTuple(Projected(n, t))
<1> DEFINE w == [k \in DOMAIN n.names |-> Named(t, n.names[k])]
<1>1. Len(n.names) \in Nat /\ DOMAIN n.names = 1..Len(n.names)
  BY DEF IsList
<1>2. \A k \in DOMAIN n.names : IsTuple(w[k])
  BY NamedIsTuple
<1>3. IsList(w) /\ Len(w) = Len(n.names)
  <2>1. PICK m \in Nat : m = Len(n.names) /\ DOMAIN n.names = 1..m
    BY <1>1
  <2> DEFINE S == {w[k] : k \in 1..m}
  <2>2. w \in [1..m -> S]
    BY <2>1
  <2> HIDE DEF w, S
  <2>3. w \in Seq(S) /\ Len(w) = m
    BY <2>2
  <2>4. w = [k \in 1..m |-> w[k]]
    BY <2>2
  <2> QED
    BY <2>1, <2>3, <2>4 DEF IsList
<1>4. \A k \in 1..Len(w) : IsTuple(w[k])
  BY <1>1, <1>2, <1>3
<1> HIDE DEF w
<1>5. IsTuple(FlattenSeq(w))
  BY <1>3, <1>4, ListIsSeq, FlattenIsTuple
<1> QED
  BY <1>5 DEF Projected, w

-----------------------------------------------------------------------------
(* The list operations, one tuple at a time.                               *)

LEMMA MatchingEmpty ==
    ASSUME NEW n
    PROVE  Matching(n, <<>>) = <<>> /\ Projections(n, <<>>) = <<>>
<1>1. \A K : Kept(<<>>, K) = <<>>
  <2> SUFFICES ASSUME NEW K PROVE Kept(<<>>, K) = <<>>
    OBVIOUS
  <2>1. Len(<<>>) = 0
    OBVIOUS
  <2>2. PICK f : KeptUpTo(<<>>, K, f) /\ Kept(<<>>, K) = f[0]
    BY <2>1, KeptIs
  <2> QED
    BY <2>2, EmptyIsSeq, KeptSteps
<1>2. [k \in DOMAIN <<>> |-> Projected(n, <<>>[k])] = <<>>
  OBVIOUS
<1> QED
  BY <1>1, <1>2 DEF Matching, Projections

LEMMA MatchingOneMore ==
    ASSUME NEW n, NEW s, NEW x, IsSeq(s)
    PROVE  Matching(n, Append(s, x)) = IF SelectionMatches(n, x) THEN Append(Matching(n, s), x)
                                       ELSE Matching(n, s)
<1>1. PICK t : t = Append(s, x)
  OBVIOUS
<1>2. /\ IsSeq(t) /\ Len(s) \in Nat /\ Len(t) = Len(s) + 1 /\ t[Len(t)] = x
      /\ DOMAIN t = 1..Len(t) /\ DOMAIN s = 1..Len(s)
      /\ \A k \in 1..Len(s) : t[k] = s[k]
  BY <1>1, SeqLen, AppendIsSeq
<1> DEFINE K == {k \in DOMAIN s : SelectionMatches(n, s[k])}
           L == {k \in DOMAIN t : SelectionMatches(n, t[k])}
<1>3. \A k \in 1..Len(s) : s[k] = t[k] /\ (k \in K <=> k \in L)
  BY <1>2
<1>4. Len(t) \in L <=> SelectionMatches(n, x)
  BY <1>2
<1> HIDE DEF K, L
<1>5. Kept(t, L) = IF Len(t) \in L THEN Append(Kept(s, K), t[Len(t)]) ELSE Kept(s, K)
  BY <1>2, <1>3, KeptOneMore
<1> QED
  BY <1>1, <1>2, <1>4, <1>5 DEF Matching, K, L

LEMMA ProjectionSeq ==
    ASSUME NEW n, NEW s, IsSeq(s)
    PROVE  LET p == [k \in DOMAIN s |-> Projected(n, s[k])]
           IN  IsSeq(p) /\ Len(p) = Len(s) /\ DOMAIN p = DOMAIN s
<1>1. PICK m \in Nat : m = Len(s) /\ DOMAIN s = 1..m
  BY SeqLen
<1> DEFINE p == [k \in DOMAIN s |-> Projected(n, s[k])]
           S == {p[k] : k \in 1..m}
<1>2. p \in [1..m -> S]
  BY <1>1
<1>3. p \in Seq(S) /\ Len(p) = m
  BY <1>2
<1> QED
  BY <1>1, <1>3 DEF IsSeq

LEMMA ProjectionsOneMore ==
    ASSUME NEW n, NEW s, NEW x, IsSeq(s)
    PROVE  Projections(n, Append(s, x)) =
             IF Projected(n, x) # <<>> THEN Append(Projections(n, s), Projected(n, x)) ELSE Projections(n, s)
<1>1. PICK t : t = Append(s, x)
  OBVIOUS
<1>2. /\ IsSeq(t) /\ Len(s) \in Nat /\ Len(t) = Len(s) + 1 /\ t[Len(t)] = x
      /\ DOMAIN t = 1..Len(t) /\ DOMAIN s = 1..Len(s)
      /\ \A k \in 1..Len(s) : t[k] = s[k]
  BY <1>1, SeqLen, AppendIsSeq
<1> DEFINE p == [k \in DOMAIN s |-> Projected(n, s[k])]
           q == [k \in DOMAIN t |-> Projected(n, t[k])]
           K == {k \in DOMAIN s : p[k] # <<>>}
           L == {k \in DOMAIN t : q[k] # <<>>}
<1>3. IsSeq(p) /\ Len(p) = Len(s) /\ IsSeq(q) /\ Len(q) = Len(t)
  BY <1>2, ProjectionSeq
<1>4. \A k \in 1..Len(s) : p[k] = q[k] /\ (k \in K <=> k \in L)
  BY <1>2
<1>5. q[Len(t)] = Projected(n, x) /\ (Len(t) \in L <=> Projected(n, x) # <<>>)
  BY <1>2
<1>6. Projections(n, s) = Kept(p, K) /\ Projections(n, t) = Kept(q, L)
  BY DEF Projections
<1> HIDE DEF p, q, K, L
<1>7. Kept(q, L) = IF Len(q) \in L THEN Append(Kept(p, K), q[Len(q)]) ELSE Kept(p, K)
  BY <1>2, <1>3, <1>4, KeptOneMore
<1> QED
  BY <1>1, <1>3, <1>5, <1>6, <1>7

LEMMA MatchingBegins ==
    ASSUME NEW n, NEW s, NEW t, IsSeq(s), IsSeq(t), Begins(s, t)
    PROVE  Begins(Matching(n, s), Matching(n, t)) /\ Begins(Projections(n, s), Projections(n, t))
<1>1. /\ DOMAIN s = 1..Len(s) /\ DOMAIN t = 1..Len(t) /\ Len(s) \in Nat /\ Len(t) \in Nat
      /\ Len(s) <= Len(t) /\ \A k \in 1..Len(s) : s[k] = t[k] /\ k \in 1..Len(t)
  BY SeqLen DEF Begins
<1>2. Begins(Matching(n, s), Matching(n, t))
  <2> DEFINE K == {k \in DOMAIN s : SelectionMatches(n, s[k])}
             L == {k \in DOMAIN t : SelectionMatches(n, t[k])}
  <2>1. \A k \in 1..Len(s) : k \in K <=> k \in L
    BY <1>1
  <2> HIDE DEF K, L
  <2>2. Begins(Kept(s, K), Kept(t, L))
    BY <2>1, KeptBegins
  <2> QED
    BY <2>2 DEF Matching, K, L
<1>3. Begins(Projections(n, s), Projections(n, t))
  <2> DEFINE p == [k \in DOMAIN s |-> Projected(n, s[k])]
             q == [k \in DOMAIN t |-> Projected(n, t[k])]
             K == {k \in DOMAIN s : p[k] # <<>>}
             L == {k \in DOMAIN t : q[k] # <<>>}
  <2>1. \A k \in 1..Len(s) : p[k] = q[k] /\ (k \in K <=> k \in L)
    BY <1>1
  <2>2. IsSeq(p) /\ Len(p) = Len(s) /\ IsSeq(q) /\ Len(q) = Len(t)
    BY ProjectionSeq
  <2>3. Projections(n, s) = Kept(p, K) /\ Projections(n, t) = Kept(q, L)
    BY DEF Projections
  <2> HIDE DEF p, q, K, L
  <2>4. Begins(p, q)
    BY <1>1, <2>1, <2>2 DEF Begins
  <2>5. Begins(Kept(p, K), Kept(q, L))
    BY <2>1, <2>2, <2>4, KeptBegins
  <2> QED
    BY <2>3, <2>5
<1> QED
  BY <1>2, <1>3

\* What selects or projects tuples gives tuples.
LEMMA MatchingIsTable ==
    ASSUME NEW n, NEW s, IsTable(s)
    PROVE  IsTable(Matching(n, s)) /\ (IsList(n.names) => IsTable(Projections(n, s)))
<1>1. IsSeq(s) /\ \A k \in 1..Len(s) : IsTuple(s[k])
  BY DEF IsTable
<1>2. \A u : IsTable(u) <=> IsSeq(u) /\ \A k \in 1..Len(u) : IsTuple(u[k])
  BY DEF IsTable
<1>3. IsTable(Matching(n, s))
  <2>1. PICK K, u : u = Kept(s, K) /\ Matching(n, s) = u
    BY DEF Matching
  <2>2. IsSeq(u) /\ \A m \in 1..Len(u) : \E l \in K \cap 1..Len(s) : u[m] = s[l]
    BY <1>1, <2>1, KeptElements
  <2> QED
    BY <1>1, <1>2, <2>1, <2>2
<1>4. ASSUME IsList(n.names) PROVE IsTable(Projections(n, s))
  <2> DEFINE p == [k \in DOMAIN s |-> Projected(n, s[k])]
  <2>1. IsSeq(p) /\ Len(p) = Len(s) /\ DOMAIN s = 1..Len(s)
    BY <1>1, ProjectionSeq, SeqLen
  <2>2. \A k \in 1..Len(p) : IsTuple(p[k])
    BY <1>1, <1>4, <2>1, ProjectedIsTuple
  <2>3. PICK K : Projections(n, s) = Kept(p, K)
    BY DEF Projections
  <2> HIDE DEF p
  <2>4. PICK u : u = Kept(p, K)
    OBVIOUS
  <2>5. IsSeq(u) /\ \A m \in 1..Len(u) : \E l \in K \cap 1..Len(p) : u[m] = p[l]
    BY <2>1, <2>4, KeptElements
  <2> QED
    BY <1>2, <2>2, <2>3, <2>4, <2>5
<1> QED
  BY <1>3, <1>4

-----------------------------------------------------------------------------
(* Every list of tuples with the sort key can be sorted.                   *)

LEMMA Least ==
    ASSUME NEW S \in SUBSET Nat, S # {}
    PROVE  \E n \in S : \A m \in S : n <= m
<1>1. IsWellFoundedOn(OpToRel(<, Nat), Nat)
  BY NatLessThanWellFounded
<1>2. PICK n \in S : \A m \in S : <<m, n>> \notin OpToRel(<, Nat)
  BY <1>1, WFMin
<1>3. \A m \in S : ~(m < n) /\ m \in Nat /\ n \in Nat
  BY <1>2 DEF OpToRel
<1> QED
  BY <1>3

\* The order is one.
LEMMA PrecedesIsOrder ==
    ASSUME NEW n, NEW t, NEW u, NEW v, IsTuple(t), IsTuple(u), IsTuple(v),
           HasSortKey(n, t), HasSortKey(n, u), HasSortKey(n, v)
    PROVE  /\ ~Precedes(n, t, t)
           /\ Precedes(n, t, u) /\ Precedes(n, u, v) => Precedes(n, t, v)
<1>1. PICK a \in Nat, b \in Nat : SortKey(n, t) = <<a, b>>
  BY SortKeyIsData
<1>2. PICK c \in Nat, d \in Nat : SortKey(n, u) = <<c, d>>
  BY SortKeyIsData
<1>3. PICK e \in Nat, f \in Nat : SortKey(n, v) = <<e, f>>
  BY SortKeyIsData
<1>4. \A x, y, z, w \in Nat : Less(<<x, y>>, <<z, w>>) <=> x < z \/ (x = z /\ y < w)
  BY DEF Less
<1> QED
  BY <1>1, <1>2, <1>3, <1>4 DEF Precedes

LEMMA SortingExists ==
    ASSUME NEW n, NEW s, IsTable(s), \A k \in 1..Len(s) : HasSortKey(n, s[k])
    PROVE  Sortings(n, s) # {}
<1> DEFINE Sorted(f, m) == /\ f \in [1..m -> 1..m]
                           /\ \A a, b \in 1..m : f[a] = f[b] => a = b
                           /\ \A c \in 1..m : \E a \in 1..m : f[a] = c
                           /\ \A a, b \in 1..m : a < b => ~Precedes(n, s[f[b]], s[f[a]])
           S == {m \in Nat : m <= Len(s) => \E f : Sorted(f, m)}
<1>1. Len(s) \in Nat /\ DOMAIN s = 1..Len(s) /\ \A k \in 1..Len(s) : IsTuple(s[k])
  BY SeqLen DEF IsTable
<1>2. \E f : Sorted(f, 0)
  <2> DEFINE f == [k \in 1..0 |-> k]
  <2>1. f \in [1..0 -> 1..0] /\ \A k \in 1..0 : FALSE
    OBVIOUS
  <2>2. Sorted(f, 0)
    BY <2>1
  <2> QED
    BY <2>2
<1>3. ASSUME NEW m \in Nat, NEW f, Sorted(f, m), m + 1 <= Len(s) PROVE \E h : Sorted(h, m + 1)
  <2>1. Sorted(f, m)
    BY <1>3
  <2>2. PICK x : x = s[m + 1]
    OBVIOUS
  <2> DEFINE J == {k \in 1..m : Precedes(n, x, s[f[k]])} \cup {m + 1}
\* The new tuple goes before the first one it precedes.
  <2>3. PICK j \in J : \A k \in J : j <= k
    <3>1. J \in SUBSET Nat /\ J # {}
      OBVIOUS
    <3> QED
      BY <3>1, Least
  <2>4. /\ j \in 1..(m + 1)
        /\ j # m + 1 => j \in 1..m /\ Precedes(n, x, s[f[j]])
        /\ \A k \in 1..m : k < j => ~Precedes(n, x, s[f[k]])
    BY <2>3
  <2> HIDE DEF J
  <2> DEFINE g == [k \in 1..(m + 1) |-> IF k < j THEN f[k] ELSE IF k = j THEN m + 1 ELSE f[k - 1]]
  <2>5. \A k \in 1..(m + 1) : \/ k < j /\ k \in 1..m /\ g[k] = f[k]
                              \/ k = j /\ g[k] = m + 1
                              \/ k > j /\ k - 1 \in 1..m /\ k - 1 >= j /\ g[k] = f[k - 1]
    BY <2>4
  <2>6. \A k \in 1..m : f[k] \in 1..m /\ f[k] # m + 1
    BY <2>1
  <2>7. g \in [1..(m + 1) -> 1..(m + 1)]
    <3>1. \A k \in 1..(m + 1) : g[k] \in 1..(m + 1)
      BY <2>5, <2>6
    <3> QED
      BY <3>1
  <2> HIDE DEF g
  <2>8. ASSUME NEW a \in 1..(m + 1), NEW b \in 1..(m + 1), g[a] = g[b] PROVE a = b
    <3>1. \A c, d \in 1..m : f[c] = f[d] => c = d
      BY <2>1
    <3> QED
      BY <2>4, <2>5, <2>6, <2>8, <3>1
  <2>9. ASSUME NEW c \in 1..(m + 1) PROVE \E a \in 1..(m + 1) : g[a] = c
    <3>1. CASE c = m + 1
      BY <2>4, <2>5, <3>1
    <3>2. CASE c # m + 1
      <4>1. PICK a \in 1..m : f[a] = c
        BY <2>1, <3>2
      <4>2. CASE a < j
        <5>1. a \in 1..(m + 1) /\ g[a] = f[a]
          BY <2>4, <2>5, <4>2
        <5> QED
          BY <4>1, <5>1
      <4>3. CASE ~(a < j)
        <5>1. a + 1 \in 1..(m + 1) /\ a + 1 > j /\ (a + 1) - 1 = a
          BY <2>4, <4>3
        <5>2. g[a + 1] = f[a]
          BY <2>4, <2>5, <5>1
        <5> QED
          BY <4>1, <5>1, <5>2
      <4> QED
        BY <4>2, <4>3
    <3> QED
      BY <3>1, <3>2
\* What follows position j does not precede the new tuple.
  <2>10. /\ IsTuple(x) /\ HasSortKey(n, x)
         /\ \A k \in 1..m : IsTuple(s[f[k]]) /\ HasSortKey(n, s[f[k]])
    <3>1. m + 1 \in 1..Len(s) /\ \A k \in 1..m : k \in 1..Len(s)
      BY <1>1, <1>3
    <3> QED
      BY <1>1, <2>2, <2>6, <3>1
  <2>11. ASSUME NEW k \in 1..m, k >= j PROVE ~Precedes(n, s[f[k]], x)
    <3>1. j \in 1..m /\ Precedes(n, x, s[f[j]])
      BY <2>4, <2>11
    <3>2. CASE k = j
      BY <2>10, <3>1, <3>2, PrecedesIsOrder
    <3>3. CASE k # j
      <4>1. ~Precedes(n, s[f[k]], s[f[j]])
        BY <2>1, <2>4, <2>11, <3>1, <3>3
      <4> QED
        BY <2>10, <3>1, <4>1, PrecedesIsOrder
    <3> QED
      BY <3>2, <3>3
  <2>12. ASSUME NEW a \in 1..(m + 1), NEW b \in 1..(m + 1), a < b
         PROVE  ~Precedes(n, s[g[b]], s[g[a]])
    <3>1. \A c, d \in 1..m : c < d => ~Precedes(n, s[f[d]], s[f[c]])
      BY <2>1
    <3>2. CASE a < j
      <4>1. a \in 1..m /\ g[a] = f[a]
        BY <2>4, <2>5, <3>2
      <4>2. CASE b < j
        BY <2>4, <2>5, <2>12, <3>1, <4>1, <4>2
      <4>3. CASE b = j
        BY <2>2, <2>4, <2>5, <3>2, <4>1, <4>3
      <4>4. CASE b > j
        <5>1. b - 1 \in 1..m /\ g[b] = f[b - 1] /\ a < b - 1
          BY <2>4, <2>5, <3>2, <4>4
        <5> QED
          BY <3>1, <4>1, <5>1
      <4> QED
        BY <2>4, <4>2, <4>3, <4>4
    <3>3. CASE a = j
      <4>1. g[a] = m + 1 /\ b - 1 \in 1..m /\ b - 1 >= j /\ g[b] = f[b - 1]
        BY <2>4, <2>5, <2>12, <3>3
      <4> QED
        BY <2>2, <2>11, <4>1
    <3>4. CASE a > j
      <4>1. a - 1 \in 1..m /\ b - 1 \in 1..m /\ a - 1 < b - 1 /\ g[a] = f[a - 1] /\ g[b] = f[b - 1]
        BY <2>4, <2>5, <2>12, <3>4
      <4> QED
        BY <3>1, <4>1
    <3> QED
      BY <2>4, <3>2, <3>3, <3>4
  <2>13. Sorted(g, m + 1)
    BY <2>7, <2>8, <2>9, <2>12
  <2> QED
    BY <2>13
<1> HIDE DEF Sorted
<1>4. 0 \in S /\ \A m \in Nat : m \in S => m + 1 \in S
  <2>1. 0 \in S
    BY <1>2
  <2>2. ASSUME NEW m \in Nat, m \in S, m + 1 <= Len(s) PROVE \E f : Sorted(f, m + 1)
    <3>1. m <= Len(s)
      BY <1>1, <2>2
    <3>2. PICK f : Sorted(f, m)
      BY <2>2, <3>1
    <3> QED
      BY <1>3, <2>2, <3>2
  <2> QED
    BY <2>1, <2>2
<1>5. Nat \subseteq S
  BY <1>4, Induction
<1>6. PICK f : Sorted(f, Len(s))
  BY <1>1, <1>5
<1>7. f \in Bijection(DOMAIN s, DOMAIN s)
  BY <1>1, <1>6 DEF Sorted, Bijection, Injection, Surjection, IsInjective
<1> DEFINE p == [k \in DOMAIN s |-> s[f[k]]]
<1>8. InOrder(n, p)
  BY <1>1, <1>6 DEF InOrder, Sorted
<1> HIDE DEF p
<1>9. p \in Sortings(n, s)
  BY <1>7, <1>8 DEF Sortings, p
<1> QED
  BY <1>9

LEMMA SortingIsTable ==
    ASSUME NEW n, NEW s, IsTable(s), NEW p \in Sortings(n, s)
    PROVE  IsTable(p)
<1>1. IsSeq(s) /\ \A k \in 1..Len(s) : IsTuple(s[k])
  BY DEF IsTable
<1>2. PICK f \in [DOMAIN s -> DOMAIN s] :
              /\ \A a \in DOMAIN s : p[a] = s[f[a]]
              /\ DOMAIN p = DOMAIN s /\ Len(p) = Len(s) /\ IsSeq(p)
              /\ Len(s) \in Nat /\ DOMAIN s = 1..Len(s)
  BY <1>1, SortingLen
<1> QED
  BY <1>1, <1>2 DEF IsTable

-----------------------------------------------------------------------------
(* What a query means.                                                     *)

LEMMA AnswersIs ==
    ASSUME plan \in Plans, NEW i \in Nodes
    PROVE  Answers[i] = IF Reads(i) THEN UNION {Meaning(Node(i), s) : s \in Answers[Child(i)]} ELSE {tuples}
<1> DEFINE Low(j) == {x \in Nodes : x <= j}
           Body(f, x) == IF Node(x).kind = "scan" THEN {tuples} ELSE UNION {Meaning(Node(x), s) : s \in f[Child(x)]}
           P(j) == \E f : f = [x \in Low(j) |-> Body(f, x)]
           S == {j \in Nat : P(j)}
<1>1. PICK n \in Nat : Nodes = 1..n
  BY PlanAssumption DEF Nodes
<1>2. \A x \in Nodes : Reads(x) => Child(x) \in Nodes /\ Child(x) < x /\ x \in Nat /\ Child(x) \in Nat
  BY PlanFacts
<1>3. P(0)
  <2> DEFINE f == [x \in Low(0) |-> {}]
  <2>1. Low(0) = {}
    BY <1>1
  <2>2. f = [x \in Low(0) |-> Body(f, x)]
    BY <2>1
  <2> QED
    BY <2>2
<1>4. ASSUME NEW j \in Nat, P(j) PROVE P(j + 1)
  <2>1. PICK f : f = [x \in Low(j) |-> Body(f, x)]
    BY <1>4
  <2>2. Low(j) \subseteq Low(j + 1)
    BY <1>1
  <2>3. \A x \in Low(j + 1) : Node(x).kind # "scan" => Child(x) \in Low(j)
    BY <1>1, <1>2 DEF Reads
  <2> HIDE DEF Low, Body
  <2> DEFINE g == [x \in Low(j + 1) |-> Body(f, x)]
  <2>4. \A x \in Low(j) : f[x] = g[x]
    <3>1. \A x \in Low(j) : f[x] = Body(f, x)
      BY <2>1, Zenon
    <3> QED
      BY <2>2, <3>1
  <2> HIDE DEF g
  <2>5. \A x \in Low(j + 1) : Body(f, x) = Body(g, x)
    BY <2>3, <2>4 DEF Body
  <2>6. g = [x \in Low(j + 1) |-> Body(g, x)]
    BY <2>5 DEF g
  <2> QED
    BY <2>6
<1> HIDE DEF P
<1>5. 0 \in S /\ \A j \in Nat : j \in S => j + 1 \in S
  BY <1>3, <1>4
<1>6. Nat \subseteq S
  BY <1>5, Induction
<1>7. P(n)
  BY <1>6
<1>8. Low(n) = Nodes
  BY <1>1
<1> HIDE DEF Low, Body
<1>9. \E f : f = [x \in Nodes |-> Body(f, x)]
  BY <1>7, <1>8 DEF P
<1>10. Answers = CHOOSE f : f = [x \in Nodes |-> Body(f, x)]
  BY DEF Answers, Body
<1>11. Answers = [x \in Nodes |-> Body(Answers, x)]
  BY <1>9, <1>10
<1>12. Answers[i] = Body(Answers, i)
  BY <1>11, Zenon
<1> QED
  BY <1>12 DEF Reads, Body

\* The nodes below come before.
LEMMA BelowIsLess ==
    ASSUME plan \in Plans, NEW i \in Nodes
    PROVE  \A x \in Below[i] : x \in Nodes /\ x < i
<1> DEFINE S == {j \in Nat : \A k \in Nodes : k <= j => \A x \in Below[k] : x \in Nodes /\ x < k}
<1>1. \A k \in Nodes : k \in Nat /\ k > 0
  BY PlanAssumption DEF Nodes
<1>2. 0 \in S
  BY <1>1
<1>3. ASSUME NEW j \in Nat, j \in S, NEW k \in Nodes, k <= j + 1, NEW x \in Below[k]
      PROVE  x \in Nodes /\ x < k
  <2>1. Below[k] = IF Reads(k) THEN {Child(k)} \cup Below[Child(k)] ELSE {}
    BY BelowIs
  <2>2. Reads(k) /\ Child(k) \in Nodes /\ Child(k) < k
    BY <1>3, <2>1, PlanFacts
  <2>3. k \in Nat /\ Child(k) \in Nat /\ Child(k) <= j
    BY <1>1, <1>3, <2>2
  <2>4. \A y \in Below[Child(k)] : y \in Nodes /\ y < Child(k)
    BY <1>3, <2>2, <2>3
  <2>5. CASE x = Child(k)
    BY <2>2, <2>5
  <2>6. CASE x \in Below[Child(k)]
    <3>1. x \in Nodes /\ x < Child(k) /\ x \in Nat
      BY <1>1, <2>4, <2>6
    <3> QED
      BY <2>2, <2>3, <3>1
  <2> QED
    BY <1>3, <2>1, <2>2, <2>5, <2>6
<1>4. \A j \in Nat : j \in S => j + 1 \in S
  BY <1>3
<1>5. Nat \subseteq S
  BY <1>2, <1>4, Induction
<1>6. i \in Nat /\ i <= i
  BY <1>1
<1> QED
  BY <1>5, <1>6

\* An exclusive node is the only one that takes from its child, which is exclusive.
LEMMA OnlyReader ==
    ASSUME plan \in Plans, NEW i \in Nodes, Reads(i), Exclusive(i)
    PROVE  /\ Child(i) \notin plan.handles
           /\ \A j \in Nodes : Reads(j) /\ Child(j) = Child(i) => j = i
           /\ Exclusive(Child(i))
<1>1. PICK c \in Nodes : c = Child(i) /\ c < i
  BY PlanFacts
<1>2. Below[i] = {c} \cup Below[c]
  BY <1>1, BelowIs
<1>3. \A x \in Below[c] : x \in Nodes /\ x < c
  BY BelowIsLess
<1>4. \A j \in Nodes : j \in Nat
  BY NodesAreNumbers
<1>5. \A d \in Below[i] : d \notin plan.handles /\ \A j \in Nodes : Reads(j) /\ Child(j) = d => j \in {i} \cup Below[i]
  BY DEF Exclusive, Readers, Reads
<1>6. \A j \in Nodes : Reads(j) => Child(j) < j
  BY PlanFacts
<1>7. ASSUME NEW j \in Nodes, Reads(j), Child(j) = c PROVE j = i
  <2>1. j \in {i} \cup {c} \cup Below[c]
    BY <1>2, <1>5, <1>7
  <2>2. c < j /\ j \in Nat /\ c \in Nat
    BY <1>4, <1>6, <1>7
  <2> QED
    BY <1>3, <2>1, <2>2
<1>8. ASSUME NEW d \in Below[c] PROVE d \notin plan.handles /\ Readers(d) \subseteq {c} \cup Below[c]
  <2>1. d \in Nodes /\ d < c /\ d \in Nat /\ c \in Nat
    BY <1>3, <1>4, <1>8
  <2>2. i \notin Readers(d)
    BY <1>1, <2>1 DEF Readers
  <2>3. d \notin plan.handles /\ Readers(d) \subseteq {i} \cup Below[i]
    BY <1>2, <1>8 DEF Exclusive
  <2> QED
    BY <1>2, <2>2, <2>3
<1>9. Exclusive(c)
  BY <1>8 DEF Exclusive
<1> QED
  BY <1>1, <1>2, <1>5, <1>7, <1>9

\* A call in progress is below all calls before it.
LEMMA CallsAreBelow ==
    ASSUME QInv, NEW k \in DOMAIN frames, NEW m \in DOMAIN frames, k < m
    PROVE  frames[m] \in Below[frames[k]]
<1>1. PICK n \in Nat : n = Len(frames) /\ DOMAIN frames = 1..n /\ \A l \in 1..n : frames[l] \in Nodes
  BY DEF QInv, Types
<1>2. \A l \in 1..n : l + 1 \in 1..n =>
        frames[l + 1] \in Below[frames[l]] /\ Below[frames[l + 1]] \subseteq Below[frames[l]]
  <2>1. ASSUME NEW l \in 1..n, l + 1 \in 1..n
        PROVE  frames[l + 1] \in Below[frames[l]] /\ Below[frames[l + 1]] \subseteq Below[frames[l]]
    <3>1. Reads(frames[l]) /\ frames[l + 1] = Child(frames[l]) /\ frames[l] \in Nodes /\ plan \in Plans
      BY <1>1, <2>1 DEF QInv, Descent, Types
    <3>2. Below[frames[l]] = {frames[l + 1]} \cup Below[frames[l + 1]]
      BY <3>1, BelowIs
    <3> QED
      BY <3>2
  <2> QED
    BY <2>1
<1> DEFINE S == {d \in Nat : \A l \in 1..n : (l + d) + 1 \in 1..n => frames[(l + d) + 1] \in Below[frames[l]]}
<1>3. 0 \in S
  <2>1. \A l \in 1..n : l + 0 = l
    OBVIOUS
  <2> QED
    BY <1>2, <2>1
<1>4. ASSUME NEW d \in Nat, d \in S, NEW l \in 1..n, (l + (d + 1)) + 1 \in 1..n
      PROVE  frames[(l + (d + 1)) + 1] \in Below[frames[l]]
  <2>1. l + 1 \in 1..n /\ ((l + 1) + d) + 1 = (l + (d + 1)) + 1
    BY <1>4
  <2>2. frames[((l + 1) + d) + 1] \in Below[frames[l + 1]]
    BY <1>4, <2>1
  <2> QED
    BY <1>2, <2>1, <2>2
<1>5. ASSUME NEW d \in Nat, d \in S PROVE d + 1 \in S
  <2>1. \A l \in 1..n : (l + (d + 1)) + 1 \in 1..n => frames[(l + (d + 1)) + 1] \in Below[frames[l]]
    BY <1>4, <1>5
  <2>2. d + 1 \in Nat
    OBVIOUS
  <2> QED
    BY <2>1, <2>2
<1> HIDE DEF S
<1>6. \A d \in Nat : d \in S
  BY <1>3, <1>5, Induction
<1> USE DEF S
<1>7. k \in 1..n /\ m \in 1..n /\ (m - k) - 1 \in Nat /\ (k + ((m - k) - 1)) + 1 = m
  BY <1>1
<1> QED
  BY <1>6, <1>7

-----------------------------------------------------------------------------
(* What a node has taken from its child, and what it has made of it.       *)

\* Nobody else takes what node i reads, and nothing below it went wrong.
Own(i) == Reads(i) /\ Exclusive(i) /\ ~Disturbed(i)

Waiting(i) == \E k \in DOMAIN frames : frames[k] = i /\ Waits(k)

\* What the child has returned and node i has not looked at yet.
Inflight(i) == IF frames # <<>> /\ returned /\ Top = i THEN reply ELSE <<>>

\* The state of node i once it has looked at the tuples t of its child.
Edge(i, t) ==
    LET n == Node(i)
        taken == Len(t) + limit[i] + (IF Waiting(i) THEN 1 ELSE 0)
    IN  /\ n.kind = "limit" => /\ out[i] = t /\ taken <= n.limit
                               /\ Child(i) \in ended \/ taken = n.limit
        /\ n.kind = "selection" => out[i] = Matching(n, t)
        /\ n.kind = "projection" => out[i] = Projections(n, t)
        /\ n.kind = "sort" =>
              /\ \A k \in 1..Len(t) : HasSortKey(n, t[k])
              /\ IF record[i] = 0 THEN out[i] = <<>> /\ sorted[i] = t
                 ELSE /\ Child(i) \in ended /\ sorted[i] \in Sortings(n, t)
                      /\ Begins(out[i], sorted[i]) /\ Len(out[i]) = record[i] - 1

ScanIsAt == \A i \in Nodes : ~Reads(i) => Begins(out[i], tuples) /\ Len(out[i]) = current - 1
CallerHolds == frames # <<>> => frames[1] \in plan.handles
Edges == \A i \in Nodes : Own(i) => \E t : IsSeq(t) /\ out[Child(i)] = t \o Inflight(i) /\ Edge(i, t)

RInv == DOMAIN limit = Nodes /\ ScanIsAt /\ CallerHolds /\ Edges

\* The step of node j looks at the tuple its child has returned, if any.
Looks(j) == \A t, u : IsSeq(t) /\ IsSeq(u) /\ u = out[Child(j)] /\ u = t \o Inflight(j) /\ Edge(j, t)
                         => Edge(j, u)'

LEMMA OwnBefore ==
    ASSUME UNCHANGED plan, gap \subseteq gap', threw \subseteq threw', NEW i, Own(i)'
    PROVE  Own(i)
<1>1. Below' = Below /\ Nodes' = Nodes /\ Reads(i)' = Reads(i)
  BY DEF Below, Nodes, Node, Child, Reads
<1>2. \A c : Readers(c)' = Readers(c)
  BY DEF Readers, Nodes, Node, Child
<1> QED
  BY <1>1, <1>2 DEF Own, Exclusive, Disturbed

LEMMA EdgeStays ==
    ASSUME UNCHANGED plan, ended \subseteq ended', NEW i, NEW t, Edge(i, t),
           out'[i] = out[i], limit'[i] = limit[i], sorted'[i] = sorted[i], record'[i] = record[i],
           Waiting(i)' <=> Waiting(i)
    PROVE  Edge(i, t)'
<1>1. Node(i)' = Node(i) /\ Child(i)' = Child(i)
  BY DEF Node, Child
<1> QED
  BY <1>1 DEF Edge

LEMMA NothingInflight == ASSUME NEW t, NEW i, IsSeq(t), Inflight(i) = <<>> PROVE t \o Inflight(i) = t
<1>1. PICK S : t \in Seq(S)
  BY DEF IsSeq
<1>2. t \o <<>> = t
  BY <1>1
<1> QED
  BY <1>2

\* A call of the child: the caller has looked at what it has.
LEMMA PullEdges ==
    ASSUME QInv, RInv, NEW j \in Nodes, frames # <<>>, j = Top, Reads(j), Pull(j),
           UNCHANGED <<plan, tuples, current, record, out, ended, gap, threw>>,
           DOMAIN limit' = DOMAIN limit,
           \A i \in Nodes \ {j} : limit'[i] = limit[i] /\ sorted'[i] = sorted[i],
           Looks(j)
    PROVE  RInv'
<1>1. PICK n \in Nat \ {0} :
              /\ n = Len(frames) /\ DOMAIN frames = 1..n /\ frames[n] = j
              /\ Len(frames') = n + 1 /\ DOMAIN frames' = 1..(n + 1) /\ frames' # <<>>
              /\ frames'[n + 1] = Child(j)
              /\ \A k \in 1..n : frames[k] \in Nodes /\ frames'[k] = frames[k]
  BY Deeper DEF Pull
<1>2. /\ Nodes' = Nodes /\ ~returned' /\ plan \in Plans
      /\ \A i : Node(i)' = Node(i) /\ Child(i)' = Child(i) /\ Reads(i)' = Reads(i)
      /\ \A i : Own(i)' => Own(i)
  BY OwnBefore DEF Nodes, Node, Child, Reads, Pull, QInv, Types
<1>3. \A i : Inflight(i)' = <<>>
  BY <1>2 DEF Inflight
<1>4. \A i \in Nodes \ {j} : Inflight(i) = <<>>
  BY DEF Inflight
<1>5. ASSUME NEW i \in Nodes \ {j} PROVE Waiting(i)' <=> Waiting(i)
  <2>1. \A k \in DOMAIN frames' : Waits(k)' => k \in 1..n
    BY <1>1, <1>2 DEF Waits
  <2>2. \A k \in 1..n : Waits(k)' /\ (k # n => Waits(k))
    BY <1>1 DEF Waits
  <2>3. \A k \in 1..n : frames[k] = i => k # n
    BY <1>1
  <2> QED
    BY <1>1, <2>1, <2>2, <2>3 DEF Waiting
<1>6. ASSUME NEW i \in Nodes, Own(i)'
      PROVE  \E t : IsSeq(t) /\ out'[Child(i)'] = t \o Inflight(i)' /\ Edge(i, t)'
  <2>1. PICK t : IsSeq(t) /\ out[Child(i)] = t \o Inflight(i) /\ Edge(i, t)
    BY <1>2, <1>6 DEF RInv, Edges
  <2>2. PICK u : u = out[Child(i)]
    OBVIOUS
  <2>3. IsSeq(u)
    BY <1>2, <1>6, <2>2, PlanFacts DEF QInv, Types, Own
  <2>4. PICK S : u \in Seq(S)
    BY <2>3 DEF IsSeq
  <2>5. u = u \o <<>>
    BY <2>4
  <2>6. out'[Child(i)'] = u \o Inflight(i)'
    BY <1>2, <1>3, <2>2, <2>5
  <2>7. CASE i = j
    BY <2>1, <2>2, <2>3, <2>6, <2>7 DEF Looks
  <2>8. CASE i # j
    <3>1. u = t
      BY <1>4, <2>1, <2>2, <2>8, NothingInflight
    <3>2. Edge(i, u)'
      BY <1>5, <2>1, <2>8, <3>1, EdgeStays
    <3> QED
      BY <2>3, <2>6, <3>2
  <2> QED
    BY <2>7, <2>8
<1>7. ScanIsAt'
  BY <1>2 DEF RInv, ScanIsAt, Begins
<1>8. CallerHolds'
  <2>1. 1 \in 1..n
    BY <1>1
  <2> QED
    BY <1>1, <2>1 DEF RInv, CallerHolds
<1> QED
  BY <1>2, <1>6, <1>7, <1>8 DEF RInv, Edges

\* A return: the tuple is on its way to the only node that may take it.
LEMMA ReturnEdges ==
    ASSUME QInv, RInv, NEW j \in Nodes, frames # <<>>, j = Top, NEW r, IsSeq(r), Return(j, r),
           UNCHANGED <<plan, tuples, limit, threw>>, gap \subseteq gap',
           \A i \in Nodes \ {j} : sorted'[i] = sorted[i] /\ record'[i] = record[i],
           ScanIsAt',
           Reads(j) => Looks(j)
    PROVE  RInv'
<1>1. PICK n \in Nat \ {0} :
              /\ n = Len(frames) /\ DOMAIN frames = 1..n /\ frames[n] = j
              /\ Len(frames') = n - 1 /\ DOMAIN frames' = 1..(n - 1)
              /\ \A k \in 1..(n - 1) :
                    k \in 1..n /\ frames[k] \in Nodes /\ frames'[k] = frames[k] /\ frames[k] # j
              /\ frames' # <<>> => n - 1 \in 1..(n - 1) /\ Child(frames[n - 1]) = j
  BY Shallower DEF Return
<1>2. /\ Nodes' = Nodes /\ returned' /\ reply' = r /\ plan \in Plans
      /\ out' = [out EXCEPT ![j] = @ \o r] /\ ended \subseteq ended'
      /\ \A i : Node(i)' = Node(i) /\ Child(i)' = Child(i) /\ Reads(i)' = Reads(i)
      /\ \A i : Own(i)' => Own(i)
      /\ DOMAIN out = Nodes
  BY OwnBefore DEF Nodes, Node, Child, Reads, Return, QInv, Types
<1>3. frames' # <<>> => Top' = frames[n - 1] /\ n - 1 \in 1..n
  BY <1>1 DEF Top
<1>4. \A i \in Nodes \ {j} : Inflight(i) = <<>>
  BY DEF Inflight
<1>5. ASSUME NEW i \in Nodes \ {j} PROVE Waiting(i)' <=> Waiting(i)
  <2>1. \A k \in 1..(n - 1) : Waits(k)' /\ Waits(k)
    <3>1. \A k \in 1..(n - 1) : k < n
      BY <1>1
    <3> QED
      BY <1>1, <1>2, <3>1 DEF Waits
  <2>2. \A k \in 1..n : frames[k] = i => k \in 1..(n - 1)
    <3>1. \A k \in 1..n : k # n => k \in 1..(n - 1)
      BY <1>1
    <3> QED
      BY <1>1, <3>1
  <2> QED
    BY <1>1, <2>1, <2>2 DEF Waiting
<1>6. ASSUME NEW i \in Nodes, Own(i)'
      PROVE  \E t : IsSeq(t) /\ out'[Child(i)'] = t \o Inflight(i)' /\ Edge(i, t)'
  <2>1. PICK t : IsSeq(t) /\ out[Child(i)] = t \o Inflight(i) /\ Edge(i, t)
    BY <1>2, <1>6 DEF RInv, Edges
  <2>2. PICK u : u = out[Child(i)]
    OBVIOUS
  <2>3. Reads(i) /\ Exclusive(i) /\ Child(i) \in Nodes
    BY <1>2, <1>6, PlanFacts DEF Own
  <2>4. IsSeq(u)
    BY <2>2, <2>3 DEF QInv, Types
  <2>5. PICK S : u \in Seq(S)
    BY <2>4 DEF IsSeq
  <2>6. u = u \o <<>>
    BY <2>5
  <2>7. CASE i = j
    <3>1. Child(i) # j
      <4>1. PICK c : c = Child(i)
        OBVIOUS
      <4>2. c < i /\ i \in Nat /\ c \in Nat
        BY <1>2, <2>3, <4>1, PlanFacts
      <4> QED
        BY <2>7, <4>1, <4>2
    <3>2. out'[Child(i)'] = u
      BY <1>2, <2>2, <2>3, <3>1
    <3>3. Inflight(i)' = <<>>
      BY <1>1, <1>3, <2>7 DEF Inflight
    <3>4. Edge(i, u)'
      BY <2>1, <2>2, <2>3, <2>4, <2>7 DEF Looks
    <3> QED
      BY <2>4, <2>6, <3>2, <3>3, <3>4
  <2>8. CASE i # j
    <3>1. u = t
      BY <1>4, <2>1, <2>2, <2>8, NothingInflight
    <3>2. Edge(i, u)'
      <4>1. out'[i] = out[i]
        BY <1>2, <2>8
      <4> QED
        BY <1>2, <1>5, <2>1, <2>8, <3>1, <4>1, EdgeStays
    <3>3. CASE Child(i) = j
      <4>1. out'[Child(i)'] = u \o r
        BY <1>2, <2>2, <2>3, <3>3
      <4>2. frames' # <<>>
        <5>1. j \notin plan.handles
          BY <1>2, <2>3, <3>3, OnlyReader
        <5>2. n # 1
          BY <1>1, <5>1 DEF RInv, CallerHolds
        <5>3. Len(frames') # 0
          BY <1>1, <5>2
        <5> QED
          BY <5>3
      <4>3. Reads(frames[n - 1])
        <5>1. n - 1 \in 1..n /\ n \in 1..n /\ n = (n - 1) + 1
          BY <1>1, <1>3, <4>2
        <5> QED
          BY <1>1, <5>1 DEF QInv, Descent
      <4>4. frames[n - 1] = i
        <5>1. frames[n - 1] \in Nodes /\ Child(frames[n - 1]) = Child(i)
          BY <1>1, <3>3, <4>2
        <5>2. \A k \in Nodes : Reads(k) /\ Child(k) = Child(i) => k = i
          BY <1>2, <2>3, OnlyReader
        <5> QED
          BY <4>3, <5>1, <5>2
      <4>5. Inflight(i)' = r
        BY <1>2, <1>3, <4>2, <4>4 DEF Inflight
      <4> QED
        BY <2>4, <3>2, <4>1, <4>5
    <3>4. CASE Child(i) # j
      <4>1. out'[Child(i)'] = u
        BY <1>2, <2>2, <2>3, <3>4
      <4>2. Inflight(i)' = <<>>
        BY <1>1, <1>3, <3>4 DEF Inflight
      <4> QED
        BY <2>4, <2>6, <3>2, <4>1, <4>2
    <3> QED
      BY <3>3, <3>4
  <2> QED
    BY <2>7, <2>8
<1>7. CallerHolds'
  <2>1. frames' # <<>> => 1 \in 1..(n - 1)
    BY <1>1
  <2> QED
    BY <1>1, <2>1 DEF RInv, CallerHolds
<1> QED
  BY <1>2, <1>6, <1>7 DEF RInv, Edges

\* The end of all calls by a sort that threw: nobody above it counts any more.
LEMMA AbortEdges ==
    ASSUME QInv, RInv, NEW j \in Nodes, frames # <<>>, j = Top, frames' = <<>>, j \in threw',
           UNCHANGED <<plan, tuples, current, limit, sorted, record, out, ended, gap>>,
           threw \subseteq threw'
    PROVE  RInv'
<1>1. PICK n \in Nat \ {0} : n = Len(frames) /\ DOMAIN frames = 1..n /\ frames[n] = j
  BY DEF QInv, Types, Top
<1>2. /\ Nodes' = Nodes /\ plan \in Plans
      /\ \A i : Node(i)' = Node(i) /\ Child(i)' = Child(i) /\ Reads(i)' = Reads(i)
      /\ \A i : Own(i)' => Own(i)
      /\ Below' = Below
  BY OwnBefore DEF Below, Nodes, Node, Child, Reads, QInv, Types
<1>3. ASSUME NEW i \in Nodes, Own(i)'
      PROVE  \E t : IsSeq(t) /\ out'[Child(i)'] = t \o Inflight(i)' /\ Edge(i, t)'
  <2>1. PICK t : IsSeq(t) /\ out[Child(i)] = t \o Inflight(i) /\ Edge(i, t)
    BY <1>2, <1>3 DEF RInv, Edges
  <2>2. j \notin {i} \cup Below[i]
    BY <1>2, <1>3 DEF Own, Disturbed
  <2>3. ~Waiting(i)
    <3>1. ASSUME NEW k \in 1..n, frames[k] = i PROVE FALSE
      <4>1. k # n
        BY <1>1, <2>2, <3>1
      <4>2. k < n /\ n \in 1..n
        BY <4>1
      <4> QED
        BY <1>1, <2>2, <3>1, <4>2, CallsAreBelow
    <3> QED
      BY <1>1, <3>1 DEF Waiting
  <2>4. ~Waiting(i)' /\ Inflight(i)' = <<>>
    BY DEF Waiting, Inflight
  <2>5. Inflight(i) = <<>>
    BY <2>2 DEF Inflight
  <2>6. Edge(i, t)'
    BY <2>1, <2>3, <2>4, EdgeStays
  <2>7. out'[Child(i)'] = t \o Inflight(i)'
    BY <1>2, <2>1, <2>4, <2>5
  <2> QED
    BY <2>1, <2>6, <2>7
<1>4. ScanIsAt' /\ CallerHolds'
  BY <1>2 DEF RInv, ScanIsAt, CallerHolds, Begins
<1> QED
  BY <1>2, <1>3, <1>4 DEF RInv, Edges

\* The caller's call of an iterator it holds.
LEMMA CallEdges ==
    ASSUME QInv, RInv, NEW h \in plan.handles, Call(h)
    PROVE  RInv'
<1>1. /\ frames = <<>> /\ frames' = <<h>> /\ returned' = FALSE
      /\ UNCHANGED <<plan, tuples, current, limit, sorted, record, out, ended, gap, threw>>
  BY DEF Call, machine, history
<1>2. /\ Nodes' = Nodes
      /\ \A i : Node(i)' = Node(i) /\ Child(i)' = Child(i) /\ Reads(i)' = Reads(i)
      /\ \A i : Own(i)' => Own(i)
  BY <1>1, OwnBefore DEF Nodes, Node, Child, Reads
<1>3. Len(frames') = 1 /\ DOMAIN frames' = {1} /\ frames'[1] = h
  BY <1>1
<1>4. ASSUME NEW i \in Nodes, Own(i)'
      PROVE  \E t : IsSeq(t) /\ out'[Child(i)'] = t \o Inflight(i)' /\ Edge(i, t)'
  <2>1. PICK t : IsSeq(t) /\ out[Child(i)] = t \o Inflight(i) /\ Edge(i, t)
    BY <1>2, <1>4 DEF RInv, Edges
  <2>2. ~Waiting(i) /\ Inflight(i) = <<>>
    BY <1>1 DEF Waiting, Inflight
  <2>3. ~Waiting(i)' /\ Inflight(i)' = <<>>
    BY <1>1, <1>3 DEF Waiting, Inflight, Waits
  <2>4. Edge(i, t)'
    BY <1>1, <2>1, <2>2, <2>3, EdgeStays
  <2>5. out'[Child(i)'] = t \o Inflight(i)'
    BY <1>1, <1>2, <2>1, <2>2, <2>3
  <2> QED
    BY <2>1, <2>4, <2>5
<1>5. ScanIsAt' /\ CallerHolds'
  BY <1>1, <1>2, <1>3 DEF RInv, ScanIsAt, CallerHolds, Begins
<1> QED
  BY <1>1, <1>2, <1>4, <1>5 DEF RInv, Edges

\* What the innermost call has in hand.
LEMMA Handed ==
    ASSUME QInv, EInv, TInv, NEW j \in Nodes, frames # <<>>, j = Top
    PROVE  /\ ~returned => Inflight(j) = <<>> /\ ~Waiting(j)
           /\ returned => Inflight(j) = reply /\ Waiting(j)
           /\ returned /\ reply = <<>> => Child(j) \in ended
           /\ reply # <<>> => reply = <<reply[1]>>
           /\ Node(j)' = Node(j) <=> plan'.nodes[j] = plan.nodes[j]
<1>1. PICK n \in Nat \ {0} : n = Len(frames) /\ DOMAIN frames = 1..n /\ frames[n] = j
  BY DEF QInv, Types, Top
<1>2. n \in 1..n
  BY <1>1
<1>3. ASSUME ~returned PROVE ~Waiting(j)
  <2>1. ASSUME NEW k \in 1..n, frames[k] = j, k < n PROVE FALSE
    <3>1. frames[n] < frames[k] /\ j \in Nat
      BY <1>1, <1>2, <2>1, NodesAreNumbers DEF QInv, Descent, Types
    <3> QED
      BY <1>1, <2>1, <3>1
  <2> QED
    BY <1>1, <1>3, <2>1 DEF Waiting, Waits
<1>4. reply # <<>> => reply = <<reply[1]>>
  <2>1. IsSeq(reply) /\ Len(reply) <= 1
    BY DEF QInv, Types, TInv, TypeOK
  <2>2. PICK x : x = reply[1]
    OBVIOUS
  <2>3. IsSeq(<<x>>) /\ Len(<<x>>) = 1 /\ <<x>>[1] = x
    BY OneIsSeq
  <2>4. reply # <<>> => Len(reply) = 1
    <3>1. PICK m : m = Len(reply)
      OBVIOUS
    <3>2. m \in Nat /\ (reply # <<>> <=> m > 0)
      BY <2>1, <3>1, SeqLen
    <3>3. m <= 1
      BY <2>1, <3>1
    <3> QED
      BY <3>1, <3>2, <3>3
  <2>5. reply # <<>> => \A k \in 1..Len(reply) : reply[k] = <<x>>[k]
    <3>1. \A k \in 1..1 : k = 1
      OBVIOUS
    <3> QED
      BY <2>2, <2>3, <2>4, <3>1
  <2> QED
    BY <2>1, <2>2, <2>3, <2>4, <2>5, SameSeq
<1> QED
  BY <1>1, <1>2, <1>3, <1>4 DEF Inflight, Waiting, Waits, EInv, Node

\* With the tuple in hand it has looked at one tuple more.
LEMMA OneMoreTaken ==
    ASSUME QInv, EInv, TInv, NEW j \in Nodes, frames # <<>>, j = Top,
           NEW t, IsSeq(t), NEW u, u = t \o Inflight(j)
    PROVE  u = IF returned /\ reply # <<>> THEN Append(t, reply[1]) ELSE t
<1>1. t \o <<reply[1]>> = Append(t, reply[1]) /\ t \o <<>> = t
  BY JoinOne
<1> QED
  BY <1>1, Handed

\* Whether it waits after a step, and what it has returned then.
LEMMA WaitsAfter ==
    ASSUME QInv, NEW j \in Nodes, frames # <<>>, j = Top, UNCHANGED plan
    PROVE  /\ Reads(j) /\ Pull(j) => Waiting(j)'
           /\ \A r : Return(j, r) => ~Waiting(j)' /\ out'[j] = out[j] \o r /\ ended \subseteq ended'
<1>1. ASSUME Reads(j), Pull(j) PROVE Waiting(j)'
  <2>1. PICK n \in Nat \ {0} :
              /\ n = Len(frames) /\ DOMAIN frames = 1..n /\ frames[n] = j
              /\ Len(frames') = n + 1 /\ DOMAIN frames' = 1..(n + 1) /\ frames' # <<>>
              /\ frames'[n + 1] = Child(j)
              /\ \A k \in 1..n : frames[k] \in Nodes /\ frames'[k] = frames[k]
    BY <1>1, Deeper DEF Pull
  <2>2. n \in 1..n /\ n \in 1..(n + 1) /\ n < n + 1
    BY <2>1
  <2> QED
    BY <2>1, <2>2 DEF Waiting, Waits
<1>2. ASSUME NEW r, Return(j, r) PROVE ~Waiting(j)' /\ out'[j] = out[j] \o r /\ ended \subseteq ended'
  <2>1. PICK n \in Nat \ {0} :
              /\ n = Len(frames) /\ DOMAIN frames = 1..n /\ frames[n] = j
              /\ Len(frames') = n - 1 /\ DOMAIN frames' = 1..(n - 1)
              /\ \A k \in 1..(n - 1) :
                    k \in 1..n /\ frames[k] \in Nodes /\ frames'[k] = frames[k] /\ frames[k] # j
              /\ frames' # <<>> => n - 1 \in 1..(n - 1) /\ Child(frames[n - 1]) = j
    BY <1>2, Shallower DEF Return
  <2>2. ~Waiting(j)'
    BY <2>1 DEF Waiting
  <2> QED
    BY <1>2, <2>2 DEF Return, QInv, Types
<1> QED
  BY <1>1, <1>2

LEMMA LimitLooks ==
    ASSUME QInv, EInv, TInv, RInv, NEW j \in Nodes, LimitNext(j) \/ LimitReached(j) \/ LimitReturn(j)
    PROVE  Looks(j)
<1>1. /\ frames # <<>> /\ j = Top /\ Node(j).kind = "limit" /\ Reads(j) /\ plan' = plan
      /\ Node(j)' = Node(j) /\ Child(j)' = Child(j)
  BY DEF LimitNext, LimitReached, LimitReturn, Entered, Resumed, Reads, machine, Node, Child
<1>2. Node(j).limit \in Nat /\ limit[j] \in 0..Node(j).limit /\ DOMAIN limit = Nodes
  <2>1. plan \in Plans
    BY DEF QInv, Types
  <2>2. Node(j).limit \in Nat
    BY <1>1, <2>1, PlanAssumption DEF Nodes, Node, Scan
  <2> QED
    BY <1>1, <2>2 DEF TInv, TypeOK, RInv
<1> SUFFICES ASSUME NEW t, NEW u, IsSeq(t), u = t \o Inflight(j), Edge(j, t)
             PROVE  Edge(j, u)'
  BY DEF Looks
<1>3. PICK n : n = Node(j)
  OBVIOUS
<1>4. \A m, w : /\ out'[j] = u /\ (IF Waiting(j)' THEN w = 1 ELSE w = 0)
                /\ m = Len(u) + limit'[j] + w /\ m <= n.limit /\ (Child(j) \in ended' \/ m = n.limit)
                => Edge(j, u)'
  BY <1>1, <1>3 DEF Edge
<1>5. PICK v : IF Waiting(j) THEN v = 1 ELSE v = 0
  OBVIOUS
<1>6. PICK m : /\ m = Len(t) + limit[j] + v /\ m <= n.limit /\ (Child(j) \in ended \/ m = n.limit)
               /\ out[j] = t
  BY <1>1, <1>3, <1>5 DEF Edge
<1>7. IsSeq(out[j]) /\ out[j] \o <<>> = out[j] /\ Len(t) \in Nat
  BY JoinOne, SeqLen DEF QInv, Types
<1>8. CASE LimitNext(j)
  <2>1. /\ ~returned /\ limit[j] > 0 /\ limit' = [limit EXCEPT ![j] = @ - 1] /\ Pull(j)
        /\ out' = out /\ ended' = ended
    BY <1>8 DEF LimitNext, Entered, history
  <2>2. u = t /\ v = 0 /\ Waiting(j)' /\ limit'[j] = limit[j] - 1
    BY <1>1, <1>2, <1>5, <2>1, OneMoreTaken, Handed, WaitsAfter
  <2>3. m = Len(u) + limit'[j] + 1
    BY <1>2, <1>6, <1>7, <2>2
  <2> QED
    BY <1>4, <1>6, <2>1, <2>2, <2>3
<1>9. CASE LimitReached(j)
  <2>1. ~returned /\ Return(j, <<>>) /\ limit' = limit
    BY <1>9 DEF LimitReached, Entered, machine
  <2>2. u = t /\ v = 0 /\ ~Waiting(j)' /\ out'[j] = out[j] \o <<>> /\ ended \subseteq ended'
    BY <1>1, <1>5, <2>1, OneMoreTaken, Handed, WaitsAfter
  <2> QED
    BY <1>4, <1>6, <1>7, <2>1, <2>2
<1>10. CASE LimitReturn(j)
  <2>1. returned /\ Return(j, reply) /\ limit' = limit
    BY <1>10 DEF LimitReturn, Resumed, machine
  <2>2. v = 1 /\ ~Waiting(j)' /\ out'[j] = out[j] \o reply /\ ended \subseteq ended'
    BY <1>1, <1>5, <2>1, Handed, WaitsAfter
  <2>3. out'[j] = u
    BY <1>1, <1>6, <2>1, <2>2, Handed
  <2>4. CASE reply = <<>>
    <3>1. u = t /\ Child(j) \in ended
      BY <1>1, <2>1, <2>4, OneMoreTaken, Handed
    <3>2. PICK q : q = Len(u) + limit'[j] + 0
      OBVIOUS
    <3>3. q <= n.limit
      BY <1>2, <1>3, <1>6, <1>7, <2>1, <2>2, <3>1, <3>2
    <3> QED
      BY <1>4, <2>2, <2>3, <3>1, <3>2, <3>3
  <2>5. CASE reply # <<>>
    <3>1. u = Append(t, reply[1])
      BY <1>1, <2>1, <2>5, OneMoreTaken
    <3>2. Len(u) = Len(t) + 1
      BY <3>1, SeqLen
    <3>3. m = Len(u) + limit'[j] + 0
      BY <1>2, <1>6, <1>7, <2>1, <2>2, <3>2
    <3> QED
      BY <1>4, <1>6, <2>2, <2>3, <3>3
  <2> QED
    BY <2>4, <2>5
<1> QED
  BY <1>8, <1>9, <1>10

LEMMA SelectionLooks ==
    ASSUME QInv, EInv, TInv, NEW j \in Nodes, SelectionPull(j) \/ SelectionReturn(j)
    PROVE  Looks(j)
<1>1. /\ frames # <<>> /\ j = Top /\ Node(j).kind = "selection" /\ plan' = plan /\ Node(j)' = Node(j)
  BY DEF SelectionPull, SelectionReturn, Entered, Resumed, machine, Node
<1> SUFFICES ASSUME NEW t, NEW u, IsSeq(t), u = t \o Inflight(j), Edge(j, t)
             PROVE  Edge(j, u)'
  BY DEF Looks
<1>2. PICK n, x : n = Node(j) /\ x = reply[1]
  OBVIOUS
<1>3. PICK s : s = out[j] /\ s = Matching(n, t)
  BY <1>1, <1>2 DEF Edge
<1>4. out'[j] = Matching(n, u) => Edge(j, u)'
  BY <1>1, <1>2 DEF Edge
<1>5. u = IF returned /\ reply # <<>> THEN Append(t, x) ELSE t
  BY <1>1, <1>2, OneMoreTaken
<1>6. Matching(n, Append(t, x)) = IF SelectionMatches(n, x) THEN Append(s, x) ELSE s
  BY <1>3, MatchingOneMore
<1>7. CASE SelectionPull(j)
  <2>1. out' = out /\ (~returned \/ (reply # <<>> /\ ~SelectionMatches(n, x)))
    BY <1>2, <1>7 DEF SelectionPull, Entered, Resumed, history
  <2> QED
    BY <1>3, <1>4, <1>5, <1>6, <2>1
<1>8. CASE SelectionReturn(j)
  <2>1. returned /\ Return(j, reply) /\ (reply # <<>> => SelectionMatches(n, x))
    BY <1>2, <1>8 DEF SelectionReturn, Resumed
  <2>2. out'[j] = s \o reply
    BY <1>1, <1>3, <2>1, WaitsAfter
  <2>3. IsSeq(s) /\ s \o <<x>> = Append(s, x) /\ s \o <<>> = s
    BY <1>3, JoinOne DEF QInv, Types
  <2>4. reply # <<>> => reply = <<x>>
    BY <1>1, <1>2, Handed
  <2> QED
    BY <1>3, <1>4, <1>5, <1>6, <2>1, <2>2, <2>3, <2>4
<1> QED
  BY <1>7, <1>8

LEMMA ProjectionLooks ==
    ASSUME QInv, EInv, TInv, NEW j \in Nodes, ProjectionPull(j) \/ ProjectionReturn(j)
    PROVE  Looks(j)
<1>1. /\ frames # <<>> /\ j = Top /\ Node(j).kind = "projection" /\ plan' = plan /\ Node(j)' = Node(j)
  BY DEF ProjectionPull, ProjectionReturn, Entered, Resumed, machine, Node
<1> SUFFICES ASSUME NEW t, NEW u, IsSeq(t), u = t \o Inflight(j), Edge(j, t)
             PROVE  Edge(j, u)'
  BY DEF Looks
<1>2. PICK n, x, y : n = Node(j) /\ x = reply[1] /\ y = Projected(n, x)
  OBVIOUS
<1>3. PICK s : s = out[j] /\ s = Projections(n, t)
  BY <1>1, <1>2 DEF Edge
<1>4. out'[j] = Projections(n, u) => Edge(j, u)'
  BY <1>1, <1>2 DEF Edge
<1>5. u = IF returned /\ reply # <<>> THEN Append(t, x) ELSE t
  BY <1>1, <1>2, OneMoreTaken
<1>6. Projections(n, Append(t, x)) = IF y # <<>> THEN Append(s, y) ELSE s
  BY <1>2, <1>3, ProjectionsOneMore
<1>7. CASE ProjectionPull(j)
  <2>1. out' = out /\ ~returned
    BY <1>7 DEF ProjectionPull, Entered, history
  <2> QED
    BY <1>3, <1>4, <1>5, <2>1
<1>8. CASE ProjectionReturn(j)
  <2>1. PICK r : returned /\ Return(j, r) /\ r = IF reply # <<>> /\ y # <<>> THEN <<y>> ELSE <<>>
    BY <1>2, <1>8 DEF ProjectionReturn, Resumed
  <2>2. out'[j] = s \o r
    BY <1>1, <1>3, <2>1, WaitsAfter
  <2>3. IsSeq(s) /\ s \o <<y>> = Append(s, y) /\ s \o <<>> = s
    BY <1>3, JoinOne DEF QInv, Types
  <2> QED
    BY <1>3, <1>4, <1>5, <1>6, <2>1, <2>2, <2>3
<1> QED
  BY <1>7, <1>8

LEMMA SortLooks ==
    ASSUME QInv, EInv, TInv, NEW j \in Nodes,
           \/ SortPull(j) \/ SortStore(j) \/ SortNothing(j) \/ SortAndReturn(j) \/ SortNext(j)
    PROVE  Looks(j)
<1>1. /\ frames # <<>> /\ j = Top /\ Node(j).kind = "sort" /\ Sorts(j) /\ plan' = plan
      /\ Node(j)' = Node(j) /\ Child(j)' = Child(j)
  BY DEF SortPull, SortStore, SortNothing, SortAndReturn, SortNext,
         Entered, Resumed, Sorts, machine, Node, Child
<1> SUFFICES ASSUME NEW t, NEW u, IsSeq(t), u = t \o Inflight(j), Edge(j, t)
             PROVE  Edge(j, u)'
  BY DEF Looks
<1>2. PICK n, x : n = Node(j) /\ x = reply[1]
  OBVIOUS
<1>3. PICK s, b, d : s = out[j] /\ b = sorted[j] /\ d = record[j]
  OBVIOUS
<1>4. /\ IsSeq(s) /\ IsSeq(b) /\ d \in Nat /\ (d # 0 => b # <<>>)
      /\ Len(b) \in Nat /\ Len(s) \in Nat /\ s \o <<>> = s
      /\ DOMAIN sorted = Nodes /\ record \in [Nodes -> Nat]
  <2>1. /\ IsSeq(s) /\ IsSeq(b) /\ d \in Nat /\ (d # 0 => b # <<>>)
        /\ DOMAIN sorted = Nodes /\ record \in [Nodes -> Nat]
    BY <1>3 DEF QInv, Types, Fed
  <2> QED
    BY <2>1, SeqLen, JoinOne
<1>5. /\ \A k \in 1..Len(t) : HasSortKey(n, t[k])
      /\ IF d = 0 THEN s = <<>> /\ b = t
         ELSE Child(j) \in ended /\ b \in Sortings(n, t) /\ Begins(s, b) /\ Len(s) = d - 1
  BY <1>1, <1>2, <1>3 DEF Edge
<1>6. ASSUME \A k \in 1..Len(u) : HasSortKey(n, u[k]),
             NEW p, NEW c, NEW e, p = out'[j], c = sorted'[j], e = record'[j],
             IF e = 0 THEN p = <<>> /\ c = u
             ELSE Child(j) \in ended' /\ c \in Sortings(n, u) /\ Begins(p, c) /\ Len(p) = e - 1
      PROVE  Edge(j, u)'
  BY <1>1, <1>2, <1>6 DEF Edge
<1>7. u = IF returned /\ reply # <<>> THEN Append(t, x) ELSE t
  BY <1>1, <1>2, OneMoreTaken
<1>8. returned => d = 0
  BY <1>1, <1>3, WaitingSortHasNoRecord
<1>9. CASE SortPull(j)
  <2>1. u = t /\ out'[j] = s /\ sorted'[j] = b /\ record'[j] = d /\ ended' = ended
    BY <1>3, <1>7, <1>9 DEF SortPull, Entered, machine, history
  <2> QED
    BY <1>5, <1>6, <2>1
<1>10. CASE SortStore(j)
  <2>1. /\ returned /\ reply # <<>> /\ HasSortKey(n, x) /\ sorted' = [sorted EXCEPT ![j] = Append(@, x)]
        /\ out'[j] = s /\ record'[j] = d
    BY <1>2, <1>3, <1>10 DEF SortStore, Resumed, history
  <2>2. u = Append(t, x) /\ sorted'[j] = u /\ d = 0 /\ s = <<>>
    BY <1>3, <1>4, <1>5, <1>7, <1>8, <2>1
  <2>3. \A k \in 1..Len(u) : HasSortKey(n, u[k])
    <3>1. PICK m \in Nat : m = Len(t) /\ Len(u) = m + 1 /\ u[m + 1] = x /\ \A k \in 1..m : u[k] = t[k]
      BY <2>2, SeqLen
    <3>2. \A k \in 1..(m + 1) : k = m + 1 \/ k \in 1..m
      BY <3>1
    <3> QED
      BY <1>5, <2>1, <3>1, <3>2
  <2> QED
    BY <1>6, <2>1, <2>2, <2>3
<1>11. CASE SortNothing(j)
  <2>1. returned /\ reply = <<>> /\ Return(j, <<>>) /\ sorted'[j] = b /\ record'[j] = d
    BY <1>3, <1>11 DEF SortNothing, Resumed, machine
  <2>2. u = t /\ d = 0 /\ out'[j] = s
    BY <1>1, <1>3, <1>4, <1>7, <1>8, <2>1, WaitsAfter
  <2> QED
    BY <1>5, <1>6, <2>1, <2>2
<1>12. CASE SortAndReturn(j)
  <2>1. PICK c \in Sortings(n, b) : sorted' = [sorted EXCEPT ![j] = c] /\ Return(j, <<c[1]>>)
    BY <1>2, <1>3, <1>12 DEF SortAndReturn
  <2>2. /\ returned /\ reply = <<>> /\ b # <<>> /\ record' = [record EXCEPT ![j] = 2]
    BY <1>3, <1>12 DEF SortAndReturn, Resumed
  <2>3. u = t /\ d = 0 /\ s = <<>> /\ b = t
    BY <1>5, <1>7, <1>8, <2>2
  <2>4. sorted'[j] = c /\ record'[j] = 2 /\ Child(j) \in ended
    BY <1>1, <1>4, <2>1, <2>2, Handed
  <2>5. out'[j] = s \o <<c[1]>> /\ ended \subseteq ended'
    BY <1>1, <1>3, <2>1, WaitsAfter
  <2>6. Len(out'[j]) = 1 /\ out'[j][1] = c[1]
    <3>1. PICK y : y = c[1]
      OBVIOUS
    <3>2. IsSeq(<<y>>) /\ Len(<<y>>) = 1 /\ <<y>>[1] = y
      BY OneIsSeq
    <3>3. <<>> \o <<y>> = <<y>>
      BY <3>2, JoinOne
    <3> QED
      BY <2>3, <2>5, <3>1, <3>2, <3>3
  <2>7. Begins(out'[j], c)
    <3>1. Len(c) = Len(b) /\ Len(b) > 0
      BY <1>4, <2>1, <2>2, SeqLen, SortingLen
    <3>2. \A k \in 1..1 : k = 1
      OBVIOUS
    <3> QED
      BY <1>4, <2>6, <3>1, <3>2 DEF Begins
  <2>8. PICK p, e : p = out'[j] /\ e = record'[j] /\ e = 2
    BY <2>4
  <2>9. e # 0 /\ Child(j) \in ended' /\ c \in Sortings(n, u) /\ Begins(p, c) /\ Len(p) = e - 1
    BY <2>1, <2>3, <2>4, <2>5, <2>6, <2>7, <2>8
  <2>10. \A k \in 1..Len(u) : HasSortKey(n, u[k])
    BY <1>5, <2>3
  <2> QED
    BY <1>6, <2>4, <2>8, <2>9, <2>10
<1>13. CASE SortNext(j)
  <2>1. ~returned /\ d # 0 /\ sorted'[j] = b /\ u = t
    BY <1>3, <1>7, <1>13 DEF SortNext, Entered
  <2>2. CASE d > Len(b)
    <3>1. Return(j, <<>>) /\ record' = record
      BY <1>3, <1>13, <2>2 DEF SortNext
    <3>2. out'[j] = s /\ ended \subseteq ended'
      BY <1>1, <1>3, <1>4, <3>1, WaitsAfter
    <3> QED
      BY <1>3, <1>5, <1>6, <2>1, <3>1, <3>2
  <2>3. CASE ~(d > Len(b))
    <3>1. Return(j, <<b[d]>>) /\ record' = [record EXCEPT ![j] = @ + 1]
      BY <1>3, <1>13, <2>3 DEF SortNext
    <3>2. PICK y, p : y = b[d] /\ p = Append(s, y)
      OBVIOUS
    <3>3. out'[j] = p /\ ended \subseteq ended' /\ record'[j] = d + 1
      <4>1. out'[j] = s \o <<y>> /\ ended \subseteq ended'
        BY <1>1, <1>3, <3>1, <3>2, WaitsAfter
      <4>2. s \o <<y>> = p
        BY <1>4, <3>2, JoinOne
      <4> QED
        BY <1>3, <1>4, <3>1, <4>1, <4>2
    <3>4. Len(p) = d /\ p[d] = y /\ \A k \in 1..(d - 1) : p[k] = s[k]
      <4>1. PICK m \in Nat : m = Len(s) /\ Len(p) = m + 1 /\ p[m + 1] = y /\ \A k \in 1..m : p[k] = s[k]
        BY <1>4, <3>2, SeqLen
      <4>2. m = d - 1 /\ m + 1 = d
        BY <1>4, <1>5, <2>1, <4>1
      <4> QED
        BY <4>1, <4>2
    <3>5. Begins(p, b)
      <4>1. \A k \in 1..(d - 1) : s[k] = b[k]
        BY <1>5, <2>1 DEF Begins
      <4>2. \A k \in 1..d : k = d \/ k \in 1..(d - 1)
        BY <1>4
      <4> QED
        BY <1>4, <2>3, <3>2, <3>4, <4>1, <4>2 DEF Begins
    <3>6. d + 1 # 0 /\ (d + 1) - 1 = d
      BY <1>4
    <3> QED
      BY <1>5, <1>6, <2>1, <3>3, <3>4, <3>5, <3>6
  <2> QED
    BY <2>2, <2>3
<1> QED
  BY <1>9, <1>10, <1>11, <1>12, <1>13

LEMMA StepEdges ==
    ASSUME QInv, EInv, TInv, RInv, NEW j \in Nodes, Step(j)
    PROVE  RInv'
<1>1. /\ IsSeq(reply) /\ IsSeq(<<>>) /\ \A x : IsSeq(<<x>>)
      /\ DOMAIN sorted = Nodes /\ record \in [Nodes -> Nat] /\ IsSeq(out[j]) /\ DOMAIN out = Nodes
      /\ DOMAIN limit = Nodes
  BY EmptyIsSeq, OneIsSeq DEF QInv, Types, RInv
<1>2. ASSUME Reads(j), NEW r, IsSeq(r), Return(j, r), frames # <<>>, j = Top, Looks(j),
             UNCHANGED <<plan, tuples, current, limit, threw>>, gap \subseteq gap',
             \A i \in Nodes \ {j} : sorted'[i] = sorted[i] /\ record'[i] = record[i]
      PROVE  RInv'
  <2>1. ScanIsAt'
    <3>1. Nodes' = Nodes /\ \A i : Reads(i)' = Reads(i)
      BY <1>2 DEF Nodes, Reads, Node
    <3>2. \A i \in Nodes \ {j} : out'[i] = out[i]
      BY <1>1, <1>2 DEF Return
    <3> QED
      BY <1>2, <3>1, <3>2 DEF RInv, ScanIsAt, Begins
  <2> QED
    BY <1>2, <2>1, ReturnEdges
<1>3. CASE ScanNext(j)
  <2>1. /\ frames # <<>> /\ j = Top /\ ~Reads(j) /\ j \in Nodes
        /\ UNCHANGED <<plan, tuples, limit, sorted, record, gap, threw>>
    BY <1>3 DEF ScanNext, Entered, Reads
  <2>2. Nodes' = Nodes /\ \A i : Reads(i)' = Reads(i)
    BY <2>1 DEF Nodes, Reads, Node
  <2>3. \A i \in Nodes : ~Reads(i) => i = j
    BY <2>1, PlanAssumption DEF Nodes, Node, Reads, QInv, Types, Scan
  <2>4. PICK s : s = out[j] /\ IsSeq(s) /\ Begins(s, tuples) /\ Len(s) = current - 1
    BY <1>1, <2>1 DEF RInv, ScanIsAt
  <2>5. Len(tuples) \in Nat /\ current \in Nat /\ current # 0
    BY TableAssumption DEF TInv, TypeOK, IsList
  <2>6. CASE current > Len(tuples)
    <3>1. Return(j, <<>>) /\ current' = current
      BY <1>3, <2>6 DEF ScanNext
    <3>2. \A i \in Nodes : out'[i] = out[i]
      <4>1. s \o <<>> = s
        BY <2>4, JoinOne
      <4> QED
        BY <1>1, <2>4, <3>1, <4>1 DEF Return
    <3>3. ScanIsAt'
      BY <2>1, <2>2, <3>1, <3>2 DEF RInv, ScanIsAt, Begins
    <3> QED
      BY <1>1, <2>1, <3>1, <3>3, ReturnEdges
  <2>7. CASE ~(current > Len(tuples))
    <3>1. PICK x : x = tuples[current] /\ Return(j, <<x>>) /\ current' = current + 1
      BY <1>3, <2>7 DEF ScanNext
    <3>2. PICK p : p = out'[j] /\ p = Append(s, x)
      <4>1. s \o <<x>> = Append(s, x)
        BY <2>4, JoinOne
      <4> QED
        BY <1>1, <2>4, <3>1, <4>1 DEF Return
    <3>3. PICK m \in Nat : m = Len(s) /\ Len(p) = m + 1 /\ p[m + 1] = x /\ \A k \in 1..m : p[k] = s[k]
      BY <2>4, <3>2, SeqLen
    <3>4. m + 1 = current
      BY <2>4, <2>5, <3>3
    <3>5. Begins(p, tuples) /\ Len(p) = current' - 1
      <4>1. \A k \in 1..m : s[k] = tuples[k]
        BY <2>4, <3>3 DEF Begins
      <4>2. \A k \in 1..(m + 1) : k = m + 1 \/ k \in 1..m
        BY <3>3
      <4>3. \A k \in 1..Len(p) : p[k] = tuples[k]
        BY <3>1, <3>3, <3>4, <4>1, <4>2
      <4> QED
        BY <2>5, <2>7, <3>1, <3>3, <3>4, <4>3 DEF Begins
    <3>6. ScanIsAt'
      BY <2>1, <2>2, <2>3, <3>2, <3>5 DEF ScanIsAt, Begins
    <3> QED
      BY <1>1, <2>1, <3>1, <3>6, ReturnEdges
  <2> QED
    BY <2>6, <2>7
<1>4. CASE LimitNext(j)
  <2>1. /\ frames # <<>> /\ j = Top /\ Reads(j) /\ Pull(j) /\ limit' = [limit EXCEPT ![j] = @ - 1]
        /\ UNCHANGED <<plan, tuples, current, sorted, record, out, ended, gap, threw>>
    BY <1>4 DEF LimitNext, Entered, Reads, history
  <2>2. DOMAIN limit' = DOMAIN limit /\ \A i \in Nodes \ {j} : limit'[i] = limit[i]
    BY <1>1, <2>1
  <2>3. Looks(j)
    BY <1>4, LimitLooks
  <2> QED
    BY <2>1, <2>2, <2>3, PullEdges
<1>5. CASE SelectionPull(j) \/ ProjectionPull(j) \/ SortPull(j)
  <2>1. /\ frames # <<>> /\ j = Top /\ Reads(j) /\ Pull(j)
        /\ UNCHANGED <<plan, tuples, current, limit, sorted, record, out, ended, gap, threw>>
    BY <1>5 DEF SelectionPull, ProjectionPull, SortPull, Entered, Resumed, Reads, machine, history
  <2>2. Looks(j)
    BY <1>5, SelectionLooks, ProjectionLooks, SortLooks
  <2> QED
    BY <2>1, <2>2, PullEdges
<1>6. CASE SortStore(j)
  <2>1. /\ frames # <<>> /\ j = Top /\ Reads(j) /\ Pull(j)
        /\ \E x : sorted' = [sorted EXCEPT ![j] = Append(@, x)]
        /\ UNCHANGED <<plan, tuples, current, limit, record, out, ended, gap, threw>>
    BY <1>6 DEF SortStore, Resumed, Reads, history
  <2>2. \A i \in Nodes \ {j} : limit'[i] = limit[i] /\ sorted'[i] = sorted[i]
    BY <1>1, <2>1
  <2>3. Looks(j)
    BY <1>6, SortLooks
  <2> QED
    BY <2>1, <2>2, <2>3, PullEdges
<1>7. CASE LimitReached(j) \/ LimitReturn(j) \/ SelectionReturn(j) \/ SortNothing(j)
  <2>1. /\ frames # <<>> /\ j = Top /\ Reads(j) /\ (Return(j, <<>>) \/ Return(j, reply))
        /\ UNCHANGED <<plan, tuples, current, limit, sorted, record, gap, threw>>
    BY <1>7 DEF LimitReached, LimitReturn, SelectionReturn, SortNothing, Entered, Resumed, Reads, machine
  <2>2. Looks(j)
    BY <1>7, LimitLooks, SelectionLooks, SortLooks
  <2> QED
    BY <1>1, <1>2, <2>1, <2>2
<1>8. CASE ProjectionReturn(j)
  <2>1. PICK r : IsSeq(r) /\ Return(j, r) /\ gap \subseteq gap'
    BY <1>1, <1>8 DEF ProjectionReturn
  <2>2. /\ frames # <<>> /\ j = Top /\ Reads(j)
        /\ UNCHANGED <<plan, tuples, current, limit, sorted, record, threw>>
    BY <1>8 DEF ProjectionReturn, Resumed, Reads, machine
  <2>3. Looks(j)
    BY <1>8, ProjectionLooks
  <2> QED
    BY <1>2, <2>1, <2>2, <2>3
<1>9. CASE SortAndReturn(j) \/ SortNext(j)
  <2>1. \E x : Return(j, <<x>>) \/ Return(j, <<>>)
    BY <1>9 DEF SortAndReturn, SortNext
  <2>2. /\ frames # <<>> /\ j = Top /\ Reads(j)
        /\ UNCHANGED <<plan, tuples, current, limit, gap, threw>>
        /\ sorted' = sorted \/ \E s : sorted' = [sorted EXCEPT ![j] = s]
        /\ record' = record \/ \E d : record' = [record EXCEPT ![j] = d]
    BY <1>9 DEF SortAndReturn, SortNext, Entered, Resumed, Reads
  <2>3. \A i \in Nodes \ {j} : sorted'[i] = sorted[i] /\ record'[i] = record[i]
    BY <1>1, <2>2
  <2>4. Looks(j)
    BY <1>9, SortLooks
  <2> QED
    BY <1>1, <1>2, <2>1, <2>2, <2>3, <2>4
<1>10. CASE SortThrow(j)
  <2>1. /\ frames # <<>> /\ j = Top /\ frames' = <<>> /\ threw' = threw \cup {j}
        /\ UNCHANGED <<plan, tuples, current, limit, sorted, record, out, ended, gap>>
    BY <1>10 DEF SortThrow, Throw, Resumed, machine
  <2> QED
    BY <2>1, AbortEdges
<1>11. CASE SortUnset(j)
  <2>1. /\ frames # <<>> /\ j = Top /\ Sorts(Top) /\ ~returned /\ sorted[j] # <<>> /\ record[j] = 0
        /\ frames' = <<>>
        /\ UNCHANGED <<plan, tuples, current, limit, sorted, record, out, ended, gap, threw>>
    BY <1>11 DEF SortUnset, Entered, Sorts, machine, history
  <2>2. j \in threw
    BY <2>1, OnlyInnermostCollects
  <2> QED
    BY <2>1, <2>2, AbortEdges
<1> QED
  BY <1>3, <1>4, <1>5, <1>6, <1>7, <1>8, <1>9, <1>10, <1>11 DEF Step

LEMMA FirstEdges == ASSUME Init PROVE RInv
<1>1. plan \in Plans /\ tuples \in Tables /\ Len(<<>>) = 0 /\ DOMAIN <<>> = {}
  BY DEF Init
<1>2. /\ current = 1 /\ frames = <<>> /\ DOMAIN limit = Nodes
      /\ \A i \in Nodes : out[i] = <<>> /\ sorted[i] = <<>> /\ record[i] = 0
      /\ \A i \in Nodes : Node(i).kind = "limit" => limit[i] = Node(i).limit
  BY DEF Init
<1>3. ScanIsAt
  <2>1. Len(tuples) \in Nat
    BY <1>1, TableAssumption DEF IsList
  <2> QED
    BY <1>1, <1>2, <2>1 DEF ScanIsAt, Begins
<1>4. ASSUME NEW i \in Nodes, Own(i)
      PROVE  IsSeq(<<>>) /\ out[Child(i)] = <<>> \o Inflight(i) /\ Edge(i, <<>>)
  <2>1. Child(i) \in Nodes
    BY <1>1, <1>4, PlanFacts DEF Own
  <2>2. Inflight(i) = <<>> /\ ~Waiting(i) /\ <<>> \o <<>> = <<>>
    BY <1>1, <1>2 DEF Inflight, Waiting
  <2>3. Node(i).kind = "limit" => Node(i).limit \in Nat
    BY <1>1, PlanAssumption DEF Nodes, Node, Scan
  <2>4. Edge(i, <<>>)
    <3>1. PICK n : n = Node(i)
      OBVIOUS
    <3>2. n.kind = "limit" => Len(<<>>) + limit[i] + 0 = n.limit /\ n.limit <= n.limit
      BY <1>1, <1>2, <2>3, <3>1
    <3>3. \A k \in 1..Len(<<>>) : FALSE
      BY <1>1
    <3>4. Matching(n, <<>>) = <<>> /\ Projections(n, <<>>) = <<>>
      BY MatchingEmpty
    <3> QED
      BY <1>2, <2>2, <3>1, <3>2, <3>3, <3>4 DEF Edge
  <2> QED
    BY <1>2, <2>1, <2>2, <2>4, EmptyIsSeq
<1> QED
  BY <1>2, <1>3, <1>4 DEF RInv, CallerHolds, Edges

-----------------------------------------------------------------------------
(* From the scan up, every iterator follows its query.                     *)

Follows(i) ==
    Exclusive(i) /\ ~Disturbed(i) =>
        \E s \in Answers[i] : /\ IsTable(s) /\ Begins(out[i], s)
                              /\ (i \in ended \ gap) => out[i] = s

\* Node i has looked at t, the beginning of an answer s to its child's query.
TakenFrom(i, t, s) ==
    /\ IsSeq(t) /\ Edge(i, t) /\ IsTable(s) /\ Begins(t, s)
    /\ Child(i) \in ended => t = s
    /\ i \in ended \ gap => Spent(i) /\ (Waiting(i) => Child(i) \in ended)

LEMMA TakesFromAnswer ==
    ASSUME QInv, EInv, RInv, NEW i \in Nodes, Reads(i), Exclusive(i), ~Disturbed(i), Follows(Child(i))
    PROVE  \E s \in Answers[Child(i)] : \E t : TakenFrom(i, t, s)
<1>1. plan \in Plans /\ frames \in Seq(Nodes)
  BY DEF QInv, Types
<1>2. PICK c \in Nodes : c = Child(i)
  BY <1>1, PlanFacts
<1>3. Below[i] = {c} \cup Below[c]
  BY <1>1, <1>2, BelowIs
<1>4. Exclusive(c) /\ ~Disturbed(c) /\ c \notin gap
  BY <1>1, <1>2, <1>3, OnlyReader DEF Disturbed
<1>5. PICK s \in Answers[c] : IsTable(s) /\ Begins(out[c], s) /\ (c \in ended => out[c] = s)
  BY <1>2, <1>4 DEF Follows
<1>6. PICK t : IsSeq(t) /\ out[c] = t \o Inflight(i) /\ Edge(i, t)
  BY <1>2 DEF RInv, Edges, Own
<1>7. IsSeq(Inflight(i)) /\ IsSeq(s) /\ IsSeq(out[c])
  BY EmptyIsSeq, <1>5 DEF Inflight, QInv, Types, IsTable
<1>8. Begins(t, s)
  <2>1. PICK o : o = out[c] /\ Begins(t, o) /\ Begins(o, s) /\ IsSeq(o)
    BY <1>5, <1>6, <1>7, BeginsJoin
  <2>2. Len(t) \in Nat /\ Len(o) \in Nat /\ Len(s) \in Nat
    BY <1>6, <1>7, <2>1, SeqLen
  <2> QED
    BY <2>1, <2>2 DEF Begins
<1>9. ASSUME c \in ended PROVE t = s
  <2>1. Final(c)
    BY <1>4, <1>9 DEF Final
  <2>2. Inflight(i) = <<>>
    BY <1>2, <2>1 DEF EInv, Inflight
  <2> QED
    BY <1>5, <1>6, <1>9, <2>2, NothingInflight
<1>10. ASSUME i \in ended \ gap PROVE Spent(i) /\ (Waiting(i) => c \in ended)
  <2>1. Final(i)
    BY <1>10 DEF Final
  <2> QED
    BY <1>2, <2>1 DEF EInv, Waiting
<1>11. TakenFrom(i, t, s)
  BY <1>2, <1>5, <1>6, <1>8, <1>9, <1>10 DEF TakenFrom
<1> QED
  BY <1>2, <1>5, <1>11

LEMMA LimitFollows ==
    ASSUME QInv, TInv, NEW i \in Nodes, Node(i).kind = "limit", NEW t, NEW s, TakenFrom(i, t, s)
    PROVE  \E a \in Meaning(Node(i), s) :
              IsTable(a) /\ Begins(out[i], a) /\ ((i \in ended \ gap) => out[i] = a)
<1>1. PICK n : n = Node(i) /\ n.kind = "limit"
  OBVIOUS
<1>2. n.limit \in Nat /\ limit[i] \in 0..n.limit
  <2>1. plan \in Plans
    BY DEF QInv, Types
  <2>2. n.limit \in Nat
    BY <1>1, <2>1, PlanAssumption DEF Nodes, Node, Scan
  <2> QED
    BY <1>1, <2>2 DEF TInv, TypeOK
<1>3. IsSeq(t) /\ IsSeq(s) /\ (\A k \in 1..Len(s) : IsTuple(s[k])) /\ Begins(t, s)
  BY DEF TakenFrom, IsTable
<1>4. Len(t) \in Nat /\ Len(s) \in Nat /\ Len(t) <= Len(s) /\ \A k \in 1..Len(t) : t[k] = s[k]
  BY <1>3, SeqLen DEF Begins
<1>5. PICK w \in {0, 1} :
        /\ Waiting(i) <=> w = 1
        /\ out[i] = t /\ Len(t) + limit[i] + w <= n.limit
        /\ Child(i) \in ended \/ Len(t) + limit[i] + w = n.limit
  <2>1. CASE Waiting(i)
    BY <1>1, <2>1 DEF TakenFrom, Edge
  <2>2. CASE ~Waiting(i)
    BY <1>1, <2>2 DEF TakenFrom, Edge
  <2> QED
    BY <2>1, <2>2
<1>6. PICK m \in Nat : m = (IF n.limit < Len(s) THEN n.limit ELSE Len(s)) /\ m <= Len(s)
  BY <1>2, <1>4
<1>7. PICK a : a = SubSeq(s, 1, m)
  OBVIOUS
<1>8. a \in Meaning(n, s)
  BY <1>1, <1>6, <1>7 DEF Meaning
<1>9. IsSeq(a) /\ Len(a) = m /\ \A k \in 1..m : a[k] = s[k]
  BY <1>3, <1>6, <1>7, CutIs
<1>10. IsTable(a)
  <2>1. \A k \in 1..m : k \in 1..Len(s)
    BY <1>4, <1>6
  <2> QED
    BY <1>3, <1>9, <2>1 DEF IsTable
<1>11. Len(t) <= m
  BY <1>2, <1>4, <1>5, <1>6
<1>12. \A k \in 1..Len(t) : t[k] = a[k]
  BY <1>4, <1>6, <1>9, <1>11
<1>13. ASSUME i \in ended \ gap PROVE Len(t) = m
  <2>1. limit[i] = 0 \/ Child(i) \in ended
    BY <1>1, <1>13 DEF TakenFrom, Spent
  <2>2. CASE Child(i) \in ended
    <3>1. Len(t) = Len(s)
      BY <2>2 DEF TakenFrom
    <3> QED
      BY <1>2, <1>4, <1>6, <1>11, <3>1
  <2>3. CASE Child(i) \notin ended
    <3>1. w = 0 /\ limit[i] = 0
      BY <1>5, <1>13, <2>1, <2>3 DEF TakenFrom
    <3> QED
      BY <1>2, <1>4, <1>5, <1>6, <1>11, <2>3, <3>1
  <2> QED
    BY <2>2, <2>3
<1>14. Begins(out[i], a)
  BY <1>5, <1>9, <1>11, <1>12 DEF Begins
<1>15. (i \in ended \ gap) => out[i] = a
  BY <1>3, <1>5, <1>9, <1>12, <1>13, SameSeq
<1> QED
  BY <1>1, <1>8, <1>10, <1>14, <1>15

LEMMA SelectionFollows ==
    ASSUME QInv, NEW i \in Nodes, Node(i).kind \in {"selection", "projection"},
           NEW t, NEW s, TakenFrom(i, t, s)
    PROVE  \E a \in Meaning(Node(i), s) :
              IsTable(a) /\ Begins(out[i], a) /\ ((i \in ended \ gap) => out[i] = a)
<1>1. PICK n : n = Node(i)
  OBVIOUS
<1>2. IsSeq(t) /\ IsSeq(s) /\ IsTable(s) /\ Begins(t, s)
  BY DEF TakenFrom, IsTable
<1>3. (i \in ended \ gap) => t = s
  BY DEF TakenFrom, Spent
<1>4. /\ Begins(Matching(n, t), Matching(n, s)) /\ Begins(Projections(n, t), Projections(n, s))
      /\ IsTable(Matching(n, s)) /\ (IsList(n.names) => IsTable(Projections(n, s)))
  BY <1>2, MatchingBegins, MatchingIsTable
<1>5. CASE n.kind = "selection"
  <2>1. out[i] = Matching(n, t) /\ Matching(n, s) \in Meaning(n, s)
    BY <1>1, <1>5 DEF TakenFrom, Edge, Meaning
  <2> QED
    BY <1>1, <1>3, <1>4, <2>1
<1>6. CASE n.kind = "projection"
  <2>1. out[i] = Projections(n, t) /\ Projections(n, s) \in Meaning(n, s)
    BY <1>1, <1>6 DEF TakenFrom, Edge, Meaning
  <2>2. plan \in Plans
    BY DEF QInv, Types
  <2>3. IsList(n.names)
    BY <1>1, <1>6, <2>2, PlanAssumption DEF Nodes, Node, Scan
  <2> QED
    BY <1>1, <1>3, <1>4, <2>1, <2>3
<1> QED
  BY <1>1, <1>5, <1>6

LEMMA SortFollows ==
    ASSUME QInv, NEW i \in Nodes, Node(i).kind = "sort", NEW t, NEW s, TakenFrom(i, t, s)
    PROVE  \E a \in Meaning(Node(i), s) :
              IsTable(a) /\ Begins(out[i], a) /\ ((i \in ended \ gap) => out[i] = a)
<1>1. PICK n : n = Node(i) /\ n.kind = "sort"
  OBVIOUS
<1>2. PICK o, b, d : o = out[i] /\ b = sorted[i] /\ d = record[i]
  OBVIOUS
<1>3. /\ IsSeq(o) /\ IsSeq(b) /\ d \in Nat /\ (d # 0 => b # <<>>)
      /\ IsSeq(t) /\ IsTable(s) /\ IsSeq(s)
  BY <1>2 DEF QInv, Types, Fed, TakenFrom, IsTable
<1>4. Len(o) \in Nat /\ Len(b) \in Nat
  BY <1>3, SeqLen
<1>5. /\ \A k \in 1..Len(t) : HasSortKey(n, t[k])
      /\ IF d = 0 THEN o = <<>> /\ b = t
         ELSE Child(i) \in ended /\ b \in Sortings(n, t) /\ Begins(o, b) /\ Len(o) = d - 1
  BY <1>1, <1>2 DEF TakenFrom, Edge
<1>6. Child(i) \in ended => t = s
  BY DEF TakenFrom
<1>7. ASSUME i \in ended \ gap PROVE IF b = <<>> THEN Child(i) \in ended ELSE d > Len(b)
  BY <1>1, <1>2, <1>7 DEF TakenFrom, Spent
<1>8. Len(<<>>) = 0 /\ IsSeq(<<>>)
  BY EmptyIsSeq
<1>9. \A a : Begins(<<>>, a) <=> 0 <= Len(a)
  BY <1>8 DEF Begins
<1>10. CASE \A k \in DOMAIN s : HasSortKey(n, s[k])
  <2>1. Meaning(n, s) = Sortings(n, s)
    BY <1>1, <1>10 DEF Meaning
  <2>2. \A k \in 1..Len(s) : HasSortKey(n, s[k])
    BY <1>3, <1>10, SeqLen
  <2>3. CASE d = 0
    <3>1. PICK a \in Sortings(n, s) : IsTable(a)
      BY <1>3, <2>2, SortingExists, SortingIsTable
    <3>2. IsSeq(a) /\ Len(a) = Len(s) /\ Len(a) \in Nat
      BY <1>3, SortingLen
    <3>3. Begins(o, a)
      BY <1>5, <1>9, <2>3, <3>2
    <3>4. ASSUME i \in ended \ gap PROVE o = a
      <4>1. b = <<>> /\ Child(i) \in ended
        BY <1>4, <1>7, <2>3, <3>4
      <4>2. s = <<>>
        BY <1>5, <1>6, <2>3, <4>1
      <4>3. Len(a) = 0 /\ \A k \in 1..Len(a) : FALSE
        BY <1>8, <3>2, <4>2
      <4> QED
        BY <1>5, <1>8, <2>3, <3>2, <4>3, SameSeq
    <3> QED
      BY <1>1, <1>2, <2>1, <3>1, <3>3, <3>4
  <2>4. CASE d # 0
    <3>1. b \in Sortings(n, s) /\ Begins(o, b) /\ Len(o) = d - 1
      BY <1>5, <1>6, <2>4
    <3>2. IsTable(b)
      BY <1>3, <3>1, SortingIsTable
    <3>3. ASSUME i \in ended \ gap PROVE o = b
      <4>1. d > Len(b)
        BY <1>3, <1>7, <2>4, <3>3
      <4>2. Len(o) = Len(b)
        BY <1>3, <1>4, <3>1, <4>1 DEF Begins
      <4> QED
        BY <1>3, <3>1, <4>2, SameSeq DEF Begins
    <3> QED
      BY <1>1, <1>2, <2>1, <3>1, <3>2, <3>3
  <2> QED
    BY <2>3, <2>4
<1>11. CASE ~ \A k \in DOMAIN s : HasSortKey(n, s[k])
  <2>1. <<>> \in Meaning(n, s)
    BY <1>1, <1>11 DEF Meaning
  <2>2. t # s
    BY <1>3, <1>5, <1>11, SeqLen
  <2>3. Child(i) \notin ended /\ d = 0 /\ o = <<>>
    BY <1>5, <1>6, <2>2
  <2>4. i \notin ended \ gap
    BY <1>4, <1>7, <2>3
  <2>5. IsTable(<<>>)
    BY <1>8 DEF IsTable
  <2>6. Begins(o, <<>>)
    BY <1>8, <1>9, <2>3
  <2> QED
    BY <1>1, <1>2, <2>1, <2>4, <2>5, <2>6
<1> QED
  BY <1>10, <1>11

LEMMA NodeFollows ==
    ASSUME QInv, EInv, TInv, RInv, NEW i \in Nodes, Reads(i) => Follows(Child(i))
    PROVE  Follows(i)
<1>1. plan \in Plans
  BY DEF QInv, Types
<1> SUFFICES ASSUME Exclusive(i), ~Disturbed(i)
             PROVE  \E a \in Answers[i] : /\ IsTable(a) /\ Begins(out[i], a)
                                          /\ (i \in ended \ gap) => out[i] = a
  BY DEF Follows
<1>2. CASE ~Reads(i)
  <2>1. tuples \in Answers[i]
    BY <1>1, <1>2, AnswersIs
  <2>2. IsTable(tuples) /\ Len(tuples) \in Nat
    BY TablesAreTables, TableAssumption DEF TInv, IsList
  <2>3. Begins(out[i], tuples) /\ Len(out[i]) = current - 1 /\ IsSeq(out[i])
    BY <1>2 DEF RInv, ScanIsAt, QInv, Types
  <2>4. ASSUME i \in ended \ gap PROVE out[i] = tuples
    <3>1. Final(i)
      BY <2>4 DEF Final
    <3>2. current > Len(tuples)
      BY <1>2, <3>1 DEF EInv, Spent, Reads
    <3>3. current \in Nat
      BY <2>2 DEF TInv, TypeOK
    <3>4. Len(out[i]) = Len(tuples)
      BY <2>2, <2>3, <3>2, <3>3 DEF Begins
    <3> QED
      BY <2>2, <2>3, <3>4, SameSeq DEF Begins, IsTable
  <2> QED
    BY <2>1, <2>2, <2>3, <2>4
<1>3. CASE Reads(i)
  <2>0. PICK s \in Answers[Child(i)] : \E t : TakenFrom(i, t, s)
    BY <1>3, TakesFromAnswer
  <2>1. PICK t : TakenFrom(i, t, s)
    BY <2>0
  <2>2. Node(i).kind \in {"limit", "selection", "projection", "sort"}
    BY <1>1, <1>3, PlanFacts DEF Reads
  <2>3. PICK a \in Meaning(Node(i), s) :
              IsTable(a) /\ Begins(out[i], a) /\ ((i \in ended \ gap) => out[i] = a)
    BY <2>1, <2>2, LimitFollows, SelectionFollows, SortFollows
  <2>4. a \in Answers[i]
    BY <1>1, <1>3, <2>1, <2>3, AnswersIs
  <2> QED
    BY <2>3, <2>4
<1> QED
  BY <1>2, <1>3

LEMMA AllFollow ==
    ASSUME QInv, EInv, TInv, RInv
    PROVE  RowsFollowPlan
<1>1. plan \in Plans /\ \A i \in Nodes : i \in Nat /\ i > 0 /\ IsSeq(out[i])
  BY PlanAssumption DEF QInv, Types, Nodes
<1>2. \A i \in Nodes : Reads(i) => Child(i) \in Nodes /\ Child(i) \in Nat /\ Child(i) < i
  BY <1>1, PlanFacts
<1> DEFINE S == {k \in Nat : \A i \in Nodes : i <= k => Follows(i)}
<1>3. 0 \in S
  BY <1>1
<1>4. ASSUME NEW k \in Nat, k \in S PROVE k + 1 \in S
  <2>1. ASSUME NEW i \in Nodes, i <= k + 1 PROVE Follows(i)
    <3>1. Reads(i) => Follows(Child(i))
      <4>1. ASSUME Reads(i) PROVE Child(i) \in Nodes /\ Child(i) <= k
        BY <1>1, <1>2, <2>1, <4>1
      <4> QED
        BY <1>4, <4>1
    <3> QED
      BY <3>1, NodeFollows
  <2> QED
    BY <1>4, <2>1
<1> HIDE DEF S
<1>5. \A k \in Nat : k \in S
  BY <1>3, <1>4, Induction
<1> USE DEF S
<1>6. ASSUME NEW i \in Nodes, Exclusive(i), ~Disturbed(i)
      PROVE  \E s \in Answers[i] : IsPrefix(out[i], s) /\ ((i \in ended \ gap) => out[i] = s)
  <2>1. Follows(i)
    <3>1. i \in Nat /\ i <= i
      BY <1>1
    <3> QED
      BY <1>5, <3>1
  <2>2. PICK s \in Answers[i] : IsTable(s) /\ Begins(out[i], s) /\ ((i \in ended \ gap) => out[i] = s)
    BY <1>6, <2>1 DEF Follows
  <2>3. IsPrefix(out[i], s)
    BY <1>1, <2>2, BeginsIsPrefix DEF IsTable
  <2> QED
    BY <2>2, <2>3
<1> QED
  BY <1>6 DEF RowsFollowPlan

LEMMA NextEdges == ASSUME QInv, EInv, TInv, RInv, [Next]_vars PROVE RInv'
<1>1. CASE UNCHANGED vars
  <2>1. UNCHANGED <<plan, tuples, current, limit, sorted, record, frames, reply, returned, out, ended, gap, threw>>
    BY <1>1 DEF vars, machine, history
  <2>2. /\ Nodes' = Nodes
        /\ \A i : Node(i)' = Node(i) /\ Child(i)' = Child(i) /\ Reads(i)' = Reads(i)
        /\ \A i : Own(i)' => Own(i)
    BY <2>1, OwnBefore DEF Nodes, Node, Child, Reads
  <2>3. \A i : (Waiting(i)' <=> Waiting(i)) /\ Inflight(i)' = Inflight(i)
    BY <2>1 DEF Waiting, Waits, Inflight, Top
  <2>4. ASSUME NEW i \in Nodes, Own(i)'
        PROVE  \E t : IsSeq(t) /\ out'[Child(i)'] = t \o Inflight(i)' /\ Edge(i, t)'
    <3>1. PICK t : IsSeq(t) /\ out[Child(i)] = t \o Inflight(i) /\ Edge(i, t)
      BY <2>2, <2>4 DEF RInv, Edges
    <3>2. Edge(i, t)'
      BY <2>1, <2>3, <3>1, EdgeStays
    <3> QED
      BY <2>1, <2>2, <2>3, <3>1, <3>2
  <2>5. ScanIsAt' /\ CallerHolds'
    BY <2>1, <2>2 DEF RInv, ScanIsAt, CallerHolds, Begins
  <2> QED
    BY <2>1, <2>2, <2>4, <2>5 DEF RInv, Edges
<1> QED
  BY <1>1, StepEdges, CallEdges DEF Next

\* Whatever the plan, the table and the order of the calls, an iterator that has
\* its part of the plan to itself has returned the beginning of an answer to its
\* query, and all of it once it has returned nullopt.
THEOREM RowsAreAnswers == FairSpec => []RowsFollowPlan
<1>1. QInv /\ EInv /\ [Next]_vars => EInv'
  BY NextSpends
<1>2. QInv /\ TInv /\ SInv /\ [Next]_vars => TInv' /\ SInv'
  BY NextCounts
<1>3. QInv /\ EInv /\ TInv /\ RInv /\ [Next]_vars => RInv'
  BY NextEdges
<1>4. QInv /\ EInv /\ TInv /\ RInv => RowsFollowPlan
  BY AllFollow
<1>5. Init => RInv
  BY FirstEdges
<1> QED
  BY Initial, NextKeeps, FirstSpends, FirstCounts, <1>1, <1>2, <1>3, <1>4, <1>5, PTL DEF FairSpec
=============================================================================
