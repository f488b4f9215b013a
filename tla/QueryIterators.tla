---------------------------- MODULE QueryIterators ----------------------------
(***************************************************************************)
(* The pull iterators of database-systems/single-table-queries-prework:    *)
(* scan, limit, selection, projection and sort, wired into a query plan.   *)
(*                                                                         *)
(* A plan is a sequence of iterators; each names its child by position,    *)
(* and the caller may hold, and call next() on, several of them, even on   *)
(* two that share a child (as the repository's test does).  A call runs    *)
(* down the children and its result comes back up: frames is the chain of  *)
(* next() calls in progress, reply what the innermost one returned, with   *)
(* <<>> for std::nullopt and <<t>> for a tuple.                            *)
(*                                                                         *)
(* A tuple is a sequence of fields; a field's data is a pair <<index,      *)
(* rank>>, the variant's alternative and the value's place in the order of *)
(* that alternative.                                                       *)
(***************************************************************************)
EXTENDS Naturals, SequencesExt

CONSTANTS Plans,    \* the query plans: records of nodes and handles
          Tables,   \* the lists of tuples a scan is made from
          MaxCalls  \* bound: calls of next() the caller makes

\* The iterators as they are constructed, over the iterator at position c.
Scan                  == [kind |-> "scan"]
Limit(n, c)           == [kind |-> "limit", limit |-> n, child |-> c]
Selection(f, op, v, c) == [kind |-> "selection", field |-> f, op |-> op, value |-> v, child |-> c]
Projection(names, c)  == [kind |-> "projection", names |-> names, child |-> c]
Sort(key, order, c)   == [kind |-> "sort", key |-> key, order |-> order, child |-> c]

ComparisonOperator == {"EQUALS", "NOT_EQUAL", "GREATER_THAN", "LESS_THAN"}
SortOrder          == {"ASCENDING", "DESCENDING"}

Field(name, alternative, rank) == [name |-> name, data |-> <<alternative, rank>>]

IsList(s) == Len(s) \in Nat /\ s = [k \in 1..Len(s) |-> s[k]]

\* A child is a reference, so it is constructed first; every plan has one scan.
ASSUME PlanAssumption ==
    \A p \in Plans :
        /\ Len(p.nodes) \in Nat /\ DOMAIN p.nodes = 1..Len(p.nodes)
        /\ p.handles \subseteq DOMAIN p.nodes
        /\ \A i \in DOMAIN p.nodes :
             LET n == p.nodes[i]
             IN  IF i = 1 THEN n = Scan
                 ELSE /\ n.kind \in {"limit", "selection", "projection", "sort"}
                      /\ n.child \in 1..(i - 1)
                      /\ n.kind = "limit" => n.limit \in Nat
                      /\ n.kind = "selection" => n.op \in ComparisonOperator
                      /\ n.kind = "projection" => IsList(n.names)
                      /\ n.kind = "sort" => n.order \in SortOrder

\* A table is a list of tuples, a tuple a list of fields.
ASSUME TableAssumption ==
    \A s \in Tables :
        /\ IsList(s)
        /\ \A k \in 1..Len(s) : /\ IsList(s[k])
                                /\ \A j \in 1..Len(s[k]) : s[k][j].data \in Nat \X Nat

VARIABLES plan,     \* the iterators and how they refer to each other
          tuples,   \* ScanIterator::d_tuples of node 1
          current,  \* ScanIterator::d_currentTuple, Len(tuples) + 1 for end()
          limit,    \* limit[i]: LimitIterator::d_limit
          sorted,   \* sorted[i]: SortIterator::d_tuples
          record,   \* record[i]: SortIterator::d_currentRecord, 0 before it is set
          frames,   \* the next() calls in progress, the caller's first
          reply,    \* what the innermost call returned
          returned, \* has the innermost call just returned?
          calls,    \* calls the caller made
          outcome,  \* "running", "threw" (last call) or "crashed"
          out,      \* history: out[i] the tuples node i returned
          ended,    \* history: nodes that returned nullopt
          gap,      \* history: projections that returned nullopt for a tuple
          threw     \* history: sorts that threw

machine == <<plan, tuples, current, limit, sorted, record>>
history == <<out, ended, gap, threw>>
vars == <<machine, frames, reply, returned, calls, outcome, history>>

Nodes == DOMAIN plan.nodes
Node(i) == plan.nodes[i]
Child(i) == Node(i).child

-----------------------------------------------------------------------------
(* Tuples and comparisons. *)

\* operator< of std::variant: by alternative, then by value.
Less(x, y) == x[1] < y[1] \/ (x[1] = y[1] /\ x[2] < y[2])

\* The elements of s at the positions in K, in their order.
Kept(s, K) ==
    LET upTo[k \in 0..Len(s)] ==
          IF k = 0 THEN <<>> ELSE IF k \in K THEN Append(upTo[k - 1], s[k]) ELSE upTo[k - 1]
    IN  upTo[Len(s)]

\* The fields of that name.
Named(t, name) == Kept(t, {k \in DOMAIN t : t[k].name = name})

Compare(op, x, y) == \/ op = "EQUALS" /\ x = y
                     \/ op = "NOT_EQUAL" /\ x # y
                     \/ op = "GREATER_THAN" /\ Less(y, x)
                     \/ op = "LESS_THAN" /\ Less(x, y)

\* The first field of that name decides; a tuple without one does not match.
SelectionMatches(n, t) ==
    LET fs == Named(t, n.field) IN fs # <<>> /\ Compare(n.op, fs[1].data, n.value)

\* The fields in the order of the names asked for, all fields of a name.
Projected(n, t) == FlattenSeq([k \in DOMAIN n.names |-> Named(t, n.names[k])])

HasSortKey(n, t) == Named(t, n.key) # <<>>

\* The last field of that name is the sort key.
SortKey(n, t) == LET fs == Named(t, n.key) IN fs[Len(fs)].data

Precedes(n, t, u) == IF n.order = "ASCENDING"
                     THEN Less(SortKey(n, t), SortKey(n, u))
                     ELSE Less(SortKey(n, u), SortKey(n, t))

InOrder(n, s) == \A a, b \in DOMAIN s : a < b => ~Precedes(n, s[b], s[a])

\* What std::sort may leave: it is not stable, so equal keys come in any order.
Sortings(n, s) ==
    {p \in {[k \in DOMAIN s |-> s[f[k]]] : f \in Bijection(DOMAIN s, DOMAIN s)} : InOrder(n, p)}

-----------------------------------------------------------------------------
Top == frames[Len(frames)]

\* Node i is at the start of its next().
Entered(i, kind) == /\ frames # <<>> /\ ~returned
                  /\ i = Top /\ Node(i).kind = kind

\* Node i's call of its child's next() has come back.
Resumed(i, kind) == /\ frames # <<>> /\ returned
                  /\ i = Top /\ Node(i).kind = kind

Pull(i) == /\ frames' = Append(frames, Child(i))
           /\ returned' = FALSE
           /\ UNCHANGED <<reply, calls, outcome>>

Return(i, r) == /\ frames' = Front(frames)
                /\ returned' = TRUE
                /\ reply' = r
                /\ out' = [out EXCEPT ![i] = @ \o r]
                /\ ended' = IF r = <<>> THEN ended \cup {i} ELSE ended
                /\ UNCHANGED <<calls, outcome>>

\* The exception leaves every call in progress.
Throw == /\ frames' = <<>>
         /\ returned' = FALSE
         /\ outcome' = "threw"
         /\ UNCHANGED <<reply, calls>>

-----------------------------------------------------------------------------
(* Faulty versions of actions below: each property must notice one of them. *)

ScanRewinds(i) == /\ Entered(i, "scan")
                  /\ IF current > Len(tuples)
                     THEN Return(i, <<>>) /\ current' = 1
                     ELSE Return(i, <<tuples[current]>>) /\ current' = current + 1
                  /\ UNCHANGED <<plan, tuples, limit, sorted, record, gap, threw>>

SelectionInsists(i) == /\ \/ Entered(i, "selection")
                          \/ /\ Resumed(i, "selection")
                             /\ reply # <<>> => ~SelectionMatches(Node(i), reply[1])
                       /\ Pull(i)
                       /\ UNCHANGED <<machine, history>>

SortRepeatsFirst(i) == /\ Resumed(i, "sort")
                       /\ reply = <<>>
                       /\ sorted[i] # <<>>
                       /\ \E s \in Sortings(Node(i), sorted[i]) :
                            /\ sorted' = [sorted EXCEPT ![i] = s]
                            /\ Return(i, <<s[1]>>)
                       /\ record' = [record EXCEPT ![i] = 1]
                       /\ UNCHANGED <<plan, tuples, current, limit, gap, threw>>

SortForgetsRecord(i) == /\ Resumed(i, "sort")
                        /\ reply = <<>>
                        /\ sorted[i] # <<>>
                        /\ \E s \in Sortings(Node(i), sorted[i]) :
                             /\ sorted' = [sorted EXCEPT ![i] = s]
                             /\ Return(i, <<s[1]>>)
                        /\ UNCHANGED <<plan, tuples, current, limit, record, gap, threw>>

-----------------------------------------------------------------------------
Init == /\ plan \in Plans
        /\ tuples \in Tables
        /\ current = 1
        /\ limit = [i \in Nodes |-> IF Node(i).kind = "limit" THEN Node(i).limit ELSE 0]
        /\ sorted = [i \in Nodes |-> <<>>]
        /\ record = [i \in Nodes |-> 0]
        /\ frames = <<>>
        /\ reply = <<>>
        /\ returned = FALSE
        /\ calls = 0
        /\ outcome = "running"
        /\ out = [i \in Nodes |-> <<>>]
        /\ ended = {}
        /\ gap = {}
        /\ threw = {}

\* The caller calls next() on an iterator it holds; after an exception, too.
Call(i) == /\ frames = <<>>
           /\ outcome # "crashed"
           /\ calls < MaxCalls
           /\ calls' = calls + 1
           /\ frames' = <<i>>
           /\ returned' = FALSE
           /\ outcome' = "running"
           /\ UNCHANGED <<machine, reply, history>>

ScanNext(i) == /\ Entered(i, "scan")
               /\ IF current > Len(tuples)
                  THEN Return(i, <<>>) /\ UNCHANGED current
                  ELSE Return(i, <<tuples[current]>>) /\ current' = current + 1
               /\ UNCHANGED <<plan, tuples, limit, sorted, record, gap, threw>>

LimitNext(i) == /\ Entered(i, "limit")
                /\ limit[i] > 0
                /\ limit' = [limit EXCEPT ![i] = @ - 1]
                /\ Pull(i)
                /\ UNCHANGED <<plan, tuples, current, sorted, record, history>>

LimitReached(i) == /\ Entered(i, "limit")
                   /\ limit[i] = 0
                   /\ Return(i, <<>>)
                   /\ UNCHANGED <<machine, gap, threw>>

LimitReturn(i) == /\ Resumed(i, "limit")
                  /\ Return(i, reply)
                  /\ UNCHANGED <<machine, gap, threw>>

\* The loop's first pull, or one more after a tuple that does not match.
SelectionPull(i) == /\ \/ Entered(i, "selection")
                       \/ /\ Resumed(i, "selection")
                          /\ reply # <<>>
                          /\ ~SelectionMatches(Node(i), reply[1])
                    /\ Pull(i)
                    /\ UNCHANGED <<machine, history>>

SelectionReturn(i) == /\ Resumed(i, "selection")
                      /\ reply # <<>> => SelectionMatches(Node(i), reply[1])
                      /\ Return(i, reply)
                      /\ UNCHANGED <<machine, gap, threw>>

ProjectionPull(i) == /\ Entered(i, "projection")
                     /\ Pull(i)
                     /\ UNCHANGED <<machine, history>>

\* A tuple with none of the fields gives nullopt, as the end of the child does.
ProjectionReturn(i) ==
    /\ Resumed(i, "projection")
    /\ LET fields == IF reply = <<>> THEN <<>> ELSE Projected(Node(i), reply[1])
       IN  /\ Return(i, IF fields = <<>> THEN <<>> ELSE <<fields>>)
           /\ gap' = IF reply # <<>> /\ fields = <<>> THEN gap \cup {i} ELSE gap
    /\ UNCHANGED <<machine, threw>>

\* next() with an empty buffer asks the child, on every such call.
SortPull(i) == /\ Entered(i, "sort")
               /\ sorted[i] = <<>>
               /\ Pull(i)
               /\ UNCHANGED <<machine, history>>

SortStore(i) == /\ Resumed(i, "sort")
                /\ reply # <<>>
                /\ HasSortKey(Node(i), reply[1])
                /\ sorted' = [sorted EXCEPT ![i] = Append(@, reply[1])]
                /\ Pull(i)
                /\ UNCHANGED <<plan, tuples, current, limit, record, history>>

\* The tuples stored before this one stay in d_tuples.
SortThrow(i) == /\ Resumed(i, "sort")
                /\ reply # <<>>
                /\ ~HasSortKey(Node(i), reply[1])
                /\ Throw
                /\ threw' = threw \cup {i}
                /\ UNCHANGED <<machine, out, ended, gap>>

SortNothing(i) == /\ Resumed(i, "sort")
                  /\ reply = <<>>
                  /\ sorted[i] = <<>>
                  /\ Return(i, <<>>)
                  /\ UNCHANGED <<machine, gap, threw>>

\* std::sort, d_currentRecord = begin(), and the first tuple is returned.
SortAndReturn(i) == /\ Resumed(i, "sort")
                    /\ reply = <<>>
                    /\ sorted[i] # <<>>
                    /\ \E s \in Sortings(Node(i), sorted[i]) :
                         /\ sorted' = [sorted EXCEPT ![i] = s]
                         /\ Return(i, <<s[1]>>)
                    /\ record' = [record EXCEPT ![i] = 2]
                    /\ UNCHANGED <<plan, tuples, current, limit, gap, threw>>

SortNext(i) == /\ Entered(i, "sort")
               /\ sorted[i] # <<>>
               /\ record[i] # 0
               /\ IF record[i] > Len(sorted[i])
                  THEN Return(i, <<>>) /\ UNCHANGED record
                  ELSE /\ Return(i, <<sorted[i][record[i]]>>)
                       /\ record' = [record EXCEPT ![i] = @ + 1]
               /\ UNCHANGED <<plan, tuples, current, limit, sorted, gap, threw>>

\* A filled buffer whose d_currentRecord was never set: the null iterator of
\* libstdc++ differs from end() and is dereferenced.
SortUnset(i) == /\ Entered(i, "sort")
                /\ sorted[i] # <<>>
                /\ record[i] = 0
                /\ outcome' = "crashed"
                /\ frames' = <<>>
                /\ UNCHANGED <<machine, reply, returned, calls, history>>

Step(i) == \/ ScanNext(i)
           \/ LimitNext(i) \/ LimitReached(i) \/ LimitReturn(i)
           \/ SelectionPull(i) \/ SelectionReturn(i)
           \/ ProjectionPull(i) \/ ProjectionReturn(i)
           \/ SortPull(i) \/ SortStore(i) \/ SortThrow(i) \/ SortNothing(i)
           \/ SortAndReturn(i) \/ SortNext(i) \/ SortUnset(i)

Next == (\E i \in plan.handles : Call(i)) \/ (\E i \in Nodes : Step(i))

\* A call in progress runs on: nothing in it waits.
FairSpec == Init /\ [][Next]_vars /\ WF_vars(\E i \in Nodes : Step(i))

-----------------------------------------------------------------------------
(* Properties. *)

\* Type invariant.
TypeOK == /\ current \in 1..Len(tuples) + 1
          /\ \A i \in Nodes : Node(i).kind = "limit" => limit[i] \in 0..Node(i).limit
          /\ \A i \in Nodes : record[i] \in 0..Len(sorted[i]) + 1
          /\ \A k \in 1..Len(frames) - 1 : frames[k + 1] = Child(frames[k])
          /\ Len(reply) <= 1

\* Below[i]: the nodes node i reaches through its child.
Below[i \in Nodes] == IF Node(i).kind = "scan" THEN {} ELSE {Child(i)} \cup Below[Child(i)]

Readers(c) == {i \in Nodes : Node(i).kind # "scan" /\ Child(i) = c}

\* Nobody else takes tuples from what node i is built on.
Exclusive(i) ==
    \A c \in Below[i] : c \notin plan.handles /\ Readers(c) \subseteq {i} \cup Below[i]

Disturbed(i) == Below[i] \cap gap # {} \/ ({i} \cup Below[i]) \cap threw # {}

Matching(n, s)   == Kept(s, {k \in DOMAIN s : SelectionMatches(n, s[k])})
Projections(n, s) ==
    LET p == [k \in DOMAIN s |-> Projected(n, s[k])] IN Kept(p, {k \in DOMAIN s : p[k] # <<>>})

\* What iterator n makes of the list s, as an operation on the whole list.
Meaning(n, s) ==
    CASE n.kind = "limit"      -> {SubSeq(s, 1, IF n.limit < Len(s) THEN n.limit ELSE Len(s))}
      [] n.kind = "selection"  -> {Matching(n, s)}
      [] n.kind = "projection" -> {Projections(n, s)}
      [] n.kind = "sort"       -> IF \A k \in DOMAIN s : HasSortKey(n, s[k]) THEN Sortings(n, s) ELSE {<<>>}

\* Answers[i]: what the query at node i means.
Answers[i \in Nodes] ==
    IF Node(i).kind = "scan" THEN {tuples} ELSE UNION {Meaning(Node(i), s) : s \in Answers[Child(i)]}

\* The tuples an iterator has returned are always the beginning of an answer to
\* its query over the whole table, and all of that answer once it has returned
\* nullopt: pulling one tuple at a time through the next() functions computes
\* the same as the list operations do, whatever the order of the calls.
\* Excepted are iterators whose tuples somebody else takes too, that sit above a
\* projection that met a tuple without its fields, or whose sort threw.
RowsFollowPlan ==
    \A i \in Nodes :
        Exclusive(i) /\ ~Disturbed(i) =>
            \E s \in Answers[i] : /\ IsPrefix(out[i], s)
                                  /\ (i \in ended \ gap) => out[i] = s

\* After nullopt an iterator gives no tuple any more, also when it shares its
\* child with others, unless it is, or is above, a projection that returned
\* nullopt for a tuple (projectioniterator.cpp returns nullopt for both), or a
\* sort that threw and was called again.
EndIsFinal ==
    [][\A i \in Nodes : i \in ended /\ i \notin gap /\ ~Disturbed(i) => out'[i] = out[i]]_vars

Roots == {i \in Nodes : Readers(i) = {}}

\* Iterators that share a child split its tuples: a row comes out of the plan's
\* roots no more often than it is in the table.  The variables keep their types,
\* and the calls in progress follow the plan.
NoRowTwice ==
    /\ TypeOK
    /\ (\A i \in Nodes : Node(i).kind # "projection") =>
          \A t \in UNION {Range(out[i]) : i \in Roots} :
              LET shown == {e \in UNION {{i} \X DOMAIN out[i] : i \in Roots} : out[e[1]][e[2]] = t}
              IN  Cardinality(shown) <= Cardinality({k \in DOMAIN tuples : tuples[k] = t})

\* d_currentRecord is dereferenced unset only when next() is called on a sort
\* again after it threw with tuples already stored.
CrashCauses == outcome = "crashed" =>
                 \E i \in threw : sorted[i] # <<>> /\ record[i] = 0

\* Every call of next() returns or throws: the loops of selection and sort end
\* because every pull moves the scan on.
CallsReturn == frames # <<>> ~> frames = <<>>

=============================================================================
