--------------------------- MODULE MCQueryIterators ---------------------------
EXTENDS QueryIterators

\* Rows as a list of tuples may hold them: equal and different keys, another
\* type in the same field, a missing field, a field twice.
Rows == {<<Field("a", 0, 1), Field("b", 0, 1)>>,
         <<Field("a", 2, 0), Field("b", 0, 1)>>,
         <<Field("b", 0, 0)>>,
         <<Field("a", 0, 0), Field("a", 0, 2)>>}

MCTables == UNION {[1..n -> Rows] : n \in 0..3}

\* The plan of the repository's test, with one scan under three iterators; the
\* usual order select, sort, project, limit; a sort above a projection; a sort and
\* a selection that share a scan; each comparison operator once.
MCPlans ==
    {[nodes |-> <<Scan, Limit(1, 1), Selection("b", "NOT_EQUAL", <<0, 0>>, 1), Projection(<<"b", "a">>, 3)>>,
      handles |-> {2, 3, 4}],
     [nodes |-> <<Scan, Selection("a", "LESS_THAN", <<2, 0>>, 1), Sort("b", "ASCENDING", 2), Limit(2, 3)>>,
      handles |-> {4}],
     [nodes |-> <<Scan, Projection(<<"a">>, 1), Sort("a", "DESCENDING", 2)>>,
      handles |-> {3}],
     [nodes |-> <<Scan, Sort("b", "ASCENDING", 1), Selection("a", "EQUALS", <<0, 1>>, 1)>>,
      handles |-> {2, 3}],
     [nodes |-> <<Scan, Selection("a", "GREATER_THAN", <<0, 0>>, 1), Limit(2, 2), Sort("a", "ASCENDING", 3), Projection(<<"b">>, 4)>>,
      handles |-> {5}]}
=============================================================================
