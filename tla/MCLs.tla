--------------------------------- MODULE MCLs ---------------------------------
(* A directory with two files, a hidden one and a subdirectory with a file and *)
(* an empty directory below.  The name g comes before "." in strcmp's order.  *)
EXTENDS Ls

MCEntry == {"top", "f", "g", "h", "sub", "x", "deep"}
MCDir == {"top", "sub", "deep"}
MCParent == [e \in MCEntry |-> CASE e = "top" -> "outside"
                                 [] e \in {"x", "deep"} -> "sub"
                                 [] OTHER -> "top"]
MCRank == [e \in MCEntry |-> CASE e = "g" -> 0 [] e = "h" -> 3 [] e = "deep" -> 4 [] e = "f" -> 5
                               [] e = "sub" -> 6 [] e = "top" -> 7 [] e = "x" -> 8]
            @@ ("." :> 1) @@ (".." :> 2)
\* The size of f does not fit an int of 8 values.
MCSize == [h |-> 0, deep |-> 1, f |-> 5, g |-> 2, sub |-> 1, top |-> 1, x |-> 3]
MCTime == [h |-> 2, deep |-> 1, f |-> 1, g |-> 2, sub |-> 3, top |-> 3, x |-> 1]
MCLen == [h |-> 2, deep |-> 4, f |-> 1, g |-> 1, sub |-> 3, top |-> 3, x |-> 1]

Flags(s) == [flags |-> s]
Name(e) == [name |-> e]

\* Walks, with entries vanishing.
WalkCommands == { <<Flags({"R", "1", "S", "r"}), Name("top"), Name("f")>>,
                  <<Flags({"A"}), Flags({"t", "1"}), Name("top"), Name("x"), Name("missing")>>,
                  <<Flags({"a", "R", "1", "t"}), Name("deep")>>,
                  <<Flags({"d", "l"}), Name("sub"), Name("g")>>,
                  <<Flags({"R", "1", "r"}), Name("sub"), Name("sub")>>,
                  <<Name("sub"), Flags({"l"})>>,
                  <<Flags({"1"}), Name("long"), Name("f")>>,
                  <<>> }

\* Layouts and orders.
LayoutCommands == { <<Flags(o)>> : o \in {{"C"}, {"A", "C"}, {"R", "C", "r"}, {"A", "C", "S", "r"},
                                          {"1"}, {"l", "t", "r"}, {"A", "l", "t"}, {"a", "S", "t", "1"},
                                          {"R", "l"}, {}} }

\* Terminals, and two negative COLUMNS: of a column or more, and of less.
MCWidths == {0, 8, 20, -20, -5}

MCCommands == WalkCommands \cup LayoutCommands
=============================================================================
