---------------------------------- MODULE Ls ----------------------------------
(***************************************************************************)
(* The ls command of prep-phase/c/ls/ls.c, over a file system that other   *)
(* processes remove entries from while ls walks it: every lstat, opendir   *)
(* and readdir is a step of its own.                                       *)
(*                                                                         *)
(* A file or directory is a member of Entry with constant attributes.  An  *)
(* item is what getFileInfo returns for a name: the name and the entry it  *)
(* stands for; "." and ".." are names too.  A call of                      *)
(* listDirectoryContents is a frame of stack.                              *)
(***************************************************************************)
EXTENDS Integers, SequencesExt

CONSTANTS Entry,       \* files and directories
          Dir,         \* the directories
          Parent,      \* Parent[e]: the directory of e, or Outside
          Outside,     \* whatever is above the tree
          Hidden,      \* entries whose name begins with a dot
          Rank,        \* Rank[n]: place of a name, "." and ".." among them, in strcmp's order
          Size, Time,  \* st_size and st_mtimespec
          NameLen,     \* length of the name
          Unreadable,  \* directories opendir refuses
          Unreachable, \* directories whose entries lstat may refuse: it takes the permission
                       \* to search them, and their path is cut at 1023 bytes
          Overlong,    \* names of more than 1024 bytes, which lstat refuses
          NoOwner,     \* entries whose user or group has no name
          Commands,    \* command lines: sequences of flags and names
          Widths,      \* terminal widths, 0 for unknown; COLUMNS may be negative
          Cwd,         \* what "." means
          IntValues,   \* number of values of an int
          MaxRemovals, \* bound: entries others remove
          MaxDepth     \* bound: calls of listDirectoryContents the stack holds

\* The stack holds a call for each level of the tree.
ASSUME TreeAssumption ==
    /\ IsFiniteSet(Entry) /\ Dir \subseteq Entry
    /\ Outside \notin Entry /\ {".", ".."} \cap Entry = {} /\ Overlong \cap Entry = {}
    /\ \A e \in Entry : Parent[e] \in Dir \cup {Outside}
    /\ MaxDepth \in Nat
    /\ \E depth \in [Dir -> 1..MaxDepth] :
          \A d \in Dir : Parent[d] \in Dir => depth[Parent[d]] < depth[d]

ASSUME AttributeAssumption ==
    /\ Rank \in [Entry \cup {".", ".."} -> Nat] /\ NameLen \in [Entry -> Nat]
    /\ Size \in [Entry -> Int] /\ Time \in [Entry -> Int]
    /\ Widths \subseteq Int /\ IntValues \in Nat \ {0}

VARIABLES pc,       \* "parse", "stat", "files", "dirs", "walk", "done", "crashed", "counting"
          args,     \* what is left of argv
          options,  \* the flags
          tty,      \* isatty(1)
          width,    \* the terminal's width
          alive,    \* entries that exist
          files,    \* regularFileList
          dirs,     \* directoryList, later sortedDirectoryInfo
          begun,    \* how many of dirs have been opened
          header,   \* printHeaderRow of the directories on the command line
          stack,    \* calls of listDirectoryContents, the first at the front
          out       \* what was printed: a sequence of listings

vars == <<pc, args, options, tty, width, alive, files, dirs, begun, header, stack, out>>
ui == <<tty, width>>

-----------------------------------------------------------------------------
(* Items and their order. *)

Item(e) == [name |-> e, node |-> e]
DotItems(d) == {[name |-> ".", node |-> d], [name |-> "..", node |-> Parent[d]]}

IsDirItem(x) == x.node \in Dir \cup {Outside}

RankOf(x) == Rank[x.name]

\* valcmp takes ints: a size or a time is cut to that width.
AsInt(n) == LET half == IntValues \div 2 IN ((n + half) % IntValues) - half

\* Mutant of Before: -S looks at the size as it is wanted for -r.
BeforeSmallest(opts, x, y) ==
    LET size(z) == IF z.node = Outside THEN 0 ELSE AsInt(Size[z.node])
        time(z) == IF z.node = Outside THEN 0 ELSE AsInt(Time[z.node])
    IN  IF "S" \in opts THEN size(x) < size(y)
        ELSE \/ "t" \in opts /\ time(x) > time(y)
             \/ ("t" \in opts => time(x) = time(y)) /\ RankOf(x) < RankOf(y)

\* compare(x, y) < 0 for the comparison without -r.
Before(opts, x, y) ==
    LET size(z) == IF z.node = Outside THEN 0 ELSE AsInt(Size[z.node])
        time(z) == IF z.node = Outside THEN 0 ELSE AsInt(Time[z.node])
    IN  IF "S" \in opts THEN size(x) > size(y)
        ELSE \/ "t" \in opts /\ time(x) > time(y)
             \/ ("t" \in opts => time(x) = time(y)) /\ RankOf(x) < RankOf(y)

\* compare(x, y) < 0 for the comparison sortFileInfo chooses.
Precedes(opts, x, y) == IF "r" \in opts THEN Before(opts, y, x) ELSE Before(opts, x, y)

\* The keys of the function items, but for those in p, whose item no other precedes.
Firsts(opts, items, p) ==
    LET left == DOMAIN items \ {p[i] : i \in DOMAIN p}
    IN  {k \in left : \A m \in left : ~Precedes(opts, items[m], items[k])}

\* sortFileInfo: qsort may leave items that compare equal in any order.
Sorted(opts, items) ==
    LET orders[n \in 0..Cardinality(DOMAIN items)] ==
          IF n = 0 THEN {<<>>}
          ELSE UNION {{Append(p, k) : k \in Firsts(opts, items, p)} : p \in orders[n - 1]}
    IN  {[i \in DOMAIN p |-> items[p[i]]] : p \in orders[Cardinality(DOMAIN items)]}

\* The elements of s at the positions in K, in their order.
Kept(s, K) ==
    LET upTo[n \in 0..Len(s)] ==
          IF n = 0 THEN <<>> ELSE IF n \in K THEN Append(upTo[n - 1], s[n]) ELSE upTo[n - 1]
    IN  upTo[Len(s)]

-----------------------------------------------------------------------------
(* listFileInfo. *)

Padding == 5

NameLength(x) == CASE x.name = "."  -> 1
                   [] x.name = ".." -> 2
                   [] OTHER         -> NameLen[x.name]

Magnitude(n) == IF n < 0 THEN -n ELSE n

\* The division of two ints rounds toward 0.
NumColumns(items) ==
    LET column == Max({NameLength(items[i]) : i \in DOMAIN items}) + Padding
        number == Magnitude(width) \div column
    IN  IF width < 0 THEN -number ELSE number

\* Mutant of NumRows: the last, shorter row is not counted.
NumRowsDown(items) == Len(items) \div NumColumns(items)

NumRows(items) == Len(items) \div NumColumns(items)
                    + (IF Len(items) % NumColumns(items) # 0 THEN 1 ELSE 0)

\* listFilesMultiColumnOutput: row by row, down the columns.
Columns(items) ==
    LET rows == NumRows(items)
        cols == NumColumns(items)
        at(row, col) == col * (rows - 1) + col + row
        cells == [k \in 1..(rows * cols) |-> at((k - 1) \div cols, (k - 1) % cols) + 1]
        filled == Kept(cells, {k \in DOMAIN cells : cells[k] <= Len(items)})
    IN  [k \in DOMAIN filled |-> items[filled[k]]]

MultiColumn == "l" \notin options /\ "1" \notin options /\ ("C" \in options \/ tty)

\* getpwuid returns NULL for an unknown owner; a terminal narrower than a
\* column makes numColumns 0, by which count is divided.
ListingCrashes(items) ==
    \/ "l" \in options /\ \E i \in DOMAIN items : items[i].node \in NoOwner
    \/ MultiColumn /\ items # <<>> /\ width # 0 /\ NumColumns(items) = 0

\* As a size_t a negative numColumns is close to 2^64: all the items are in the
\* first row, and the loop over its columns does not end.
CountsForEver(items) == MultiColumn /\ items # <<>> /\ NumColumns(items) < 0

Shown(items) ==
    IF "l" \in options \/ "1" \in options THEN items
    ELSE IF MultiColumn
         THEN IF items # <<>> /\ width > 0 THEN Columns(items) ELSE items
         ELSE <<>>

\* A listing, with the list it was made from.
Listing(d, head, found, items) ==
    [dir |-> d, header |-> head, found |-> found, shown |-> Shown(items)]

-----------------------------------------------------------------------------
Init == /\ pc = "parse"
        /\ args \in Commands
        /\ options = {}
        /\ tty \in BOOLEAN
        /\ width \in Widths
        /\ alive = Entry
        /\ files = <<>>
        /\ dirs = <<>>
        /\ begun = 0
        /\ header = FALSE
        /\ stack = <<>>
        /\ out = <<>>

\* Other processes remove files and empty directories.
OtherRemoves(e) ==
             /\ pc \notin {"done", "crashed", "counting"}
             /\ e \in alive
             /\ \A f \in alive : Parent[f] # e
             /\ Cardinality(Entry \ alive) < MaxRemovals
             /\ alive' = alive \ {e}
             /\ UNCHANGED <<pc, args, options, ui, files, dirs, begun, header, stack, out>>

IsFlags(arg) == "flags" \in DOMAIN arg

\* parseOptionalArguments: flags up to the first name, and "." if no name follows.
ParseFlags == /\ pc = "parse"
              /\ args # <<>> /\ IsFlags(Head(args))
              /\ options' = options \cup Head(args).flags
              /\ args' = Tail(args)
              /\ UNCHANGED <<pc, ui, alive, files, dirs, begun, header, stack, out>>

ParseNames == /\ pc = "parse"
              /\ args # <<>> => ~IsFlags(Head(args))
              /\ args' = IF args = <<>> THEN <<[name |-> Cwd]>> ELSE args
              /\ pc' = "stat"
              /\ UNCHANGED <<options, ui, alive, files, dirs, begun, header, stack, out>>

Crash == /\ pc' = "crashed"
         /\ UNCHANGED <<args, options, ui, alive, files, dirs, begun, header, stack, out>>

\* What lstat may answer for a node of directory d: it is there, or not.
Lstat(node, d) ==
    {found \in BOOLEAN : IF found THEN node \in alive \cup {Outside}
                         ELSE node \notin alive \cup {Outside} \/ d \in Unreachable}

\* getInfoForFilenames, one name; what looks like flags is a name here.
StatName ==
    /\ pc = "stat"
    /\ args # <<>>
    /\ args' = Tail(args)
    /\ LET arg == Head(args)
           item == Item(arg.name)
       IN  \E found \in IF IsFlags(arg) \/ arg.name \notin alive THEN {FALSE}
                        ELSE Lstat(arg.name, Parent[arg.name]) :
             LET listed == found /\ IsDirItem(item) /\ "d" \notin options
             IN  /\ dirs' = IF listed THEN Append(dirs, item) ELSE dirs
                 /\ files' = IF found /\ ~listed THEN Append(files, item) ELSE files
    /\ UNCHANGED <<pc, options, ui, alive, begun, header, stack, out>>

NextIsOverlong == args # <<>> /\ ~IsFlags(Head(args)) /\ Head(args).name \in Overlong

\* getFileInfo prints a name lstat refuses into prefix: what lies behind the array
\* is overwritten, which ls may survive (StatName) or not.
OverflowPrefix == pc = "stat" /\ NextIsOverlong /\ Crash

NamesDone == /\ pc = "stat"
             /\ args = <<>>
             /\ pc' = "files"
             /\ UNCHANGED <<args, options, ui, alive, files, dirs, begun, header, stack, out>>

\* processLSCommand: the files first, then the directories, sorted.
ListFiles ==
    /\ pc = "files"
    /\ \E fs \in Sorted(options, files), ds \in Sorted(options, dirs) :
         IF fs # <<>> /\ ListingCrashes(fs) THEN Crash
         ELSE /\ out' = IF fs = <<>> THEN out ELSE Append(out, Listing(Outside, FALSE, {}, fs))
              /\ dirs' = ds
              /\ header' = (Len(files) + Len(dirs) > 1)
              /\ pc' = IF CountsForEver(fs) THEN "counting" ELSE "dirs"
              /\ UNCHANGED <<args, options, ui, alive, files, begun, stack>>

\* A dead or unreadable directory: opendir returns NULL, which readdir gets.
\* Deeper than the stack goes: the process is killed.
OpenFails(x) == \/ x.node # Outside /\ (x.node \notin alive \/ x.node \in Unreadable)
                \/ Len(stack) = MaxDepth

Visible(e) == e \in Hidden => options \cap {"a", "A"} # {}

Children(d) == {Item(e) : e \in {f \in alive : Parent[f] = d /\ Visible(f)}}
                 \cup (IF "a" \in options THEN DotItems(d) ELSE {})

\* A call of listDirectoryContents.  Nothing is known of what is Outside.
NewFrame(x, head) == [dir    |-> x.node,
                      header |-> head,
                      unread |-> IF x.node = Outside THEN {} ELSE Children(x.node),
                      items  |-> {},
                      todo   |-> <<>>,
                      listed |-> FALSE]

\* listDirectoryInfo: the next directory of the command line.
OpenNamed ==
    /\ pc = "dirs"
    /\ begun < Len(dirs)
    /\ IF OpenFails(dirs[begun + 1]) THEN Crash
       ELSE /\ stack' = <<NewFrame(dirs[begun + 1], header)>>
            /\ begun' = begun + 1
            /\ pc' = "walk"
            /\ UNCHANGED <<args, options, ui, alive, files, dirs, header, out>>

Finish == /\ pc = "dirs"
          /\ begun = Len(dirs)
          /\ pc' = "done"
          /\ UNCHANGED <<args, options, ui, alive, files, dirs, begun, header, stack, out>>

Frame == stack[Len(stack)]
SetFrame(f) == stack' = [stack EXCEPT ![Len(stack)] = f]

\* Mutant of ReadEntry: what lstat could not find is used all the same.
ReadEntryUnchecked ==
    /\ pc = "walk"
    /\ \E x \in Frame.unread : \E found \in Lstat(x.node, Frame.dir) :
         IF ~found THEN Crash
         ELSE /\ SetFrame([Frame EXCEPT !.unread = @ \ {x}, !.items = @ \cup {x}])
              /\ UNCHANGED <<pc, args, options, ui, alive, files, dirs, begun, header, out>>

\* Mutant of ReadEntry: a name lstat cannot find is tried again.
ReadEntryAgain ==
    /\ pc = "walk"
    /\ \E x \in Frame.unread : \E found \in Lstat(x.node, Frame.dir) :
         SetFrame(IF found THEN [Frame EXCEPT !.unread = @ \ {x}, !.items = @ \cup {x}]
                  ELSE Frame)
    /\ UNCHANGED <<pc, args, options, ui, alive, files, dirs, begun, header, out>>

\* readdir and lstat of one name, in whatever order the directory has; since
\* qsort follows, the order of the list is not kept.
ReadEntry ==
    /\ pc = "walk"
    /\ \E x \in Frame.unread : \E found \in Lstat(x.node, Frame.dir) :
         SetFrame([Frame EXCEPT !.unread = @ \ {x},
                                !.items = IF found THEN @ \cup {x} ELSE @])
    /\ UNCHANGED <<pc, args, options, ui, alive, files, dirs, begun, header, out>>

\* The entries are sorted and listed, and with -R the directories are next.
ListDirectory ==
    /\ pc = "walk"
    /\ Frame.unread = {} /\ ~Frame.listed
    /\ \E items \in Sorted(options, [x \in Frame.items |-> x]) :
         LET subdirs == Kept(items, {k \in DOMAIN items : IsDirItem(items[k])}) IN
         IF ListingCrashes(items) THEN Crash
         ELSE /\ out' = Append(out, Listing(Frame.dir, Frame.header, Frame.items, items))
              /\ SetFrame([Frame EXCEPT !.listed = TRUE,
                                        !.todo = IF "R" \in options THEN subdirs ELSE <<>>])
              /\ pc' = IF CountsForEver(items) THEN "counting" ELSE pc
              /\ UNCHANGED <<args, options, ui, alive, files, dirs, begun, header>>

\* The recursive call for the next directory.
Descend ==
    /\ pc = "walk"
    /\ Frame.listed /\ Frame.todo # <<>>
    /\ IF OpenFails(Head(Frame.todo)) THEN Crash
       ELSE /\ stack' = Append([stack EXCEPT ![Len(stack)].todo = Tail(@)],
                               NewFrame(Head(Frame.todo), TRUE))
            /\ UNCHANGED <<pc, args, options, ui, alive, files, dirs, begun, header, out>>

ReturnUp == /\ pc = "walk"
            /\ Frame.listed /\ Frame.todo = <<>>
            /\ stack' = Front(stack)
            /\ pc' = IF Len(stack) = 1 THEN "dirs" ELSE pc
            /\ UNCHANGED <<args, options, ui, alive, files, dirs, begun, header, out>>

Program == \/ ParseFlags \/ ParseNames \/ StatName \/ OverflowPrefix \/ NamesDone \/ ListFiles
           \/ OpenNamed \/ Finish
           \/ ReadEntry \/ ListDirectory \/ Descend \/ ReturnUp

Next == Program \/ \E e \in Entry : OtherRemoves(e)

Spec == Init /\ [][Next]_vars

\* ls does not wait for anybody.
FairSpec == Spec /\ WF_vars(Program)

-----------------------------------------------------------------------------
(* Properties. *)

Shows == "l" \in options \/ "1" \in options \/ MultiColumn

\* Type invariant, with the discipline of the stack.
LsTypeOK ==
    /\ pc \in {"parse", "stat", "files", "dirs", "walk", "done", "crashed", "counting"}
    /\ alive \subseteq Entry
    /\ \A i \in DOMAIN files : files[i].node \in Entry /\ ("d" \in options \/ files[i].node \notin Dir)
    /\ \A i \in DOMAIN dirs : dirs[i].node \in Dir
    /\ begun \in 0..Len(dirs)
    /\ pc = "walk" <=> stack # <<>> /\ pc \notin {"crashed", "counting"}
    /\ Len(stack) <= MaxDepth
    /\ \A k \in 1..Len(stack) - 1 : stack[k].listed

\* How often directory d was named and listed, item x found, and e shown in listing i.
TimesNamed(d) == Cardinality({k \in DOMAIN dirs : dirs[k].node = d})
TimesListed(d) == Cardinality({i \in DOMAIN out : out[i].dir = d})
TimesFound(x) == Cardinality({i \in DOMAIN out : x \in out[i].found})
TimesShown(e, i) == Cardinality({k \in DOMAIN out[i].shown : out[i].shown[k].name = e})

\* A directory is found by its name, as its own "." and as the ".." of one below.
Dot(d) == [name |-> ".", node |-> d]
DotDot(d) == [name |-> "..", node |-> d]

\* Each listing of a directory comes from every entry that is still there and whose
\* name is to be shown, but where lstat refuses entries that are there, and shows
\* what it comes from exactly once: no layout of the columns drops or repeats a
\* name.  When ls is done, each directory was listed as often as it was named and,
\* with -R, once more for each time it was found, by whatever name: the walk misses
\* and repeats nothing, whoever removed what meanwhile.  The variables keep their
\* types, and the stack of calls its discipline.
ListingIsComplete ==
    /\ LsTypeOK
    /\ \A i \in DOMAIN out : out[i].dir \in Dir =>
          /\ \A e \in alive : Parent[e] = out[i].dir /\ Visible(e) =>
                Item(e) \in out[i].found \/ out[i].dir \in Unreachable
          /\ \A e \in Entry : Item(e) \in out[i].found => Parent[e] = out[i].dir /\ Visible(e)
          /\ Shows => \A e \in Entry : TimesShown(e, i) = IF Item(e) \in out[i].found THEN 1 ELSE 0
    /\ pc = "done" =>
        \A d \in Dir :
            TimesListed(d) = TimesNamed(d)
              + (IF "R" \in options
                 THEN TimesFound(Item(d)) + TimesFound(Dot(d)) + TimesFound(DotDot(d)) ELSE 0)

Fits(x) == x.node \in Entry /\ AsInt(Size[x.node]) = Size[x.node] /\ AsInt(Time[x.node]) = Time[x.node]

\* What the flags promise of two entries in a listing, x printed before y.
InPromisedOrder(x, y) ==
    LET up == "r" \in options
    IN  IF "S" \in options
        THEN IF up THEN Size[x.node] <= Size[y.node] ELSE Size[x.node] >= Size[y.node]
        ELSE IF "t" \in options /\ Time[x.node] # Time[y.node]
        THEN IF up THEN Time[x.node] < Time[y.node] ELSE Time[x.node] > Time[y.node]
        ELSE IF up THEN RankOf(x) >= RankOf(y) ELSE RankOf(x) <= RankOf(y)

\* Every listing is in the order its flags ask for, -S before -t and -r turning
\* either round, for sizes and times that an int holds.
ListingIsSorted ==
    "l" \in options \/ "1" \in options =>
        \A i \in DOMAIN out : \A j, k \in DOMAIN out[i].shown :
            LET x == out[i].shown[j]
                y == out[i].shown[k]
            IN  j < k /\ Fits(x) /\ Fits(y) => InPromisedOrder(x, y)

\* ls dies only at an overlong name it was given, or where it lists: of a directory
\* (never a file) that vanished after its lstat or that it may not open, of an owner
\* without a name, of a terminal narrower than a column (with -a that of ".." too),
\* or of -a with -R, where "." is a subdirectory of itself.
CrashHasCause ==
    pc = "crashed" =>
        \/ NextIsOverlong
        \/ \E d \in Dir : d \notin alive
        \/ Unreadable # {}
        \/ "l" \in options /\ NoOwner # {}
        \/ /\ MultiColumn /\ width # 0
           /\ \/ \E e \in Entry : Magnitude(width) < NameLen[e] + Padding
              \/ "a" \in options /\ Magnitude(width) < 2 + Padding
        \/ {"a", "R"} \subseteq options

\* The walk ends, whatever is removed under it, but with a negative COLUMNS, which
\* the layout of the columns does not get over.
Terminates == <>(\/ pc \in {"done", "crashed"}
                 \/ pc = "counting" /\ MultiColumn /\ width < 0)
=============================================================================
