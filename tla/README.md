# Models of the programs in this repository

This directory holds TLA+ models of the repository's programs, TLC configurations
that check them on small instances, and proofs that TLAPS checks for every value
of their constants.

The repository is a collection of small, separate programs. None of them calls
another, with one exception: level2db is built on the skip list. So there is one
model per program, and one composition.

## The system

| Part (source) | State | Operations | What is hard |
|---|---|---|---|
| kvstore (`distributed-systems/kvstore/main.cpp`) | a map, `datastore.dat` | get, set, quit, SIGINT, start | a save truncates the file and rewrites it line by line; SIGINT at any point; the loader parses what the saver wrote, up to a line length |
| skip list (`storage-retrieval/skiplist/skiplist.h`) | nodes with up to 16 forward pointers | insert, remove, find | pointers of several levels, equal keys, the walk back up in `remove`, random levels |
| level2db (`.../level2db/`) | a `std::map` or a skip list | Get, Has, Put, Delete, RangeScan and its iterator | iterators into a live map; two back ends that should promise the same |
| echo, forward, proxy (`networks/http-prework/main.go`) | sockets, a parser's state | accept, receive, send, parse | packets cut anywhere; peers that vanish; one client at a time; a parser whose state survives a message |
| virtual machine (`introduction-to-computer-systems/introduction-prework/vm.go`) | 256 bytes, three registers | nine instructions | byte arithmetic that wraps, a PC that is a register |
| tomekdb (`database-systems/single-table-queries-prework/core/`) | a scan position, limits, sort buffers | `next()` of five iterators | iterators that share a child, exceptions, calls after the end |
| ls (`prep-phase/c/ls/ls.c`) | lists of files, a recursion | parse, lstat, opendir, readdir, sort, print | the file system changes between its steps; layouts; int comparisons |
| dns client (`networks/dns-prework/dns.go`) | the reply's buffer and a position in it | query, receive, decode | UDP without timeout or retry, replies of earlier runs, compression pointers, a mask in the wrong base |
| pcap parser (`networks/overview/parsecap.c`) | a list of payloads | read, sort, write | segments lost, repeated or cut anew, sequence numbers that wrap, a file that ends anywhere |
| vector (`.../optimization-prework/vec/vec.c`) | a length, an allocated length, data | new, free, get, set, set length, inner product | growing discards data, hidden elements come back, an unchecked `calloc` |
| metrics, page count, matrix multiply, loop order, assembly, benchmarks | none to speak of | arithmetic | floating point and caches, out of a model's reach |

Interactions: kvstore, ls and the pcap parser talk to a file system, the servers
and the DNS client to sockets, level2db calls the skip list, the tomekdb
iterators call each other through `next()`. There are no threads and no callbacks:
what interleaves with a program is its environment (a signal, clients, a server,
other processes, the owner of an iterator), and that is where the models put
their nondeterminism.

What makes each part correct:

* kvstore: a restart gives back what the user saw; a crash forgets and never
  invents or revives; an accepted set reaches the file.
* skip list: every level is a sorted chain of exactly the nodes that reach it, and
  find agrees with them.
* level2db: answers follow the last write, and a scan ascends, stays in range and
  misses no key that stayed.
* servers: the end of a message is found however it is cut; the response arrives
  whole; bytes of different clients do not mix; nobody waits for ever.
* virtual machine: programs compute what they say and do not change themselves.
* tomekdb: pulling tuple by tuple gives what the query means; the end is final.
* ls: every visible entry is shown once, in the order asked for; the walk ends.
* dns client: what is printed is what the server said to this query; decoding ends.
* pcap parser: the image is the stream in order, no byte twice and none missing.
* vector: an element reads as it was last written, inside storage that is there.

## Modules

### KVPromise, KVStore, KVStore_proofs

`KVStore` has one action per step of `mainLoop` and `processCommand`: `Start`
(load), `ReadLine`, `Invalid`, `Get`, `SetMemory`, `OpenTruncate`, `WriteLine` (one
`std::endl`, which flushes), `Close`, `Quit`, and `Interrupt`, which SIGINT may
take at every point. A line is a sequence of the tokens of its key and value with
the comma between, so that `Load` really parses what `Line` wrote; lines too
long for the loader's buffer are the constant `Overlong`. `KVPromise` is what a
user may count on: one map, gets that answer with the entry of the key typed, sets that
update the entry typed to the value typed, and a stop that loses entries only in the middle of a save or to an overlong line.
`KeepsPromise` is the refinement: `db` is `Visible`, the map that a user may count
on. It is the loaded file when the program is down and the map of before the
command until the truncating open.

### KeyStacks, SkipList

One action per insert; `remove` is cut into its search, each level of the walk
back up and the erase, because the walk's first index and the erase of `end()` are
undefined. `previousNodes[-1]` may read any pointer: `UnlinkBelow` lets it do
nothing or end the list (`fault`). Levels are chosen freely (`GenLevel = 0`, as
`std::rand` does) or by the cyclic `LevelGenerator`.

`KeyStacks` is the list as its callers may see it: for each key a stack of values. The
refinement maps the nodes of a key on the lowest level, from left to right, to its
stack: `Insert` is a push, and the one step of `remove` that takes the node off the
lowest level is the pop. `find` is not part of it, because what it returns is no top of
a stack: of several nodes with the key it returns the first of the highest ones
(`FindReturnsNewestOfHighest`), so an older value may hide a newer one.

The walks of `find`, `insert` and `remove` are recursive functions over nodes and
levels (`FindFrom`, `Advance`, `Previous`, `Chain`), so that theorems can speak of them.
Their proofs are in `Level2DB_proofs`.

### Level2DB, Level2DB_proofs

Extends `SkipList` and adds the `std::map` mode; `useSkipList` is the constructor's argument and never changes. The
iterator's state is the pair of positions it holds in the map (`cur`, `end`);
`Invalidate` is what an erase does to them. `iter.seen` and `iter.stable` are
histories: the keys shown, and those that were in the map during the whole scan. Whether the
end key belongs to a scan, the code and its test disagree (Observations): `ScanShowsRange` allows it and
does not ask for it.

### HTTPStream, HTTPProxy, HTTPProxy_proofs

`HTTPStream` is the parser as operators on the record of what
`streamInHTTPMessage` takes and returns, the shadowed variables of its special
case included. A message is a sequence of symbols, where `Content-Length: i` is
one symbol. The loop over a packet is the function `After`: the parser when it has read
`i` bytes, up to the end of a line or of the packet. `WellFormed` is a message as HTTP defines it,
whatever packets it comes in: it has an empty line, and after it as many bytes as the first header that
announces a length says. `MessageAssumption` asks this of all requests and responses.

`HTTPProxy` is the proxy, with external clients and an external
server. The server may refuse a connection, and close or reset it at any time (`server`): before its response, after
any byte of it (`HangUp` takes away what had not come by then), or after it. Every receive takes any number of the bytes that are there, up to
`BufSize`; `packets` is a history of how the stream was cut, so that properties
can say "unless a CRLF was split". `Received` is what the proxy last read, of the
response or, before there is any, of the request.

### TCPServers, TCPServers_proofs

The echo and forward modes with their clients. A client in `closed` closed its end or reset it:
a receive from it may fail (`ReceiveFails`), and so may a send (`EchoAnswer`). A byte is the pair of its client
and its position, so that mixing, loss and reordering are visible.

### VM

`compute` with one action per instruction and one per way to end, for a byte of
`W` values. `Fetched` is the check that `readMemory` makes on opcode accesses.

### QueryIterators

A plan is a sequence of iterators, each with the position of its child; `frames`
is the chain of `next()` calls in progress and `reply` what the innermost one
returned. Each iterator has an action for entering `next()` and one for each way
its child's answer is handled. `Answers` is the reference: the query as operations
on whole lists (`Kept` filters, for tuples as for fields), all sortings where `std::sort` may choose. A sort that is called
again after its exception dereferences a null iterator (`SortUnset`). The operators
`Scan`, `Limit`, `Selection`, `Projection` and `Sort` are the constructors; `PlanAssumption`
says what plans they can build, `TableAssumption` that a table is a list of tuples, a tuple a list of fields
and a field's data a pair of numbers. `Meaning` says what one iterator makes of a whole list.

### Ls, Ls_proofs

One action per flag, per name with its `lstat`, per `opendir`, per `readdir` with its
`lstat`, per listing and per return of `listDirectoryContents`, with `stack` for
the recursion. `OtherRemoves` takes files and empty directories away between any two
of them. `qsort` may leave equal items in any order: `Sorted` is every order in which no item
comes after one that it precedes. `lstat` fails for what is gone, and may fail for what is there
(`Lstat`): below the directories `Unreachable`, and for the names `Overlong`, which then overflow the array that the message
is printed into (`OverflowPrefix`). A listing keeps what it was made from (`found`), so that the properties can tell what
lstat refused from what the layout dropped. `COLUMNS` may be negative; then the loop over the columns does not end
(`CountsForEver`, and `pc` is `counting`). `AsInt` is the cut to an int that `valcmp` makes; `Columns` is
the multi-column index arithmetic, which prints the cells that hold an item row by row (`Kept`).
`TreeAssumption` says that the directories are a tree of at most `MaxDepth` levels and that
no entry is called `.` or `..`; `AttributeAssumption` gives lengths, sizes and times their types.

### DNSMessage, DNSClient

`DNSMessage` is external: the format of RFC 1035 as servers write and mean it. A name is read by
recursive functions, so that theorems can speak of them: the positions it is read from (`Trail`),
where that ends (`EndOf`), and the labels up to each of them (`LabelsTo`).
`DNSClient` is `dns.go` over the bytes of such messages, one action per branch of the
decoder: the pointers at the start of a name, the first length, an octet copied, a
pointer followed, a next label, the end; then the fields, the data and the printing of a
record. Positions that the code cuts to one byte are cut (`B(dec.at + 1)`), and `Masked`
is its `& 80`. The environment is a network that delays and loses datagrams, a server
that answers each query with `Zone[name]`, and a user who interrupts a run and starts
the next; all runs bind the same port and use the same ID. `abandoned`, `lost` and `runs`
are histories. A name is in `abandoned` when a run that asked for it ended before it had its reply:
the user stopped it, or it took the late reply of another run. `ZoneAssumption` is what is asked of
the server: names as DNS has them (`IsName`), replies as the RFC has them (`WrittenReply`), and short enough that what is
taken for records stays in the buffer of 1024 bytes, as every reply of up to 512 bytes is, the most
that DNS sends over UDP. `PlainRecord` says what the decoder can read.

### Reassembly

`parsecap.c`, with the capture chosen as it is read: payloads that are any stretch of a
connection's stream, packets without a payload, a truncated one, one of another format than the first, and the
end of the file at any point, inside a payload too (its buffer is then filled up with
zeros). That a packet is TCP over IPv4 is nowhere checked, so in a capture of another format any packet may seem
to have a payload (`OtherPayload`, `Foreign`). The body may hold further delimiters (`InBody`) and bytes 0
(`Nuls`), at which `strstr` stops (`Found`). `Write(k)` takes one of the least payloads not yet taken, as `qsort` may leave equal
ones in any order; the comparison with the number before it and the search for the header
are part of it.

`Packets_proofs` holds the proofs about `Reassembly` and `DNSClient`, both of `networks/`.

### Vec, ComputerSystems_proofs

The calls of `vec.c` and the inner product of `dotproduct.c` in any order. `calloc` in
`set_vec_length` may give NULL, which the code stores; `crashed` is a touch of storage that
is not there. In `dotproduct` the vector `v` may be shorter than `u`: `get_vec_element` then
leaves `v_val` as it was, and the first time it was nothing, so any value.
`written`, `highest` and `failed` are histories.
`ComputerSystems_proofs` holds the proofs about `VM` and `Vec`, both of `introduction-to-computer-systems/`.

## Runs

| Run | Instance | What it shows |
|---|---|---|
| `kvstore` | 2 tokens, lines of up to 2 | durability, crash safety, refinement, and that a set reaches the file |
| `skiplist` | 2 keys, 2 values, 2 levels, 4 nodes | structure of every level, what find returns, refinement of `KeyStacks` |
| `level2db` | both modes, 3 keys, 2 values, a list of 2 nodes, one scan at a time | answers, the scan while the map changes (its end key left open), and the only ways out of defined behaviour |
| `level2db_gone` | skip-list mode | a key deleted is still there if it was put twice |
| `proxy` | 2 clients, a request with and one without a body, three responses, a server that hangs up or resets anywhere | when requests end, what kills the proxy, when responses are whole, that a served client is served to the end unless the response is cut short |
| `servers` | both modes, 3 clients, messages of 3 bytes, a buffer of 2 | who ends the echo server; blocks of bytes; no loss; a served client is left |
| `vm` | `W = 256`, the programs of `vm_test.go` and 10,000 others | the tests halt with their result; no self-modification; every end is the text's |
| `query` | 5 plans, all tables of up to 3 of 4 rows, 5 calls | the iterators compute the query; causes of early ends and of the crash |
| `ls` | 18 command lines, 5 values of `COLUMNS` or no terminal, a tree of 7 entries, 2 removals | the walk ends, but with a negative `COLUMNS`, and lists each directory as often as it should while entries vanish or are refused; every layout shows each entry found once and in order; what kills ls |
| `dns` | 7 names, 2 runs of the client | the printed answers are the server's up to the first record outside what the decoder can read; a strange reply is a late one; a run hangs only for a loss; decoding ends |
| `reassembly` | 2 connections and packets of other formats, streams of 4 bytes, 3 payloads, numbers modulo 8 | when the image is the stream; the only causes of a byte twice or missing |
| `vec` | 2 vectors, lengths -1 to 3, 2 values | what elements read after any shrinking and growing; what touches missing storage; when the inner product is one |

The run that expects a violation, `level2db_gone`, checks what a test says, which
PROJECT.json quotes under "findings". Type invariants are no properties of their own: each
is a conjunct of one invariant of its run (`LevelsAreSorted`, `FaultCauses`,
`RequestEndDetected`, `ForwardedInBlocks`, `NoRowTwice`, `ListingIsComplete`,
`AnswersAreTheServers`) or, for `KVStore`, `VM`, `Vec` and `Reassembly`, a theorem.

### Bounds

* Skip list: four nodes with two keys give three equal keys and a neighbour, and
  two levels are enough for a node to be hidden on one level and not on the other.
* level2db: three keys give a start, an end and a key between to insert or erase; two
  nodes are two keys or one key twice, and `skiplist` covers longer lists. Values are
  only compared for equality, so the run takes them as symmetric.
* Proxy: `BufSize` covers a whole request or less, so both one-packet and
  byte-by-byte deliveries occur; two clients are one served and one waiting.
* VM: bytes have their real width. Besides the tests, programs are all strings of four
  bytes from ten: legal and illegal opcodes, registers and none, and addresses of
  the output cell, the data, the program and the end of the memory, where the PC wraps.
* Queries: three rows of four kinds (equal keys, two types, a missing field, a
  field twice) are enough for every branch, and five calls for calls after the end.
* ls: `MaxDepth` exceeds the depth of the tree, so only `.` in `.` reaches it;
  one command line names a directory twice and its parent between, so that with `-R` it is listed three
  times. `IntValues = 8` makes the size 5 of one file overflow. Two removals empty the deepest
  directory and take it away. `sub` is a directory that lstat may refuse to search. The widths are an unknown one, one narrower
  than some columns, one of several columns, and two negative ones, of a column or more and of less. One name
  comes before `.` in strcmp's order.

* Servers: messages of three bytes through a buffer of two are read in one, two or three
  pieces; three clients are one left, one served and one waiting.
* dns: bytes and positions have their real width. The names are one for each thing the
  decoder can meet: plain, an alias with a shared suffix, digits and hyphens, a record of
  another type, a first label of 17 bytes and of 63, and a pointer past byte 255. Two runs are one
  whose reply comes late and one that takes it. A third would ask after a run that took another's reply
and left its own behind; the theorems cover it, as they do any number.
* Reassembly: four bytes are two of the header and two of the content, a byte 0 and a CRLFCRLF; three payloads give
  an overlap and a neighbour; the initial numbers 1, 5 and 7 of 8 are one without wrap,
  one that wraps inside the content, and one whose first byte has the number 0.
* Vec: with three elements a vector grows, shrinks, and grows again within and past what it
  had; a negative length is what `set_vec_length` does not refuse.

Three bounds shape the behaviours: `MaxRemovals`, `MaxCalls` and `MaxRuns` count what
the environment does, never what the program does.

### Fairness

Every fairness condition is weak and on steps of the program itself, which nothing
but the scheduler holds back: the save loop of kvstore, the loops of the servers
(whose receives are enabled only when there is something to receive), the calls of
`next()`, the walk of ls, and the receive and the decoder of the DNS client. Clients, users, signals and other processes are never
fair, and neither is the
loss of a datagram, with two exceptions: the HTTP server answers a whole request unless it hung up
(`WF(Respond)`), and the DNS server answers what reaches it (`WF(Serving)`), because
otherwise waiting for them would be the servers' fault.
kvstore's `ReadLine` is not fair: nobody has to type.

## Proofs

`KVStore_proofs` proves, for every set of tokens, `TypeOK`, `DurableBetweenCommands`,
`CrashOnlyForgets` and the refinement `KeepsPromise`. The invariants are not
inductive by themselves: before the save the map in memory is the old one updated as
the user typed, and during a save one has to know that the file holds lines of
the current map, each key once, and that `unsaved` is exactly the keys whose line is
missing. `IInv` says this. Its steps rest on lemmas about the file: a line read back
gives its key and its value (`LineRoundTrip`, for which tokens must hold no comma, and
`Legal` is why they do not), and a file with distinct keys loads to the map its lines
describe (`LoadDistinct`, `LoadEntries`, `LoadSelf`). Assumptions are those the
module names about its constants.

`ComputerSystems_proofs` is about `VM` and `Vec`. It proves for every byte width above the opcodes that bytes stay bytes
(`TypeCorrect`), that a program changes nothing but the output cell
(`NoSelfModification`) and that it ends only where its initial text says
(`EndsInText`). The last needs the second: what is fetched now is what was there at
the beginning.

For any number of vectors and any lengths it proves `VecTypeCorrect`, `AccessesAllocated` and `Reads`. The invariant says of each live vector that `allocated_len` is its
largest length so far and that all of its storage, what a shorter length hides included, holds
what was written: only that makes growing back provable. `InnerProduct` is about `dotproduct`: its
loop is the function `Partial`, the reference the function `sum`, and both are unfolded to one (`PartialIs`,
`Products`) by induction over the number of elements done.

`TCPServers_proofs` proves for any clients and sizes that forwarded bytes form one block per
client, each byte once and none lost (`ForwardingKeepsOrder`), and that the echo server ends only by the client it serves
and has not answered (`OnlyItsClientEndsEcho`). `SInv` adds to the two where every client
stands: what is unread is the end of its message, what was taken is what was
forwarded, clients in the queue have nothing forwarded, and the last byte forwarded is the last one
taken of the client being served or the end of a message. Messages and buffers of zero bytes are
excluded (`SizeAssumption`).

`Packets_proofs` is about `Reassembly` and `DNSClient`. Of the first it proves `TypeCorrect`, that a byte comes twice only under two sequence numbers
(`NoByteTwice`), and that a byte is missing only for a named cause (`NothingElseMissing`), for any
number and length of streams and any modulus. `RInv` says that the payloads taken have
numbers no higher than the rest and that `prevSequenceNumber` is the highest of them (`Sorting`),
that each byte written is of a payload taken (`FromTaken`), and that a payload's data are
consecutive bytes of one stream (`Stretch`). `Kept` carries the causes along: what a
payload taken holds is written or has its cause already, which a payload skipped as a
repetition inherits from the one it repeats (`Cause`). What `strstr` finds is all that is known of the first
payload: its delimiter is the first (`Found`), so what is written begins right after it. `FormatAssumption` says that no format is the value
for no packet yet.
`StreamIsRestored` proves `StreamRestored`: a clean capture gives the stream. What clean means for the payloads is
`CleanShape`: each is a stretch of the connection numbered by its first byte (`Holds`, from `Cuts`, which
says how every payload was cut), two are equal or apart, and only the one with the
header begins before its end. `Restoring` carries the image along: in order, and holding after the header just what the
payloads taken hold. So each payload written begins after all that is in the image (`TakenBefore`), the
first is the one with the header, and a payload skipped as a repetition is equal to one already taken.

Of `DNSClient` it proves the three invariants, for any names, replies and number of runs.
`StrangeRepliesAreLate` follows from `NInv`: whatever is on its way is for a name given up or still waited for
(`Awaited`), because the query holds just the name asked for. That is a theorem about bytes: lengths and
labels are laid end to end (`FlattenPlaces`), and reading them from there gives the name back (`StandingName`,
`QueryIs`). The attempt showed that the property as it first stood, with only the names of interrupted runs
in `abandoned`, fails with three runs: one that ends on another's reply leaves its own behind.
`QuestionsAreTheReplys` needs that `decodeDomainName` copies byte by byte as long as there is no zero
(`Copies`, `AskedIn`). `PrintedAnswersAreTheServers` has two parts. `BInv` keeps positions in the buffer, whatever
the bytes are: a record starts at most 11 bytes after the end of the one before, or where a pointer
leads, which is before byte 256 (`Cap`, `Placed`). `CInv` is about replies whose records so far are plain: in
`decodeDomain` the position is the `i`-th of the name's trail, before the first label (`InMask`) or in a label with the text
of those before it (`InOctets`), and `maxPos` is the end of the name where it was found, whether the decoder is
still there (`Near`) or has followed a pointer (`Far`). There is one lemma per branch (`ReadMasked`, `ReadFirst`, `ReadCopied`,
`ReadPointer`, `ReadLabel`, `ReadDone`). What makes them true is `ReadableFacts`: a plain name's pointers lead back, so the mask
`& 80` and the byte-wide offset agree with the format on them. Assumptions: `SizeAssumption`, `ZoneAssumption`,
`MaxRunsAssumption`.

`QueryIterators_proofs` proves for any plan, table and order of calls that only a sort that
threw before dereferences an unset `d_currentRecord` (`CrashOnlyAfterThrow`). `QInv` says
why: calls in progress go down the plan (`Descent`), whoever stored or returned a tuple had
it from its child, and so had all calls below (`Fed`, `FedBelow`). So the sorts above the
innermost call cannot have stored anything yet while a sort below them still collects, and when
that one throws it alone leaves tuples without a record (`Collecting`).
It also proves that an iterator that ended gives no tuple again (`EndIsFinal`): `Spent` says for each
kind what its state is then, and `EInv` that an undisturbed node that ended is spent and stays so,
because whatever is below it, and whatever call waits for it, has ended too; induction over the plan
(`BelowIs`) gives that "disturbed" looks below a node's child as well. And that rows are split, not
copied (`NoRowTwice`): a row on its way is in a slot (`Slots`: returned by a root, held by a sort
that has not given it out, or in `reply`), and `Sourced` gives each filled slot a position of the table of
its own that the scan has passed. Each step moves rows from slot to slot (`Moves`), a sort by the
permutation it chose (`SortSources`), and only the scan adds one, from its new position.
Last, that pulling one tuple at a time computes what the query means (`RowsFollowPlan`). `RInv` says it edge by edge:
for an iterator that has its part of the plan to itself (`Own`), what its child has returned is the
tuples `t` it has looked at and the one on its way (`Inflight`), and its own output, count or buffer is what
belongs to `t` (`Edge`: a selection has returned `Matching(n, t)`, a limit has counted `t` and the call it waits for,
a sort has stored `t` or gives out one of its sortings). A step at node `j` only has to look at
its tuple rightly (`Looks`, one lemma per kind); `PullEdges`, `ReturnEdges` and `AbortEdges` show that the other
nodes are not concerned: the tuple goes to the only reader there is (`OnlyReader`), and a sort that throws
disturbs every node that waits for it (`CallsAreBelow`). From the scan up, each iterator then has returned the beginning of an answer,
and all of it at its end, because a spent iterator has a child that ended or a count used up (`NodeFollows`).
The lemmas on `Kept` (one tuple more, the beginning of a list) carry selection and projection, and
`SortingExists` shows by insertion that every list whose tuples have the key can be sorted.
Assumptions: `PlanAssumption`, `TableAssumption`.

`Level2DB_proofs` proves for any keys, values, number of levels and number of nodes that every level
of the skip list is a sorted chain of the nodes that reach it (`LevelsAreSorted`), what `find` returns
(`FindReturnsNewestOfHighest`), the refinement of `KeyStacks` (`ImplementsKeyStacks`), and, for
the database on top, that answers follow the last write, that a scan shows its range and that only the
three named faults leave defined behaviour (`AnswersFollowWrites`, `ScanShowsRange`, `FaultCauses`).
The properties speak of walks along pointers; the invariant does not. It numbers the nodes from left to right: there is
a `place` for each node such that keys ascend with it (`Places`), and on every level a pointer leads to the
next node to the right (`Links`). `Walk` is what `remove` knows between its steps: the node it takes out is the first
of its key, is gone from the levels below the one it has come to, and is next to `previous[l]` on those still to
come. From this follow, by induction over the number of nodes to the right, that each walk ends where it should
(`PreviousIsLast`, `FindFinds`) and that the nodes of a level, or of a key, are met once and from left to right
(`ChainLists`, `NodesOfLists`). The database's invariant `DBInv` adds where the scan stands (`Scan`: on the last key
it showed, which is in the map and has every key that stayed before it shown), that the map or the list holds the
last value written of each key never put twice (`MapMatches`, `ListMatches`, where the removal in progress
has popped its key), and what a Delete that has not returned removes (`Deleting`). Assumptions: `KeyAssumption`,
`NoneAssumption`, `MaxLevelAssumption`, `GenLevelAssumption`, `MaxNodesAssumption`, `ModesAssumption`.

`HTTPProxy_proofs` proves for any clients, any well-formed messages and any buffer size that the end of a request is found
when its last byte is read and not before (`RequestEndDetected`), what ends the proxy (`FatalCauses`),
and that a request without a body gets its whole response (`WholeResponseForBodyless`), all unless a CRLF is split.
The core is `PacketParsed`: if the parser has what belongs to the first `n` bytes of a message (`Parsed`), it has after
a packet what belongs to the bytes up to there, wherever the packet ends. `Parsed` says
what that is: in the head, the current line, whether the last complete line was empty and the length the complete
headers announce (`InHead`), and after it the number of bytes of the body (`InBody`). It is shown by induction over the bytes of the packet. The
response is parsed with the state the request left, so `Parsed` takes the flag for the empty line
before the first complete line as a parameter. `PInv` adds that each client is served once (`Waiting`) and that what
was sent on, what is to be read and what came back add up to its request and its response (`Streams`).
Assumptions: `MessageAssumption`, `BufSizeAssumption`, `NoneAssumption`.

`Ls_proofs` proves for any tree, command lines, terminal widths and removals that what is listed is complete
(`ListingsAreComplete`), that it is in the order of its flags (`ListingsAreSorted`), that ls dies only for the
named causes (`CrashesHaveCauses`), and the types with the discipline of the stack (`LsTypeCorrect`). Two parts stand
behind them. The first is about layouts and orders, without any state: the cells of the columns are a permutation of the
items (`ColumnsRearrange`: no cell holds two items, `CellsDiffer`, and each item has a cell, `CellOf`, for
which the number of rows must be rounded up, `RowsSuffice`), `Sorted` gives permutations without a
pair the wrong way round (`SortedRearranges`), for which each comparison must be a strict order, and `Kept` keeps just the
positions it should, in their order (`KeptPlaces`). The second is the walk. `LsInv` says that a call comes across what its
directory should show and keeps what is still there (`CallSees`), so that
each listing shows it once (`Outputs`); that calls are for ever deeper directories (`Calls`), which bounds the stack; and
`Balance`: for each directory, its listings, the calls for it that have not listed it and the calls
that still have it in `todo` are together as many as its names begun and, with `-R`, the times it was found, by its name, as `.` or as `..`
(`NamesOfDirectory`, `ListingFinds`). Every step moves one of them into another (`ListingBalances`, `CallingBalances`), and when ls is done only
listings are left (`DoneIsComplete`). The attempt showed that the causes of a crash had left one out: with `-a` the
name `..` alone can be wider than a column. `CrashHasCause` names it now. Assumptions: `TreeAssumption`, `AttributeAssumption`.

Only model-checked: the liveness properties, because the prover does not handle fairness. All invariants of the
runs, their refinements and the action property are theorems.

The library's induction theorems cannot be used, because they take an operator. Where a proof needs induction over
data it uses that every non-empty set of numbers has a least member (`Least`, `Induction`), which
speaks of sets only, and recursive functions are unfolded by `Recursion`, which builds them from below.

## Observations

One run ends in a counterexample: in skip-list mode a key that was put twice is still
there after a delete. Other disagreements between the code and its comments or tests
showed while the models were written; the models follow the code:

* `remove` begins its walk up with level 0, an index of -1 (`skiplist.h:91-93`); the
  comment at `skiplist.h:89` says level is 1 there. `UnlinkBelow` is that step.
* A CRLF split between two packets is handled with shadowed variables (`main.go:177`), so
  the special case that `main.go:171` announces loses what it found. `RequestEndDetected`
  holds for every other cut.
* The response loop begins with the parser state the request left (`main.go:240`), so a response
  may be cut short; `proxy_tester.py:38-39` wants it received from the server via the proxy.
  `WholeResponseForBodyless` holds for requests without a body.
* When the server closes the connection within its response, `Recvfrom` gives 0 bytes in every round, the parser never
  says that the response is complete (`main.go:240-254`), and the proxy spins and serves no other client. `ServedToTheEnd`
  names this as its exception `CutShort`.
* An error of `Recvfrom` or `Send` on either connection ends the proxy for all clients (`main.go:242`, `main.go:262`), and
  in echo mode a client that is gone before its answer ends the server (`main.go:65`, `main.go:72`).
* When the server closes the connection and the last byte read was the `cr` of a CRLF, the parser is given an empty
  packet and indexes its first byte (`main.go:175`): the whole proxy ends. `FatalCauses` names it.
* `find` in the skip list stops at the first match on the highest level, so with
  duplicates it may return a value older than the one put last.
* `set_vec_length` reallocates when the new length exceeds the allocated one
  (`vec.c:77`, `vec.h:40`); the comment at `vec.c:74` says when it is equal, too. It keeps
  no element when it does.
* The mask for compression pointers is decimal 80 (`dns.go:215`), not 0xc0, so names whose first
  label has 16 to 31 or 48 to 63 bytes are misread, and the offset is one byte (`dns.go:218`).
* Records that are neither A nor CNAME are printed without their data, which are then
  decoded as the next record (`dns.go:288`).
* Sequence numbers are compared and deduplicated as plain integers
  (`parsecap.c:48`, `parsecap.c:299`).
* `Next` answers `false` when it comes to the end key (`level2db_iterator.cpp:14`); `level2db_tests.cpp:57-72` scans from `key1` to
  `key4`, expects the third `Next` to be true there and reads `key4`. `ScanShowsRange` leaves the end key open, since the two disagree.
* In skip-list mode, deleting a missing key erases `end()` and would report
  success (`skiplist.h:101`, `level2db_database.cpp:40`); `level2db_tests.cpp:44`
  expects `KEY_NOT_FOUND`. `FaultCauses` names this as one of the three ways out of
  defined behaviour.
* The proxy serves one client after the other (`main.go:132`); `proxy_tester.py:77-79`
  expects that it does not wait for the first to finish.
* With output that is no terminal and none of `-1`, `-l` and `-C`, ls prints no names
  (`ls.c:445`); the comment at `ls.c:22-23` says one per line is the default then.
* What lstat refuses is left out of a listing with a message only (`ls.c:69-75`, `ls.c:480`), although it is there. The
  message is printed into an array of 1029 bytes (`ls.c:71-72`), which a name of more than 1024 from the command line
  overflows. `CrashHasCause` names it.
* A negative `COLUMNS` (`ls.c:271`) gives a negative number of columns, which the comparison with a `size_t` (`ls.c:302`) takes for
  almost 2^64: ls prints the names in one row and goes on counting. `Terminates` names it.
* In the payload that sorts first everything up to the first CRLFCRLF is cut off, be it of a header or in the body, and nothing
  is found behind a byte 0 (`parsecap.c:306`); without one the pointer is moved from NULL (`parsecap.c:307`). `MissingCauses`
  names both. The packets of another protocol are read as if they were TCP (`parsecap.c:151-190`, `parsecap.c:248`).
* Sizes are compared as ints, so one of 2 GiB or more sorts last under "Largest files
  first." (`ls.c:187`). `ListingIsSorted` holds for the sizes that fit.

## Not modelled

The wording and layout of output; errors of sockets while a server starts;
`close()` of the tomekdb iterators, which changes nothing; the hint `-A` for the
super-user, of which the code of ls has none; in ls, a path cut at 1023 bytes that happens to name another entry;
in kvstore, an `ofstream` that cannot open or write `datastore.dat`, which the code does not check (`main.cpp:41-43`);
an HTTP peer that sends more bytes than it announced (`MessageAssumption`). Time does not occur: nothing in the
modelled programs has a timeout.

Of the DNS client: `decompressDomainName`, which only calls itself; the header's
flags, which are only printed; messages of more than 1024 bytes; the end of the buffer that a name's text is
written to, which only pointers that lead in a circle reach, and no plain record has. Of the pcap parser: the
printing of headers, IP options and captures whose length fields are wrong. Of the vector:
writes through the raw pointer of `get_vec_start`, and integer overflow in
`dotproduct`.

The parts without state of interest are listed with reasons in PROJECT.json: page count,
matrix multiply, loop order and metrics are arithmetic over floating-point numbers or
timed for their caches, and the assembly exercises are single routines.

## Plan

Done: `KVPromise`, `KVStore`, `KeyStacks`, `SkipList`, `Level2DB` (composing the skip
list), `HTTPStream` and `HTTPProxy` (composing it), `TCPServers`, `VM`, `QueryIterators`,
`Ls`, `DNSMessage` and `DNSClient` (composing it), `Reassembly`, `Vec`, and the proofs of
`KVStore`, `VM`, `Vec`, `Reassembly`, `DNSClient`, `TCPServers`, `SkipList` with `Level2DB`, `HTTPProxy`,
`QueryIterators` and `Ls`.

Next, in this order:

1. An abstract ordered map that the `std::map` mode of level2db implements, its iterator
   included, and an abstract byte pipe that forward mode implements.
2. A second life of the tomekdb iterators (`init` after `close`), once the code has one.
