------------------------------- MODULE KVStore -------------------------------
(***************************************************************************)
(* distributed-systems/kvstore/main.cpp: an interactive key-value store    *)
(* that keeps its map in memory and rewrites datastore.dat on every set.   *)
(*                                                                         *)
(* Text is abstracted to the one thing the file format tells apart: where  *)
(* the commas are.  A token, and a line of the file, is the sequence of    *)
(* its comma-separated words; a token without a comma has one word.        *)
(* datastore.dat is the sequence of its lines (an absent file reads as an  *)
(* empty one).  A line reaches the file whole: std::endl flushes it and    *)
(* the stream buffer is longer than any line that can be read back.        *)
(***************************************************************************)
EXTENDS Naturals, Sequences

CONSTANTS Word,      \* texts without a comma, a blank or an equals sign
          MaxWords,  \* bound on the words of a token the user types
          Overlong,  \* the lines of MAX_LINE_LENGTH characters or more
          NotFound   \* "Key not found."

ASSUME MaxWordsAssumption == MaxWords \in Nat \ {0}
ASSUME OverlongAssumption == Overlong \subseteq Seq(Word)

VARIABLES pc,       \* where mainLoop is, or "down"
          input,    \* the string std::getline reads into
          eof,      \* std::cin has reached its end
          kvStore,  \* the map in memory
          file,     \* datastore.dat
          unsaved,  \* keys the save loop has not written yet
          reply,    \* what the last get printed
          acked     \* history: kvStore when the prompt was last printed

vars == <<pc, input, eof, kvStore, file, unsaved, reply, acked>>

Token == UNION {[1..n -> Word] : n \in 1..MaxWords}

\* containsIllegalChars: of the characters it refuses only the comma matters
\* to the file; the inputs with a blank or a second equals sign are "other".
Legal(t) == Len(t) = 1

\* The tokens that pass containsIllegalChars: all keys and values stored.
Item == {<<w>> : w \in Word}

\* Mutant of Update: std::unordered_map::insert, which keeps an old value.
UpdateByInsert(m, k, v) ==
    [x \in DOMAIN m \cup {k} |-> IF x \in DOMAIN m THEN m[x] ELSE v]

Update(m, k, v) == [x \in DOMAIN m \cup {k} |-> IF x = k THEN v ELSE m[x]]

EmptyMap == [k \in {} |-> NotFound]

\* Everything handleInput tells apart.
Input == [verb : {"get"}, key : Token]
            \cup [verb : {"set"}, key : Token, value : Token]
            \cup [verb : {"quit", "other"}]

-----------------------------------------------------------------------------
(* The format of datastore.dat.                                            *)

\* dataFile << kv.first << "," << kv.second << std::endl
Line(k, v) == k \o v

\* line.substr(0, commaPosition): all of a line without a comma.
LineKey(line) == <<Head(line)>>

\* line.substr(commaPosition + 1): npos + 1 is 0, again all of the line.
LineValue(line) == IF Len(line) = 1 THEN line ELSE Tail(line)

\* The indices of the lines the getline loop reads: an overlong line sets the
\* failbit, and the loop ends there.
Readable(f) == {i \in DOMAIN f : \A j \in 1..i : f[j] \notin Overlong}

\* The readable line that decides the value of k: a later one overwrites.
LastLine(f, k) == CHOOSE i \in Readable(f) :
                     /\ LineKey(f[i]) = k
                     /\ \A j \in Readable(f) : LineKey(f[j]) = k => j <= i

\* initializeFromDataStore
Load(f) == [k \in {LineKey(f[i]) : i \in Readable(f)} |->
               LineValue(f[LastLine(f, k)])]

-----------------------------------------------------------------------------
Init == /\ pc = "down"
        /\ input = [verb |-> "other"]
        /\ eof = FALSE
        /\ kvStore = EmptyMap
        /\ file = <<>>
        /\ unsaved = {}
        /\ reply = NotFound
        /\ acked = EmptyMap

\* main and the start of mainLoop: a fresh map and a fresh input string.
Start == /\ pc = "down"
         /\ kvStore' = Load(file)
         /\ acked' = Load(file)
         /\ input' = [verb |-> "other"]
         /\ eof' = FALSE
         /\ pc' = "read"
         /\ UNCHANGED <<file, unsaved, reply>>

\* std::getline(std::cin, input).  A last line without a newline is delivered
\* and sets eofbit; an end of file at the start of a line clears the string;
\* after either the stream is no longer good and input keeps what it held.
ReadLine == /\ pc = "read"
            /\ IF eof
                  THEN UNCHANGED <<input, eof>>
                  ELSE /\ input' \in Input
                       /\ eof' \in BOOLEAN
            /\ pc' = "handle"
            /\ UNCHANGED <<kvStore, file, unsaved, reply, acked>>

\* The program is gone: its memory with it, the file as it is.
Exit == /\ pc' = "down"
        /\ kvStore' = EmptyMap
        /\ acked' = EmptyMap
        /\ unsaved' = {}
        /\ UNCHANGED <<input, eof, file, reply>>

\* handleInput: quit() exits.
Quit == /\ pc = "handle"
        /\ input.verb = "quit"
        /\ Exit

\* handleInput: anything that is not a command on legal tokens.
Invalid == /\ pc = "handle"
           /\ \/ input.verb = "other"
              \/ input.verb \in {"get", "set"} /\ ~Legal(input.key)
              \/ input.verb = "set" /\ ~Legal(input.value)
           /\ pc' = "read"
           /\ UNCHANGED <<input, eof, kvStore, file, unsaved, reply, acked>>

\* processCommand, GET, and the answer mainLoop prints.
Get == /\ pc = "handle"
       /\ input.verb = "get"
       /\ Legal(input.key)
       /\ reply' = IF input.key \in DOMAIN kvStore
                      THEN kvStore[input.key]
                      ELSE NotFound
       /\ pc' = "read"
       /\ UNCHANGED <<input, eof, kvStore, file, unsaved, acked>>

\* processCommand, SET: first the map in memory.
SetMemory == /\ pc = "handle"
             /\ input.verb = "set"
             /\ Legal(input.key)
             /\ Legal(input.value)
             /\ kvStore' = Update(kvStore, input.key, input.value)
             /\ pc' = "open"
             /\ UNCHANGED <<input, eof, file, unsaved, reply, acked>>

\* Mutant of OpenTruncate: std::ios::app in place of std::ios::trunc.
OpenAppend == /\ pc = "open"
              /\ unsaved' = DOMAIN kvStore
              /\ pc' = "write"
              /\ UNCHANGED <<input, eof, kvStore, file, reply, acked>>

\* Mutant of OpenTruncate: the loop runs over the map as it was before the set.
OpenStale == /\ pc = "open"
             /\ file' = <<>>
             /\ unsaved' = DOMAIN acked
             /\ pc' = "write"
             /\ UNCHANGED <<input, eof, kvStore, reply, acked>>

\* std::ofstream dataFile(DATA_FILE, std::ios::out | std::ios::trunc)
OpenTruncate == /\ pc = "open"
                /\ file' = <<>>
                /\ unsaved' = DOMAIN kvStore
                /\ pc' = "write"
                /\ UNCHANGED <<input, eof, kvStore, reply, acked>>

\* One round of the save loop; std::unordered_map fixes no order.
WriteLine(k) == /\ pc = "write"
                /\ k \in unsaved
                /\ file' = Append(file, Line(k, kvStore[k]))
                /\ unsaved' = unsaved \ {k}
                /\ UNCHANGED <<pc, input, eof, kvStore, reply, acked>>

\* The loop ends, dataFile.close(), and mainLoop prints the prompt again.
Close == /\ pc = "write"
         /\ unsaved = {}
         /\ acked' = kvStore
         /\ pc' = "read"
         /\ UNCHANGED <<input, eof, kvStore, file, unsaved, reply>>

\* signalHandler: SIGINT at any moment calls exit(0).
Interrupt == /\ pc # "down"
             /\ Exit

Running == \/ ReadLine
           \/ Quit
           \/ Invalid
           \/ Get
           \/ SetMemory
           \/ OpenTruncate
           \/ \E k \in Item : WriteLine(k)
           \/ Close

Next == \/ Start
        \/ Running
        \/ Interrupt

Spec == Init /\ [][Next]_vars

\* The program runs while it is up; nobody has to start it, type at it or
\* interrupt it.  (Input is waited for in ReadLine, so that one is not fair.)
Fairness == /\ WF_vars(Quit)
            /\ WF_vars(Invalid)
            /\ WF_vars(Get)
            /\ WF_vars(SetMemory)
            /\ WF_vars(OpenTruncate)
            /\ WF_vars(\E k \in Item : WriteLine(k))
            /\ WF_vars(Close)

FairSpec == Spec /\ Fairness

-----------------------------------------------------------------------------
Maps == UNION {[D -> Item] : D \in SUBSET Item}

\* p is m without some of its entries.
Part(p, m) == /\ DOMAIN p \subseteq DOMAIN m
              /\ \A k \in DOMAIN p : p[k] = m[k]

TooLong(k, v) == Line(k, v) \in Overlong

\* No entry of m has a line that initializeFromDataStore cannot read.
AllFit(m) == \A k \in DOMAIN m : ~TooLong(k, m[k])

\* The map the user may count on: a set counts from the moment the file is
\* truncated, since before that a crash undoes it.
Visible == CASE pc = "down" -> Load(file)
             [] pc = "open" -> acked
             [] OTHER       -> kvStore

\* Type invariant: the map and the file only ever hold tokens without commas,
\* and the file holds no key twice.
TypeOK == /\ pc \in {"down", "read", "handle", "open", "write"}
          /\ input \in Input
          /\ eof \in BOOLEAN
          /\ kvStore \in Maps
          /\ acked \in Maps
          /\ file \in Seq({Line(k, v) : k, v \in Item})
          /\ \A i, j \in DOMAIN file :
                LineKey(file[i]) = LineKey(file[j]) => i = j
          /\ unsaved \subseteq DOMAIN kvStore
          /\ reply \in Item \cup {NotFound}

\* Whenever no save is under way, a stop and a restart bring back exactly the
\* map the user sees, if all of its lines fit initializeFromDataStore's
\* buffer: the rewrite of the whole file by the last SET and the parsing of
\* its lines on the next start agree, whatever order unordered_map chose.
DurableBetweenCommands ==
    pc \in {"read", "handle", "open"} /\ AllFit(Visible)
        => Load(file) = Visible

\* A SIGINT at any moment, in the middle of the save loop too, leaves a file
\* from which the next start loads no key the user did not have and no value
\* but the newest: truncation loses entries, it never revives an old one.
CrashOnlyForgets == Part(Load(file), Visible)

\* A SET that was accepted is written out unless the program stops first: the
\* save loop neither blocks nor skips the key.
SetReachesFile ==
    \A k, v \in Item :
        pc = "open" /\ input = [verb |-> "set", key |-> k, value |-> v]
            ~> pc = "down" \/ \E i \in DOMAIN file : file[i] = Line(k, v)

Abs == INSTANCE KVPromise WITH db <- Visible, busy <- pc = "write"

\* The program implements the promise: gets answer from one map with the entry
\* asked for, sets update it as they say, and only a stop during a save, or an
\* overlong line, forgets entries.
KeepsPromise == Abs!ASpec
=============================================================================
