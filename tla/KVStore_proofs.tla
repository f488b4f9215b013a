---------------------------- MODULE KVStore_proofs ----------------------------
(***************************************************************************)
(* Proofs about KVStore: type correctness, durability between commands,    *)
(* what a crash can do, and that KVStore implements KVPromise, for every   *)
(* set of words and every set of overlong lines.                           *)
(***************************************************************************)
EXTENDS KVStore, SequenceTheorems, TLAPS

-----------------------------------------------------------------------------
(* The file format.                                                        *)

Lines == {Line(k, v) : k, v \in Item}

\* A file no key of which appears twice.
DistinctKeys(f) ==
    \A i, j \in DOMAIN f : LineKey(f[i]) = LineKey(f[j]) => i = j

\* The text a SET writes for an entry is parsed back into that entry: the key
\* ends at the only comma of the line.
LEMMA LineRoundTrip ==
    ASSUME NEW k \in Item, NEW v \in Item
    PROVE  LineKey(Line(k, v)) = k /\ LineValue(Line(k, v)) = v
<1>1. PICK x \in Word : k = <<x>>
  BY DEF Item
<1>2. PICK y \in Word : v = <<y>>
  BY DEF Item
<1>3. Line(k, v) = <<x, y>>
  <2>1. k \in Seq(Word) /\ v \in Seq(Word) /\ <<x, y>> \in Seq(Word)
    BY <1>1, <1>2
  <2>2. Len(k) = 1 /\ Len(v) = 1 /\ k[1] = x /\ v[1] = y
    BY <1>1, <1>2
  <2>3. /\ k \o v \in Seq(Word)
        /\ Len(k \o v) = 2
        /\ (k \o v)[1] = x
        /\ (k \o v)[2] = y
    <3>1. /\ k \o v \in Seq(Word)
          /\ Len(k \o v) = Len(k) + Len(v)
          /\ \A i \in 1 .. Len(k) + Len(v) :
                (k \o v)[i] = IF i <= Len(k) THEN k[i] ELSE v[i - Len(k)]
      BY <2>1, ConcatProperties
    <3> QED
      BY <2>2, <3>1
  <2>4. \A i \in 1..2 : (k \o v)[i] = <<x, y>>[i]
    BY <2>3
  <2>5. k \o v = <<x, y>>
    BY <2>1, <2>3, <2>4, SeqEqual
  <2> QED
    BY <2>5 DEF Line
<1>4. LineKey(<<x, y>>) = <<x>> /\ LineValue(<<x, y>>) = <<y>>
  BY DEF LineKey, LineValue
<1> QED
  BY <1>1, <1>2, <1>3, <1>4

\* What initializeFromDataStore makes of a file without duplicate keys: one
\* entry for each readable line, with that line's value.
LEMMA LoadDistinct ==
    ASSUME NEW f \in Seq(Lines), DistinctKeys(f)
    PROVE  /\ Load(f) \in Maps
           /\ \A i \in Readable(f) :
                 /\ LineKey(f[i]) \in DOMAIN Load(f)
                 /\ Load(f)[LineKey(f[i])] = LineValue(f[i])
           /\ \A k \in DOMAIN Load(f) :
                 \E i \in Readable(f) : f[i] = Line(k, Load(f)[k])
<1>1. Readable(f) \subseteq DOMAIN f /\ DOMAIN f \subseteq Nat
  BY DEF Readable
<1>2. \A i \in Readable(f) : f[i] \in Lines
  BY <1>1
<1>3. ASSUME NEW i \in Readable(f)
      PROVE  LastLine(f, LineKey(f[i])) = i
  <2> DEFINE P(n) == /\ LineKey(f[n]) = LineKey(f[i])
                     /\ \A j \in Readable(f) :
                           LineKey(f[j]) = LineKey(f[i]) => j <= n
  <2>1. P(i)
    BY <1>1, <1>3 DEF DistinctKeys
  <2>2. \A n \in Readable(f) : P(n) => n = i
    BY <1>1, <1>3 DEF DistinctKeys
  <2>3. (CHOOSE n \in Readable(f) : P(n)) = i
    BY <2>1, <2>2, <1>3
  <2> QED
    BY <2>3 DEF LastLine
<1>4. \A i \in Readable(f) : LineKey(f[i]) \in DOMAIN Load(f)
  BY DEF Load
<1>5. \A i \in Readable(f) : Load(f)[LineKey(f[i])] = LineValue(f[i])
  BY <1>3 DEF Load
<1>6. \A k \in DOMAIN Load(f) : \E i \in Readable(f) : k = LineKey(f[i])
  BY DEF Load
<1>7. ASSUME NEW k \in DOMAIN Load(f)
      PROVE  /\ k \in Item
             /\ Load(f)[k] \in Item
             /\ \E i \in Readable(f) : f[i] = Line(k, Load(f)[k])
  <2>1. PICK i \in Readable(f) : k = LineKey(f[i])
    BY <1>6, <1>7
  <2>2. PICK k1 \in Item, v1 \in Item : f[i] = Line(k1, v1)
    BY <1>2 DEF Lines
  <2>3. k = k1 /\ Load(f)[k] = v1
    BY <1>5, <2>1, <2>2, LineRoundTrip
  <2> QED
    BY <2>2, <2>3
<1>8. Load(f) \in Maps
  <2>1. Load(f) = [k \in DOMAIN Load(f) |-> Load(f)[k]]
    BY DEF Load
  <2>2. Load(f) \in [DOMAIN Load(f) -> Item]
    BY <1>7, <2>1
  <2>3. DOMAIN Load(f) \in SUBSET Item
    BY <1>7
  <2> QED
    BY <2>2, <2>3 DEF Maps
<1> QED
  BY <1>4, <1>5, <1>7, <1>8

-----------------------------------------------------------------------------
(* The inductive invariant.                                                *)

\* file[i] is the line of an entry of m.
EntryLine(f, i, m) == \E k \in DOMAIN m : f[i] = Line(k, m[k])

\* Every key of S has its line in f.
Written(f, m, S) == \A k \in S : \E i \in DOMAIN f : f[i] = Line(k, m[k])

\* What a complete or interrupted save leaves for the next start.
LoadsTo(f, m) == /\ Part(Load(f), m)
                 /\ AllFit(m) => Load(f) = m

Idle == {"read", "handle"}

IInv == /\ TypeOK
        /\ pc \in Idle => acked = kvStore
        /\ pc = "open" =>
              /\ input.verb = "set" /\ {input.key, input.value} \subseteq Item
              /\ kvStore = Update(acked, input.key, input.value)
        /\ pc # "write" => unsaved = {}
        /\ pc \in Idle \cup {"open"} => LoadsTo(file, acked)
        /\ pc = "write" =>
              /\ \A i \in DOMAIN file : EntryLine(file, i, kvStore)
              /\ \A i \in DOMAIN file : LineKey(file[i]) \notin unsaved
              /\ Written(file, kvStore, DOMAIN kvStore \ unsaved)

\* A file all of whose lines are entries of m loads to a part of m, and to
\* all of m if every entry is written and fits.
LEMMA LoadEntries ==
    ASSUME NEW f \in Seq(Lines), DistinctKeys(f), NEW m \in Maps,
           \A i \in DOMAIN f : EntryLine(f, i, m)
    PROVE  /\ Part(Load(f), m)
           /\ AllFit(m) /\ Written(f, m, DOMAIN m) => Load(f) = m
<1>1. DOMAIN m \subseteq Item /\ \A k \in DOMAIN m : m[k] \in Item
  BY DEF Maps
<1>2. Readable(f) \subseteq DOMAIN f
  BY DEF Readable
<1>3. ASSUME NEW k \in DOMAIN Load(f)
      PROVE  k \in DOMAIN m /\ Load(f)[k] = m[k]
  <2>1. PICK i \in Readable(f) : f[i] = Line(k, Load(f)[k])
    BY <1>3, LoadDistinct
  <2>2. PICK k1 \in DOMAIN m : f[i] = Line(k1, m[k1])
    BY <1>2, <2>1 DEF EntryLine
  <2>3. k \in Item /\ Load(f)[k] \in Item
    BY <1>3, LoadDistinct DEF Maps
  <2>4. LineKey(f[i]) = k /\ LineValue(f[i]) = Load(f)[k]
    BY <2>1, <2>3, LineRoundTrip
  <2>5. LineKey(f[i]) = k1 /\ LineValue(f[i]) = m[k1]
    BY <1>1, <2>2, LineRoundTrip
  <2> QED
    BY <2>4, <2>5
<1>4. Part(Load(f), m)
  BY <1>3 DEF Part
<1>5. ASSUME AllFit(m), Written(f, m, DOMAIN m)
      PROVE  Load(f) = m
  <2>1. ASSUME NEW i \in DOMAIN f
        PROVE  f[i] \notin Overlong
    <3>1. PICK k \in DOMAIN m : f[i] = Line(k, m[k])
      BY DEF EntryLine
    <3> QED
      BY <1>5, <3>1 DEF AllFit, TooLong
  <2>2. Readable(f) = DOMAIN f
    <3>1. DOMAIN f = 1 .. Len(f) /\ Len(f) \in Nat
      OBVIOUS
    <3>2. \A i \in DOMAIN f : \A j \in 1..i : j \in DOMAIN f
      BY <3>1
    <3> QED
      BY <2>1, <3>2 DEF Readable
  <2>3. ASSUME NEW k \in DOMAIN m
        PROVE  k \in DOMAIN Load(f)
    <3>1. PICK i \in DOMAIN f : f[i] = Line(k, m[k])
      BY <1>5 DEF Written
    <3>2. LineKey(f[i]) = k
      BY <1>1, <3>1, LineRoundTrip
    <3> QED
      BY <2>2, <3>2, LoadDistinct
  <2>4. DOMAIN Load(f) = DOMAIN m
    BY <1>3, <2>3
  <2>5. Load(f) \in [DOMAIN m -> Item]
    BY <2>4, LoadDistinct DEF Maps
  <2>6. m \in [DOMAIN m -> Item]
    BY DEF Maps
  <2> QED
    BY <1>3, <2>4, <2>5, <2>6
<1> QED
  BY <1>4, <1>5

\* The empty file, and what a start makes of any file.
LEMMA LoadSelf ==
    ASSUME NEW f \in Seq(Lines), DistinctKeys(f)
    PROVE  Load(f) \in Maps /\ LoadsTo(f, Load(f))
BY LoadDistinct DEF LoadsTo, Part

LEMMA UpdateType ==
    ASSUME NEW m \in Maps, NEW k \in Item, NEW v \in Item
    PROVE  Update(m, k, v) \in Maps
<1>1. DOMAIN m \cup {k} \in SUBSET Item
  BY DEF Maps
<1>2. Update(m, k, v) \in [DOMAIN m \cup {k} -> Item]
  BY DEF Update, Maps
<1> QED
  BY <1>1, <1>2 DEF Maps

LEMMA EmptyMapType == EmptyMap \in Maps
<1>1. EmptyMap \in [{} -> Item]
  BY DEF EmptyMap
<1> QED
  BY <1>1 DEF Maps

LEMMA LegalItem ==
    ASSUME NEW t \in Token, Legal(t)
    PROVE  t \in Item
<1>1. PICK n \in 1..MaxWords : t \in [1..n -> Word]
  BY DEF Token
<1>2. n \in Nat /\ t \in Seq(Word) /\ Len(t) = n
  BY <1>1, MaxWordsAssumption
<1>3. n = 1 /\ t[1] \in Word
  BY <1>1, <1>2 DEF Legal
<1>4. t = <<t[1]>>
  BY <1>1, <1>2, <1>3
<1> QED
  BY <1>3, <1>4 DEF Item

\* A legal SET carries a legal key and a legal value, a legal GET a legal key.
LEMMA LegalInput ==
    ASSUME input \in Input
    PROVE  /\ input.verb \in {"get", "set"} /\ Legal(input.key)
                => input.key \in Item
           /\ input.verb = "set" /\ Legal(input.value)
                => input.value \in Item
<1>1. input.verb \in {"get", "set"} => input.key \in Token
  BY DEF Input
<1>2. input.verb = "set" => input.value \in Token
  BY DEF Input
<1> QED
  BY <1>1, <1>2, LegalItem

LEMMA InitIInv == Init => IInv
<1> SUFFICES ASSUME Init PROVE IInv
  OBVIOUS
<1>1. EmptyMap \in Maps
  BY EmptyMapType
<1>2. input \in Input
  BY DEF Init, Input
<1>3. file \in Seq({Line(k, v) : k, v \in Item}) /\ DOMAIN file = {}
  BY DEF Init
<1>4. eof \in BOOLEAN
  BY DEF Init
<1>5. TypeOK
  BY <1>1, <1>2, <1>3, <1>4 DEF Init, TypeOK
<1> QED
  BY <1>5 DEF Init, IInv, Idle

\* Every step of the program, and every crash, preserves the invariant.
LEMMA NextIInv == IInv /\ [Next]_vars => IInv'
<1> SUFFICES ASSUME IInv, [Next]_vars PROVE IInv'
  OBVIOUS
<1> USE DEF Idle
<1>f. file \in Seq(Lines) /\ DistinctKeys(file)
  BY DEF IInv, TypeOK, Lines, DistinctKeys
<1>1. CASE Start
  <2>1. Load(file) \in Maps /\ LoadsTo(file, Load(file))
    BY <1>f, LoadSelf
  <2>2. input' \in Input /\ eof' \in BOOLEAN
    BY <1>1 DEF Start, Input
  <2>3. unsaved = {}
    BY <1>1 DEF IInv, Start
  <2>4. TypeOK'
    BY <1>1, <2>1, <2>2, <2>3 DEF IInv, TypeOK, Start
  <2> QED
    BY <1>1, <2>1, <2>4 DEF IInv, Start, LoadsTo
<1>2. CASE ReadLine
  <2>1. input' \in Input /\ eof' \in BOOLEAN
    BY <1>2 DEF ReadLine, IInv, TypeOK
  <2>2. TypeOK'
    BY <1>2, <2>1 DEF IInv, TypeOK, ReadLine
  <2> QED
    BY <1>2, <2>2 DEF IInv, ReadLine, LoadsTo
<1>3. ASSUME Exit PROVE IInv'
  <2>1. TypeOK'
    BY <1>3, EmptyMapType DEF IInv, TypeOK, Exit
  <2> QED
    BY <1>3, <2>1 DEF IInv, Exit
<1>4. CASE Quit
  BY <1>3, <1>4 DEF Quit
<1>5. CASE Interrupt
  BY <1>3, <1>5 DEF Interrupt
<1>6. CASE Invalid
  <2>1. TypeOK'
    BY <1>6 DEF IInv, TypeOK, Invalid
  <2> QED
    BY <1>6, <2>1 DEF IInv, Invalid, LoadsTo
<1>7. CASE Get
  <2>1. input.key \in Item
    BY <1>7, LegalInput DEF IInv, TypeOK, Get
  <2>2. reply' \in Item \cup {NotFound}
    BY <1>7, <2>1 DEF IInv, TypeOK, Get, Maps
  <2>3. TypeOK'
    BY <1>7, <2>2 DEF IInv, TypeOK, Get
  <2> QED
    BY <1>7, <2>3 DEF IInv, Get, LoadsTo
<1>8. CASE SetMemory
  <2>1. input.key \in Item /\ input.value \in Item
    BY <1>8, LegalInput DEF IInv, TypeOK, SetMemory
  <2>2. kvStore' \in Maps
    BY <1>8, <2>1, UpdateType DEF IInv, TypeOK, SetMemory
  <2>3. DOMAIN kvStore \subseteq DOMAIN kvStore'
    BY <1>8 DEF SetMemory, Update
  <2>4. TypeOK'
    BY <1>8, <2>2, <2>3 DEF IInv, TypeOK, SetMemory
  <2>5. kvStore' = Update(acked', input.key, input.value)
    BY <1>8 DEF IInv, SetMemory
  <2> QED
    BY <1>8, <2>1, <2>4, <2>5 DEF IInv, SetMemory, LoadsTo
<1>9. CASE OpenTruncate
  <2>1. file' = <<>> /\ DOMAIN file' = {}
    BY <1>9 DEF OpenTruncate
  <2>2. TypeOK'
    BY <1>9, <2>1 DEF IInv, TypeOK, OpenTruncate
  <2>3. Written(file', kvStore', DOMAIN kvStore' \ unsaved')
    BY <1>9 DEF OpenTruncate, Written
  <2> QED
    BY <1>9, <2>1, <2>2, <2>3 DEF IInv, OpenTruncate
<1>10. ASSUME NEW k \in Item, WriteLine(k) PROVE IInv'
  <2> DEFINE new == Line(k, kvStore[k])
  <2>1. k \in DOMAIN kvStore /\ kvStore[k] \in Item /\ k \in unsaved
    BY <1>10 DEF IInv, TypeOK, WriteLine, Maps
  <2>2. new \in Lines /\ LineKey(new) = k
    BY <2>1, LineRoundTrip DEF Lines
  <2> HIDE DEF new
  <2>3. file' = Append(file, new)
    BY <1>10 DEF WriteLine, new
  <2>4. /\ file' \in Seq(Lines)
        /\ DOMAIN file' = DOMAIN file \cup {Len(file) + 1}
        /\ \A i \in DOMAIN file : file'[i] = file[i]
        /\ file'[Len(file) + 1] = new
        /\ Len(file) + 1 \notin DOMAIN file
    BY <1>f, <2>2, <2>3, AppendProperties
  <2>5. \A i \in DOMAIN file : LineKey(file[i]) # k
    BY <1>10, <2>1 DEF IInv, WriteLine
  <2>6. \A i, j \in DOMAIN file' :
            LineKey(file'[i]) = LineKey(file'[j]) => i = j
    BY <1>f, <2>2, <2>4, <2>5 DEF DistinctKeys
  <2>7. TypeOK'
    BY <1>10, <2>4, <2>6 DEF IInv, TypeOK, WriteLine, Lines
  <2>8. \A i \in DOMAIN file' : EntryLine(file', i, kvStore')
    BY <1>10, <2>1, <2>4 DEF IInv, WriteLine, EntryLine, new
  <2>9. \A i \in DOMAIN file' : LineKey(file'[i]) \notin unsaved'
    BY <1>10, <2>2, <2>4 DEF IInv, WriteLine
  <2>10. Written(file', kvStore', DOMAIN kvStore' \ unsaved')
    <3>1. ASSUME NEW x \in DOMAIN kvStore \ unsaved'
          PROVE  \E i \in DOMAIN file' : file'[i] = Line(x, kvStore[x])
      <4>1. CASE x = k
        BY <2>4, <4>1 DEF new
      <4>2. CASE x # k
        BY <1>10, <2>4, <4>2 DEF IInv, WriteLine, Written
      <4> QED
        BY <4>1, <4>2
    <3> QED
      BY <1>10, <3>1 DEF WriteLine, Written
  <2> QED
    BY <1>10, <2>7, <2>8, <2>9, <2>10 DEF IInv, WriteLine
<1>11. CASE Close
  <2>1. kvStore \in Maps /\ Written(file, kvStore, DOMAIN kvStore)
    BY <1>11 DEF IInv, TypeOK, Close
  <2>2. LoadsTo(file, kvStore)
    BY <1>11, <1>f, <2>1, LoadEntries DEF IInv, Close, LoadsTo
  <2>3. TypeOK'
    BY <1>11 DEF IInv, TypeOK, Close
  <2> QED
    BY <1>11, <2>2, <2>3 DEF IInv, Close, LoadsTo
<1>12. CASE UNCHANGED vars
  <2>1. TypeOK'
    BY <1>12 DEF IInv, TypeOK, vars
  <2> QED
    BY <1>12, <2>1 DEF IInv, vars, LoadsTo, Written, EntryLine
<1> QED
  BY <1>1, <1>2, <1>4, <1>5, <1>6, <1>7, <1>8, <1>9, <1>10, <1>11, <1>12
     DEF Next, Running

-----------------------------------------------------------------------------
(* The theorems.                                                           *)

LEMMA Inductive == Spec => []IInv
BY InitIInv, NextIInv, PTL DEF Spec

\* Only comma-free tokens enter the map and the file, and no key is written
\* twice, however commands, saves and signals interleave.
THEOREM TypeCorrect == Spec => []TypeOK
<1>1. IInv => TypeOK
  BY DEF IInv
<1> QED
  BY <1>1, Inductive, PTL

\* Between commands the file holds exactly what the user sees, provided that
\* no line exceeds the buffer of initializeFromDataStore.
THEOREM Durable == Spec => []DurableBetweenCommands
<1>1. IInv => DurableBetweenCommands
  BY DEF IInv, DurableBetweenCommands, Visible, LoadsTo, Idle
<1> QED
  BY <1>1, Inductive, PTL

\* The file never holds a key or a value the user does not see: a signal in
\* the middle of a save forgets entries and does nothing else.
THEOREM CrashSafe == Spec => []CrashOnlyForgets
<1>1. IInv => CrashOnlyForgets
  <2> SUFFICES ASSUME IInv PROVE Part(Load(file), Visible)
    BY DEF CrashOnlyForgets
  <2>1. CASE pc = "down"
    BY <2>1 DEF Visible, Part
  <2>2. CASE pc \in {"read", "handle", "open"}
    BY <2>2 DEF IInv, Visible, LoadsTo, Idle
  <2>3. CASE pc = "write"
    <3>1. file \in Seq(Lines) /\ DistinctKeys(file) /\ kvStore \in Maps
      BY DEF IInv, TypeOK, Lines, DistinctKeys
    <3>2. Part(Load(file), kvStore)
      BY <2>3, <3>1, LoadEntries DEF IInv
    <3> QED
      BY <2>3, <3>2 DEF Visible
  <2> QED
    BY <2>1, <2>2, <2>3 DEF IInv, TypeOK
<1> QED
  BY <1>1, Inductive, PTL

LEMMA InitRefines == Init => Abs!AInit
<1> SUFFICES ASSUME Init PROVE Abs!AInit
  OBVIOUS
<1>1. Readable(<<>>) = {}
  BY DEF Readable
<1>2. Load(<<>>) = [k \in {} |-> NotFound]
  BY <1>1 DEF Load
<1> QED
  BY <1>2 DEF Init, Input, Visible, Abs!AInit

\* Stopping, wherever the program is, is a forgetting step of the promise or
\* changes nothing the user sees.
LEMMA ExitRefines ==
    ASSUME IInv, CrashOnlyForgets, pc # "down", Exit
    PROVE  Abs!AForget \/ UNCHANGED Abs!avars
<1>1. Visible' = Load(file) /\ pc' = "down" /\ UNCHANGED <<input, reply>>
  BY DEF Exit, Visible
<1>2. Load(file) \in Maps /\ Part(Load(file), Visible)
  BY LoadDistinct DEF IInv, TypeOK, Lines, DistinctKeys, CrashOnlyForgets
<1>3. Visible' \in Abs!Maps /\ Abs!Part(Visible', Visible)
  BY <1>1, <1>2 DEF Maps, Part, Abs!Maps, Abs!Part
<1>4. CASE pc = "write"
  BY <1>1, <1>3, <1>4 DEF Abs!AForget
<1>5. CASE pc # "write" /\ AllFit(Visible)
  <2>1. Load(file) = Visible
    BY <1>5 DEF IInv, TypeOK, Visible, LoadsTo, Idle
  <2> QED
    BY <1>1, <1>5, <2>1 DEF Abs!avars
<1>6. CASE pc # "write" /\ ~AllFit(Visible)
  BY <1>1, <1>3, <1>6 DEF Abs!AForget, AllFit
<1> QED
  BY <1>4, <1>5, <1>6

LEMMA NextRefines ==
    IInv /\ CrashOnlyForgets /\ [Next]_vars => [Abs!ANext]_Abs!avars
<1> SUFFICES ASSUME IInv, CrashOnlyForgets, [Next]_vars
             PROVE  Abs!ANext \/ UNCHANGED Abs!avars
  OBVIOUS
<1>1. CASE Start
  <2>1. input' \in Input
    BY <1>1 DEF Start, Input
  <2> QED
    BY <1>1, <2>1 DEF Start, Visible, Abs!AType, Abs!ANext
<1>2. CASE ReadLine
  <2>1. input' \in Input
    BY <1>2 DEF ReadLine, IInv, TypeOK
  <2> QED
    BY <1>2, <2>1 DEF ReadLine, Visible, Abs!AType, Abs!ANext
<1>10. CASE Invalid
  BY <1>10 DEF Invalid, Visible, Abs!avars
<1>3. CASE Quit \/ Interrupt
  BY <1>3, ExitRefines DEF Quit, Interrupt, Abs!ANext
<1>4. CASE Get
  BY <1>4 DEF Get, Visible, Abs!AGet, Abs!ANext
<1>5. CASE SetMemory
  BY <1>5 DEF SetMemory, Visible, Abs!avars, IInv, Idle
<1>6. CASE OpenTruncate
  <2>1. /\ input.verb = "set" /\ {input.key, input.value} \subseteq Item
        /\ kvStore = Update(acked, input.key, input.value)
    BY <1>6 DEF IInv, OpenTruncate
  <2>2. Visible = acked /\ Visible' = kvStore
    BY <1>6 DEF OpenTruncate, Visible
  <2>3. Abs!ASet
    BY <1>6, <2>1, <2>2 DEF OpenTruncate, Update, Abs!Update, Abs!ASet
  <2> QED
    BY <2>3 DEF Abs!ANext
<1>7. CASE \E k \in Item : WriteLine(k)
  BY <1>7 DEF WriteLine, Visible, Abs!avars
<1>8. CASE Close
  BY <1>8 DEF Close, Visible, Abs!ASaved, Abs!ANext
<1>9. CASE UNCHANGED vars
  BY <1>9 DEF vars, Visible, Abs!avars
<1> QED
  BY <1>1, <1>2, <1>3, <1>4, <1>5, <1>6, <1>7, <1>8, <1>9, <1>10
     DEF Next, Running

\* The store with its file, its signals and its restarts implements the
\* one-map promise.
THEOREM Refinement == Spec => KeepsPromise
<1>1. Init => Abs!AInit
  BY InitRefines
<1>2. IInv /\ CrashOnlyForgets /\ [Next]_vars => [Abs!ANext]_Abs!avars
  BY NextRefines
<1> QED
  BY <1>1, <1>2, Inductive, CrashSafe, PTL
     DEF Spec, KeepsPromise, Abs!ASpec
=============================================================================
