---------------------------- MODULE HTTPProxy_proofs ----------------------------
(***************************************************************************)
(* For any well-formed messages, clients and buffer: where the proxy finds *)
(* the end of a message however it is cut into packets, and what ends it.  *)
(***************************************************************************)
EXTENDS HTTPProxy, WellFoundedInduction, SequenceTheorems, TLAPS

-----------------------------------------------------------------------------
(* What the parser has when it has read n bytes of message m.              *)

\* No CRLF is split between bytes n and n + 1.
Between(m, n) == n + 1 \notin LineEnds(m)

\* The headers whose line is complete, and the length they announce.
Complete(m, n) == {i \in Headers(m) : \E j \in LineEnds(m) : i < j /\ j <= n}
Declared(m, n) == IF Complete(m, n) = {} THEN 0 ELSE Announced[m[Min(Complete(m, n)) + 1]]

\* null: the flag receivedNullLine before the first complete line.
InHead(m, n, s, null) ==
    /\ s.line = SubSeq(m, LineStart(m, n) + 1, n)
    /\ s.null = IF LineStart(m, n) = 0 THEN null ELSE n >= HeadEnd(m)
    /\ s.cl = Declared(m, n)
    /\ s.rcl = 0

InBody(m, n, s) == s.null /\ s.cl = BodyLength(m) /\ s.rcl = n - HeadEnd(m)

Parsed(m, n, s, null) == IF n <= HeadEnd(m) THEN InHead(m, n, s, null) ELSE InBody(m, n, s)

-----------------------------------------------------------------------------
(* The inductive invariant.                                                *)

Parser == [line : Seq(Byte), null : BOOLEAN, cl : 0..2, rcl : Nat, done : BOOLEAN]

Types ==
    /\ TypeOK
    /\ cIn \in [Client -> Seq(Byte)] /\ request \in [Client -> Requests]
    /\ sent \in Seq(Byte) /\ sIn \in Seq(Byte)
    /\ answered \in Responses \cup {<<>>}
    /\ toClient \in [Client -> Seq(Byte)]
    /\ st \in Parser
    /\ packets \in [crlf : BOOLEAN, first : BOOLEAN]

Joined(u, v, w) == u \o v = w

\* The response w begins with u and then v.
Begins(u, v, w) == \E lost \in Seq(Byte) : Joined(u, v \o lost, w)

In(c, q)    == \E i \in DOMAIN q : q[i] = c
Distinct(q) == \A i, j \in DOMAIN q : q[i] = q[j] => i = j

\* A client is served once, and before that there is nothing for it.
Waiting ==
    /\ pc = "accept" => current = None
    /\ Distinct(queue)
    /\ \A c \in Client :
         /\ cstate[c] = "new" \/ In(c, queue) => toClient[c] = <<>> /\ cIn[c] \in {<<>>, request[c]}
         /\ cstate[c] \in {"new", "open"} => cIn[c] = <<>>
         /\ In(c, queue) => c # current /\ cstate[c] \in {"open", "sent", "gone"}
         /\ In(c, queue) /\ cstate[c] = "sent" => cIn[c] = request[c]
    /\ current # None => cstate[current] \in {"open", "sent", "gone"}

\* The request of the client served is what was sent on and what is still to read,
\* its response what it got, what is still to come and what the server never sent.
Streams ==
    current # None =>
      /\ sent \o cIn[current] \in {<<>>, request[current]}
      /\ cstate[current] = "open" => sent = <<>>
      /\ cstate[current] = "sent" => sent \o cIn[current] = request[current]
      /\ pc = "request" => toClient[current] = <<>>
      /\ answered = <<>> => sIn = <<>> /\ toClient[current] = <<>>
      /\ answered # <<>> => sent = request[current] /\ Begins(toClient[current], sIn, answered)

\* The current line ends where the parser stopped reading.
LastRead == current # None /\ st.line # <<>> => Received # <<>> /\ EndsWith(Received, st.line[Len(st.line)])

\* While no CRLF is split, the parser has what belongs to the bytes it has read.
Parsing ==
    /\ pc = "request" /\ ~packets.crlf =>
         /\ sent # request[current]
         /\ Between(request[current], Len(sent))
         /\ Parsed(request[current], Len(sent), st, FALSE)
    /\ pc = "response" /\ ~packets.crlf => sent = request[current] \/ cstate[current] = "gone"
    /\ pc = "response" /\ ~packets.crlf /\ ~packets.first /\ sent = request[current] /\ ~HasBody(sent) =>
         IF toClient[current] = <<>>
         THEN st.line = <<>> /\ st.cl = 0 /\ st.rcl = 0
         ELSE /\ toClient[current] # answered
              /\ sIn # <<>> => Between(answered, Len(toClient[current]))
              /\ LineStart(answered, Len(toClient[current])) # 0
              /\ Parsed(answered, Len(toClient[current]), st, TRUE)

PInv == Types /\ Waiting /\ Streams /\ LastRead /\ Parsing /\ FatalCauses

-----------------------------------------------------------------------------
(* Numbers.                                                                *)

LEMMA Least ==
    ASSUME NEW T, T \subseteq Nat, T # {}
    PROVE  \E n \in T : \A m \in T : n <= m
<1>1. IsWellFoundedOn(OpToRel(<, Nat), Nat)
  BY NatLessThanWellFounded
<1>2. PICK n \in T : \A m \in T : <<m, n>> \notin OpToRel(<, Nat)
  BY <1>1, WFMin
<1>3. ASSUME NEW m \in T PROVE n <= m
  <2>1. n \in Nat /\ m \in Nat
    OBVIOUS
  <2>2. ~(m < n)
    BY <1>2, <2>1 DEF OpToRel
  <2> QED
    BY <2>1, <2>2
<1> QED
  BY <1>3

LEMMA LeastIsMin ==
    ASSUME NEW T, T \subseteq Nat, T # {}
    PROVE  Min(T) \in T /\ \A m \in T : Min(T) <= m
BY Least DEF Min

LEMMA GreatestIsMax ==
    ASSUME NEW b \in Nat, NEW T, T \subseteq 0..b, T # {}
    PROVE  Max(T) \in T /\ \A m \in T : m <= Max(T)
<1> DEFINE D == {b - n : n \in T}
<1>1. D \subseteq Nat /\ D # {}
  <2>1. \A n \in T : b - n \in Nat
    OBVIOUS
  <2> QED
    BY <2>1
<1>2. PICK d \in D : \A e \in D : d <= e
  BY <1>1, Least
<1>3. PICK n \in T : d = b - n
  BY <1>2
<1>4. ASSUME NEW m \in T PROVE m <= n
  <2>1. b - n <= b - m
    BY <1>2, <1>3
  <2>2. n \in Nat /\ m \in Nat
    OBVIOUS
  <2> QED
    BY <2>1, <2>2
<1>5. \E x \in T : \A m \in T : x >= m
  <2>1. \A m \in T : n >= m
    BY <1>4
  <2> QED
    BY <2>1
<1>6. Max(T) \in T /\ \A m \in T : Max(T) >= m
  BY <1>5 DEF Max
<1> QED
  BY <1>6

LEMMA Induction ==
    ASSUME NEW S, 0 \in S, \A n \in Nat : n \in S => n + 1 \in S
    PROVE  Nat \subseteq S
<1> SUFFICES ASSUME Nat \ S # {} PROVE FALSE
  OBVIOUS
<1>1. Nat \ S \subseteq Nat
  OBVIOUS
<1>2. PICK n \in Nat \ S : \A m \in Nat \ S : n <= m
  BY <1>1, Least
<1>3. n # 0 /\ n \in Nat
  OBVIOUS
<1>4. n - 1 \in Nat /\ ~(n <= n - 1) /\ (n - 1) + 1 = n
  BY <1>3
<1>5. n - 1 \in S
  BY <1>2, <1>4
<1> QED
  BY <1>4, <1>5

-----------------------------------------------------------------------------
(* The lines of a packet or a message.                                     *)

LEMMA LineStartIs ==
    ASSUME NEW S, NEW p \in Seq(S), NEW i \in Nat
    PROVE  /\ LineStart(p, i) \in 0..i
           /\ LineStart(p, i) = 0 \/ LineStart(p, i) \in LineEnds(p)
           /\ \A j \in LineEnds(p) : j <= i => j <= LineStart(p, i)
           /\ LineEnds(p) \subseteq 2..Len(p) /\ Len(p) \in Nat
<1> DEFINE T == {0} \cup {j \in LineEnds(p) : j <= i}
<1>1. LineEnds(p) \subseteq 2..Len(p) /\ Len(p) \in Nat
  BY DEF LineEnds
<1>2. T \subseteq 0..i /\ T # {}
  BY <1>1
<1>3. Max(T) \in T /\ \A m \in T : m <= Max(T)
  BY <1>2, GreatestIsMax
<1>4. LineStart(p, i) = Max(T)
  BY DEF LineStart
<1> HIDE DEF T
<1>5. LineStart(p, i) \in T /\ \A m \in T : m <= LineStart(p, i)
  BY <1>3, <1>4
<1> QED
  BY <1>1, <1>2, <1>5 DEF T

\* The same line goes on as long as no CRLF ends it.
LEMMA SameLine ==
    ASSUME NEW S, NEW p \in Seq(S), NEW i \in Nat, NEW k \in Nat, i <= k,
           \A j \in LineEnds(p) : j <= i \/ k < j
    PROVE  LineStart(p, k) = LineStart(p, i)
<1>1. PICK a \in 0..i : a = LineStart(p, i)
  BY LineStartIs
<1>2. PICK b \in 0..k : b = LineStart(p, k)
  BY LineStartIs
<1>3. (a = 0 \/ a \in LineEnds(p)) /\ (b = 0 \/ b \in LineEnds(p))
  BY <1>1, <1>2, LineStartIs
<1>4. /\ \A j \in LineEnds(p) : j <= i => j <= a
      /\ \A j \in LineEnds(p) : j <= k => j <= b
  BY <1>1, <1>2, LineStartIs
<1>5. a <= b
  BY <1>3, <1>4
<1>6. b <= a
  <2>1. b \in LineEnds(p) => b <= i
    BY <1>2
  <2> QED
    BY <1>3, <1>4, <2>1
<1> QED
  BY <1>1, <1>2, <1>5, <1>6

\* After is well defined: each round goes on from an earlier one.
LEMMA AfterIs ==
    ASSUME NEW S, NEW p \in Seq(S), NEW s
    PROVE  /\ After(p, s)[0] = s
           /\ \A i \in 1..Len(p) :
                 After(p, s)[i] = ReadLine(SubSeq(p, LineStart(p, i - 1) + 1, i), After(p, s)[LineStart(p, i - 1)])
<1> DEFINE Round(f, i) == IF i = 0 THEN s
                          ELSE ReadLine(SubSeq(p, LineStart(p, i - 1) + 1, i), f[LineStart(p, i - 1)])
           P(j) == \E f : f = [i \in 0..j |-> Round(f, i)]
           N == {j \in Nat : P(j)}
<1>1. \A j \in Nat : \A i \in 1..(j + 1) : LineStart(p, i - 1) \in 0..j
  <2> SUFFICES ASSUME NEW j \in Nat, NEW i \in 1..(j + 1) PROVE LineStart(p, i - 1) \in 0..j
    OBVIOUS
  <2>1. i - 1 \in Nat /\ i - 1 <= j
    OBVIOUS
  <2>2. LineStart(p, i - 1) \in 0..(i - 1)
    BY <2>1, LineStartIs
  <2> QED
    BY <2>1, <2>2
<1>2. P(0)
  <2> DEFINE f == [i \in 0..0 |-> s]
  <2>1. f = [i \in 0..0 |-> Round(f, i)]
    OBVIOUS
  <2> QED
    BY <2>1
<1>3. ASSUME NEW j \in Nat, P(j) PROVE P(j + 1)
  <2>1. PICK f : f = [i \in 0..j |-> Round(f, i)]
    BY <1>3
  <2> DEFINE g == [i \in 0..(j + 1) |-> Round(f, i)]
  <2>2. \A i \in 0..j : f[i] = g[i]
    <3>1. 0..j \subseteq 0..(j + 1)
      OBVIOUS
    <3> HIDE DEF Round
    <3>2. \A i \in 0..j : f[i] = Round(f, i)
      BY <2>1
    <3> QED
      BY <3>1, <3>2
  <2>3. \A i \in 1..(j + 1) : f[LineStart(p, i - 1)] = g[LineStart(p, i - 1)]
    BY <1>1, <2>2
  <2> HIDE DEF g
  <2>4. \A i \in 0..(j + 1) : Round(f, i) = Round(g, i)
    BY <2>3
  <2>5. g = [i \in 0..(j + 1) |-> Round(g, i)]
    BY <2>4 DEF g
  <2> QED
    BY <2>5
<1> HIDE DEF P
<1>4. 0 \in N /\ \A j \in Nat : j \in N => j + 1 \in N
  BY <1>2, <1>3
<1>5. Nat \subseteq N
  BY <1>4, Induction
<1>6. P(Len(p))
  BY <1>5
<1>7. \E f : f = [i \in 0..Len(p) |-> Round(f, i)]
  BY <1>6 DEF P
<1>8. After(p, s) = CHOOSE f : f = [i \in 0..Len(p) |-> Round(f, i)]
  BY DEF After
<1>9. After(p, s) = [i \in 0..Len(p) |-> Round(After(p, s), i)]
  BY <1>7, <1>8
<1>10. \A i \in 0..Len(p) : After(p, s)[i] = Round(After(p, s), i)
  BY <1>9, Zenon
<1>11. 0 \in 0..Len(p) /\ \A i \in 1..Len(p) : i \in 0..Len(p) /\ i # 0
  OBVIOUS
<1> QED
  BY <1>10, <1>11, Zenon

LEMMA Announces == /\ \A x \in DOMAIN Announced : Announced[x] \in 1..2
                   /\ DOMAIN Announced \subseteq Byte
BY DEF Announced, Byte

LEMMA LeastIsUnique ==
    ASSUME NEW T, T \subseteq Nat, NEW x \in T, \A y \in T : x <= y
    PROVE  Min(T) = x
<1>1. Min(T) \in T /\ Min(T) <= x
  BY LeastIsMin
<1>2. x <= Min(T) /\ x \in Nat /\ Min(T) \in Nat
  BY <1>1
<1> QED
  BY <1>1, <1>2

LEMMA MessageIs ==
    ASSUME NEW m, WellFormed(m)
    PROVE  /\ m \in Seq(Byte) /\ Len(m) \in Nat
           /\ LineEnds(m) \subseteq 2..Len(m)
           /\ HeadEnd(m) \in LineEnds(m) /\ HeadEnd(m) \in 2..Len(m)
           /\ \A i \in LineEnds(m) : i <= HeadEnd(m) =>
                 (i = HeadEnd(m) <=> i = 2 \/ i - 2 \in LineEnds(m))
           /\ Headers(m) \subseteq Nat /\ BodyLength(m) \in 0..2
           /\ Len(m) = HeadEnd(m) + BodyLength(m)
           /\ m # <<>>
<1>1. m \in Seq(Byte) /\ EmptyLines(m) # {} /\ Len(m) = HeadEnd(m) + BodyLength(m) /\ Len(m) \in Nat
  BY DEF WellFormed
<1>2. LineEnds(m) \subseteq 2..Len(m)
  BY DEF LineEnds
<1>3. EmptyLines(m) \subseteq LineEnds(m) /\ EmptyLines(m) \subseteq Nat
  BY <1>1, <1>2 DEF EmptyLines
<1>4. HeadEnd(m) \in EmptyLines(m) /\ \A i \in EmptyLines(m) : HeadEnd(m) <= i
  BY <1>1, <1>3, LeastIsMin DEF HeadEnd
<1>5. HeadEnd(m) \in LineEnds(m) /\ HeadEnd(m) \in 2..Len(m)
  BY <1>2, <1>3, <1>4
<1>6. ASSUME NEW i \in LineEnds(m), i <= HeadEnd(m)
      PROVE  i = HeadEnd(m) <=> i = 2 \/ i - 2 \in LineEnds(m)
  <2>1. i \in Nat /\ HeadEnd(m) \in Nat
    BY <1>1, <1>2, <1>5
  <2>2. i \in EmptyLines(m) <=> i = 2 \/ i - 2 \in LineEnds(m)
    BY DEF EmptyLines
  <2>3. i \in EmptyLines(m) => HeadEnd(m) <= i
    BY <1>4
  <2> QED
    BY <1>4, <1>6, <2>1, <2>2, <2>3
<1>7. Headers(m) \subseteq Nat
  BY <1>1, <1>2 DEF Headers
<1>8. BodyLength(m) \in 0..2
  <2>1. CASE Headers(m) = {}
    BY <2>1 DEF BodyLength
  <2>2. CASE Headers(m) # {}
    <3>1. Min(Headers(m)) \in Headers(m)
      BY <1>7, <2>2, LeastIsMin
    <3>2. m[Min(Headers(m)) + 1] \in DOMAIN Announced
      BY <3>1 DEF Headers
    <3> QED
      BY <2>2, <3>2, Announces DEF BodyLength
  <2> QED
    BY <2>1, <2>2
<1>9. m # <<>>
  BY <1>1, <1>5
<1> QED
  BY <1>1, <1>2, <1>5, <1>6, <1>7, <1>8, <1>9

LEMMA DeclaredIs ==
    ASSUME NEW m, WellFormed(m), NEW n \in Nat
    PROVE  /\ Complete(m, n) \subseteq Headers(m) /\ Complete(m, n) \subseteq Nat
           /\ Declared(m, n) \in 0..2
           /\ Declared(m, n) = 0 <=> Complete(m, n) = {}
           /\ LineStart(m, n) = 0 => Declared(m, n) = 0
           /\ n >= HeadEnd(m) => Declared(m, n) = BodyLength(m)
<1>1. Complete(m, n) \subseteq Headers(m) /\ Headers(m) \subseteq Nat /\ LineEnds(m) \subseteq 2..Len(m)
  BY MessageIs DEF Complete
<1>2. Complete(m, n) # {} => Declared(m, n) \in 1..2
  <2>1. SUFFICES ASSUME Complete(m, n) # {} PROVE Declared(m, n) \in 1..2
    OBVIOUS
  <2>2. Min(Complete(m, n)) \in Headers(m)
    BY <1>1, <2>1, LeastIsMin
  <2>3. m[Min(Complete(m, n)) + 1] \in DOMAIN Announced
    BY <2>2 DEF Headers
  <2> QED
    BY <2>1, <2>3, Announces DEF Declared
<1>3. Complete(m, n) = {} => Declared(m, n) = 0
  BY DEF Declared
<1>4. Declared(m, n) \in 0..2 /\ (Declared(m, n) = 0 <=> Complete(m, n) = {})
  BY <1>2, <1>3
<1>5. LineStart(m, n) = 0 => Complete(m, n) = {}
  <2>1. m \in Seq(Byte)
    BY MessageIs
  <2>2. \A j \in LineEnds(m) : j <= n => j <= LineStart(m, n)
    BY <2>1, LineStartIs
  <2>3. \A j \in LineEnds(m) : ~(j <= 0)
    BY <1>1
  <2> QED
    BY <2>2, <2>3 DEF Complete
<1>6. n >= HeadEnd(m) => Complete(m, n) = Headers(m)
  <2>1. SUFFICES ASSUME n >= HeadEnd(m), NEW i \in Headers(m) PROVE i \in Complete(m, n)
    BY <1>1
  <2>2. i < HeadEnd(m) /\ HeadEnd(m) \in LineEnds(m) /\ HeadEnd(m) <= n
    BY <2>1, MessageIs DEF Headers
  <2> QED
    BY <2>2 DEF Complete
<1>7. n >= HeadEnd(m) => Declared(m, n) = BodyLength(m)
  BY <1>6 DEF Declared, BodyLength
<1> QED
  BY <1>1, <1>3, <1>4, <1>5, <1>7

\* What a line that is complete with byte i adds to what the headers declare.
LEMMA DeclaredByLine ==
    ASSUME NEW m, WellFormed(m), NEW k \in Nat, NEW i \in LineEnds(m), k < i, i <= HeadEnd(m),
           \A j \in LineEnds(m) : j <= k \/ i <= j
    PROVE  LET a == LineStart(m, k)
           IN  Declared(m, i) = IF Declared(m, k) # 0 THEN Declared(m, k)
                                ELSE IF m[a + 1] \in DOMAIN Announced THEN Announced[m[a + 1]] ELSE 0
<1>1. /\ m \in Seq(Byte) /\ LineEnds(m) \subseteq 2..Len(m) /\ Len(m) \in Nat /\ HeadEnd(m) \in Nat
      /\ i \in Nat
  BY MessageIs
<1>2. PICK a \in 0..k : a = LineStart(m, k)
  BY <1>1, LineStartIs
<1>3. (a = 0 \/ a \in LineEnds(m)) /\ \A j \in LineEnds(m) : j <= k => j <= a
  BY <1>1, <1>2, LineStartIs
<1>4. a \in Headers(m) <=> m[a + 1] \in DOMAIN Announced
  BY <1>1, <1>2, <1>3 DEF Headers
<1>5. Complete(m, k) \subseteq Nat /\ Complete(m, i) \subseteq Nat
  BY <1>1, DeclaredIs
<1>6. \A x \in Complete(m, k) : x < a
  <2> SUFFICES ASSUME NEW x \in Complete(m, k) PROVE x < a
    OBVIOUS
  <2>1. PICK j \in LineEnds(m) : x < j /\ j <= k
    BY DEF Complete
  <2>2. j <= a /\ x \in Nat /\ j \in Nat
    BY <1>1, <1>3, <1>5, <2>1
  <2> QED
    BY <2>1, <2>2
<1>7. Complete(m, k) \subseteq Complete(m, i)
  <2> SUFFICES ASSUME NEW x \in Complete(m, k) PROVE x \in Complete(m, i)
    OBVIOUS
  <2>1. PICK j \in LineEnds(m) : x < j /\ j <= k
    BY DEF Complete
  <2>2. j <= i
    BY <1>1, <2>1
  <2> QED
    BY <2>1, <2>2 DEF Complete
<1>8. a \in Headers(m) => a \in Complete(m, i)
  BY <1>1, <1>2 DEF Complete
<1>9. ASSUME NEW x \in Complete(m, i)
      PROVE  x \in Complete(m, k) \/ x = a
  <2>1. PICK j \in LineEnds(m) : x < j /\ j <= i
    BY DEF Complete
  <2>2. x \in Headers(m) /\ x \in Nat /\ j \in Nat /\ (x = 0 \/ x \in LineEnds(m))
    BY <1>1, <1>5 DEF Complete, Headers
  <2>3. x <= k
    BY <1>1, <2>1, <2>2
  <2>4. x <= a
    BY <1>2, <1>3, <2>2, <2>3
  <2>5. CASE x < a
    <3>1. a \in LineEnds(m) /\ a <= k
      BY <1>2, <1>3, <2>2, <2>5
    <3> QED
      BY <2>2, <2>5, <3>1 DEF Complete
  <2> QED
    BY <1>2, <2>2, <2>4, <2>5
<1>10. CASE Complete(m, k) = {}
  <2>1. Declared(m, k) = 0
    BY <1>10 DEF Declared
  <2>2. CASE a \in Headers(m)
    <3>1. Complete(m, i) = {a}
      BY <1>8, <1>9, <1>10, <2>2
    <3>2. Min(Complete(m, i)) = a
      <4>1. {a} \subseteq Nat /\ \A y \in {a} : a <= y
        BY <1>2
      <4> QED
        BY <3>1, <4>1, LeastIsUnique
    <3> QED
      BY <1>2, <1>4, <2>1, <2>2, <3>1, <3>2 DEF Declared
  <2>3. CASE a \notin Headers(m)
    <3>1. Complete(m, i) = {}
      <4>1. \A x \in Complete(m, i) : x = a /\ x \in Headers(m)
        BY <1>9, <1>10 DEF Complete
      <4> QED
        BY <2>3, <4>1
    <3> QED
      BY <1>2, <1>4, <2>1, <2>3, <3>1 DEF Declared
  <2> QED
    BY <2>2, <2>3
<1>11. CASE Complete(m, k) # {}
  <2>1. PICK x \in Complete(m, k) : x = Min(Complete(m, k)) /\ \A y \in Complete(m, k) : x <= y
    BY <1>5, <1>11, LeastIsMin
  <2>2. \A y \in Complete(m, i) : x <= y
    <3>1. x <= a
      BY <1>2, <1>5, <1>6
    <3> QED
      BY <1>9, <2>1, <3>1
  <2>3. Min(Complete(m, i)) = x
    BY <1>5, <1>7, <2>1, <2>2, LeastIsUnique
  <2>4. Declared(m, i) = Declared(m, k)
    BY <1>7, <1>11, <2>1, <2>3 DEF Declared
  <2>5. Declared(m, k) # 0
    BY <1>11, DeclaredIs
  <2> QED
    BY <2>4, <2>5
<1> QED
  BY <1>10, <1>11

LEMMA StretchIs ==
    ASSUME NEW S, NEW m \in Seq(S), NEW a \in Nat, NEW i \in Nat, a <= i, i <= Len(m)
    PROVE  /\ SubSeq(m, a + 1, i) \in Seq(S) /\ Len(SubSeq(m, a + 1, i)) = i - a
           /\ \A x \in 1..(i - a) : SubSeq(m, a + 1, i)[x] = m[a + x]
BY SubSeqProperties

\* A stretch of a message and the next one are one stretch.
LEMMA Stretches ==
    ASSUME NEW S, NEW m \in Seq(S), NEW a \in Nat, NEW k \in Nat, NEW i \in Nat,
           a <= k, k <= i, i <= Len(m)
    PROVE  /\ SubSeq(m, a + 1, k) \o SubSeq(m, k + 1, i) = SubSeq(m, a + 1, i)
           /\ SubSeq(m, a + 1, i) \in Seq(S) /\ Len(SubSeq(m, a + 1, i)) = i - a
           /\ \A x \in 1..(i - a) : SubSeq(m, a + 1, i)[x] = m[a + x]
<1>1. /\ SubSeq(m, a + 1, k) \in Seq(S) /\ Len(SubSeq(m, a + 1, k)) = k - a
      /\ \A x \in 1..(k - a) : SubSeq(m, a + 1, k)[x] = m[a + x]
  <2>1. k <= Len(m)
    OBVIOUS
  <2> QED
    BY <2>1, StretchIs
<1>2. /\ SubSeq(m, k + 1, i) \in Seq(S) /\ Len(SubSeq(m, k + 1, i)) = i - k
      /\ \A x \in 1..(i - k) : SubSeq(m, k + 1, i)[x] = m[k + x]
  BY StretchIs
<1>3. /\ SubSeq(m, a + 1, i) \in Seq(S) /\ Len(SubSeq(m, a + 1, i)) = i - a
      /\ \A x \in 1..(i - a) : SubSeq(m, a + 1, i)[x] = m[a + x]
  <2>1. a <= i
    OBVIOUS
  <2> QED
    BY <2>1, StretchIs
<1>4. PICK u \in Seq(S) : u = SubSeq(m, a + 1, k) /\ Len(u) = k - a /\ \A x \in 1..(k - a) : u[x] = m[a + x]
  BY <1>1, Zenon
<1>5. PICK v \in Seq(S) : v = SubSeq(m, k + 1, i) /\ Len(v) = i - k /\ \A x \in 1..(i - k) : v[x] = m[k + x]
  BY <1>2, Zenon
<1>6. PICK w \in Seq(S) : w = SubSeq(m, a + 1, i) /\ Len(w) = i - a /\ \A x \in 1..(i - a) : w[x] = m[a + x]
  BY <1>3, Zenon
<1>a. Len(u) = k - a /\ Len(v) = i - k /\ Len(w) = i - a
  BY <1>4, <1>5, <1>6
<1>b. /\ \A x \in 1..(k - a) : u[x] = m[a + x]
      /\ \A x \in 1..(i - k) : v[x] = m[k + x]
      /\ \A x \in 1..(i - a) : w[x] = m[a + x]
  BY <1>4, <1>5, <1>6
<1>7. Len(u \o v) = Len(w) /\ u \o v \in Seq(S)
  <2>1. Len(u \o v) = Len(u) + Len(v) /\ u \o v \in Seq(S)
    BY ConcatProperties
  <2> QED
    BY <1>a, <2>1
<1>c. \A x \in 1..(k - a) + (i - k) : (u \o v)[x] = IF x <= k - a THEN u[x] ELSE v[x - (k - a)]
  <2>1. \A x \in 1..Len(u) + Len(v) : (u \o v)[x] = IF x <= Len(u) THEN u[x] ELSE v[x - Len(u)]
    BY ConcatProperties
  <2> QED
    BY <1>a, <2>1
<1>8. ASSUME NEW x \in 1..Len(w) PROVE (u \o v)[x] = w[x]
  <2>0. x \in 1..(i - a) /\ x \in 1..(k - a) + (i - k)
    BY <1>a
  <2>1. CASE x <= k - a
    <3>1. x \in 1..(k - a)
      BY <2>0, <2>1
    <3> QED
      BY <1>b, <1>c, <2>0, <2>1, <3>1
  <2>2. CASE ~(x <= k - a)
    <3>1. x - (k - a) \in 1..(i - k) /\ k + (x - (k - a)) = a + x
      BY <2>0, <2>2
    <3>2. (u \o v)[x] = v[x - (k - a)]
      BY <1>c, <2>0, <2>2
    <3>3. v[x - (k - a)] = m[k + (x - (k - a))]
      BY <1>b, <3>1
    <3>4. w[x] = m[a + x]
      BY <1>b, <2>0
    <3> QED
      BY <3>1, <3>2, <3>3, <3>4
  <2> QED
    BY <2>1, <2>2
<1>9. u \o v = w
  BY <1>7, <1>8, SeqEqual
<1> QED
  BY <1>3, <1>4, <1>5, <1>6, <1>9

LEMMA EndsInCRLF ==
    ASSUME NEW line \in Seq(Byte)
    PROVE  /\ HasCRLF(line) <=> Len(line) >= 2 /\ line[Len(line) - 1] = "cr" /\ line[Len(line)] = "lf"
           /\ line = CRLF <=> Len(line) = 2 /\ line[1] = "cr" /\ line[2] = "lf"
<1>1. CRLF \in Seq(Byte) /\ Len(CRLF) = 2 /\ CRLF[1] = "cr" /\ CRLF[2] = "lf"
  BY DEF CRLF, Byte
<1>2. ASSUME NEW e \in Seq(Byte), Len(e) = 2, e[1] = "cr", e[2] = "lf"
      PROVE  e = CRLF
  <2>1. \A x \in 1..Len(e) : e[x] = CRLF[x]
    BY <1>1, <1>2
  <2> QED
    BY <1>1, <1>2, <2>1, SeqEqual
<1>3. line = CRLF <=> Len(line) = 2 /\ line[1] = "cr" /\ line[2] = "lf"
  BY <1>1, <1>2
<1>4. CASE Len(line) >= 2
  <2>1. PICK n \in Nat : n = Len(line)
    OBVIOUS
  <2>2. PICK e : e = SubSeq(line, n - 1, n)
    OBVIOUS
  <2>3. \A x \in (n - 1)..n : line[x] \in Byte
    BY <1>4, <2>1
  <2>4. n - 1 \in Int /\ n \in Int
    BY <2>1
  <2>5. e \in Seq(Byte) /\ Len(e) = 2 /\ \A x \in 1..2 : e[x] = line[(n - 1) + x - 1]
    BY <2>2, <2>3, <2>4, SubSeqProperties
  <2>6. e[1] = line[n - 1] /\ e[2] = line[n]
    <3>1. (n - 1) + 1 - 1 = n - 1 /\ (n - 1) + 2 - 1 = n /\ 1 \in 1..2 /\ 2 \in 1..2
      BY <2>4
    <3> QED
      BY <2>5, <3>1
  <2>7. e = CRLF <=> e[1] = "cr" /\ e[2] = "lf"
    BY <1>1, <1>2, <2>5
  <2>8. HasCRLF(line) <=> e = CRLF
    BY <1>4, <2>1, <2>2 DEF HasCRLF
  <2> QED
    BY <1>3, <1>4, <2>1, <2>6, <2>7, <2>8
<1>5. CASE ~(Len(line) >= 2)
  BY <1>3, <1>5 DEF HasCRLF
<1> QED
  BY <1>4, <1>5

\* The current line ends in CRLF when a line of the message does.
LEMMA LineCompletes ==
    ASSUME NEW m, WellFormed(m), NEW k \in Nat, NEW i \in Nat, k < i, i <= Len(m),
           \A j \in LineEnds(m) : j <= k \/ i <= j,
           NEW a \in 0..k, a = 0 \/ a \in LineEnds(m), \A j \in LineEnds(m) : j <= k => j <= a,
           NEW line \in Seq(Byte), Len(line) = i - a, \A x \in 1..(i - a) : line[x] = m[a + x]
    PROVE  /\ HasCRLF(line) <=> i \in LineEnds(m)
           /\ i \in LineEnds(m) => (line = CRLF <=> i = 2 \/ i - 2 \in LineEnds(m))
<1>1. m \in Seq(Byte) /\ Len(m) \in Nat /\ LineEnds(m) \subseteq 2..Len(m)
  BY MessageIs
<1>2. \A j \in LineEnds(m) : m[j - 1] = "cr" /\ m[j] = "lf" /\ j \in Nat
  BY <1>1 DEF LineEnds
<1>3. ASSUME HasCRLF(line) PROVE i \in LineEnds(m)
  <2>1. Len(line) >= 2 /\ line[Len(line) - 1] = "cr" /\ line[Len(line)] = "lf"
    BY <1>3, EndsInCRLF
  <2>2. i - a >= 2 /\ a + ((i - a) - 1) = i - 1 /\ a + (i - a) = i
    BY <2>1
  <2>3. line[(i - a) - 1] = m[a + ((i - a) - 1)] /\ line[i - a] = m[a + (i - a)]
    BY <2>2
  <2>4. m[i - 1] = "cr" /\ m[i] = "lf" /\ i \in 2..Len(m)
    BY <1>1, <2>1, <2>2, <2>3
  <2> QED
    BY <2>4 DEF LineEnds
<1>4. ASSUME i \in LineEnds(m)
      PROVE  HasCRLF(line) /\ (line = CRLF <=> i = 2 \/ i - 2 \in LineEnds(m))
  <2>1. m[i - 1] = "cr" /\ m[i] = "lf" /\ i >= 2
    BY <1>1, <1>2, <1>4
  <2>2. a <= i - 2
    <3>1. a = i - 1 => a \in LineEnds(m)
      BY <2>1
    <3>2. a # i - 1
      BY <1>2, <2>1, <3>1
    <3> QED
      BY <3>2
  <2>3. i - a >= 2 /\ a + ((i - a) - 1) = i - 1 /\ a + (i - a) = i
    BY <2>2
  <2>4. line[(i - a) - 1] = m[a + ((i - a) - 1)] /\ line[i - a] = m[a + (i - a)]
    BY <2>3
  <2>5. Len(line) >= 2 /\ line[Len(line) - 1] = "cr" /\ line[Len(line)] = "lf"
    BY <2>1, <2>3, <2>4
  <2>6. line = CRLF <=> i - a = 2
    <3>1. ASSUME i - a = 2 PROVE line = CRLF
      <4>1. Len(line) = 2 /\ line[1] = "cr" /\ line[2] = "lf"
        BY <2>5, <3>1
      <4> QED
        BY <4>1, EndsInCRLF
    <3>2. ASSUME line = CRLF PROVE i - a = 2
      BY <3>2, EndsInCRLF
    <3> QED
      BY <3>1, <3>2
  <2>7. i - 2 \in LineEnds(m) => a = i - 2
    <3>1. PICK j \in Int : j = i - 2
      OBVIOUS
    <3>2. j \in LineEnds(m) => j <= k
      BY <3>1
    <3>3. j \in LineEnds(m) => j <= a
      BY <3>2
    <3> QED
      BY <2>2, <3>1, <3>3
  <2>8. i - a = 2 <=> i = 2 \/ i - 2 \in LineEnds(m)
    <3>1. i = 2 => i - a = 2
      BY <2>2
    <3>2. i - 2 \in LineEnds(m) => i - a = 2
      BY <2>7
    <3>3. i - a = 2 => i = 2 \/ i - 2 \in LineEnds(m)
      <4>1. SUFFICES ASSUME i - a = 2, a # 0 PROVE i - 2 \in LineEnds(m)
        BY <2>2
      <4>2. i - 2 = a
        BY <4>1
      <4> QED
        BY <4>1, <4>2
    <3> QED
      BY <3>1, <3>2, <3>3
  <2> QED
    BY <2>5, <2>6, <2>8, EndsInCRLF
<1> QED
  BY <1>3, <1>4

\* The same, with names for the places where they begin.
LEMMA StretchesFrom ==
    ASSUME NEW S, NEW m \in Seq(S), NEW b \in Nat \ {0}, NEW k \in Nat, NEW c, c = k + 1, NEW i \in Nat,
           b <= c, k <= i, i <= Len(m)
    PROVE  SubSeq(m, b, k) \o SubSeq(m, c, i) = SubSeq(m, b, i)
<1>1. PICK a \in Nat : b = a + 1
  <2>1. b - 1 \in Nat /\ b = (b - 1) + 1
    OBVIOUS
  <2> QED
    BY <2>1
<1>2. a <= k
  BY <1>1
<1>3. SubSeq(m, a + 1, k) \o SubSeq(m, k + 1, i) = SubSeq(m, a + 1, i)
  BY <1>2, Stretches
<1> QED
  BY <1>1, <1>3

LEMMA LineRead ==
    ASSUME NEW m, WellFormed(m), NEW k \in Nat, NEW i \in Nat, k < i, i <= HeadEnd(m),
           \A j \in LineEnds(m) : j <= k \/ i <= j,
           NEW s \in Parser, NEW null \in BOOLEAN, InHead(m, k, s, null)
    PROVE  InHead(m, i, ReadLine(SubSeq(m, k + 1, i), s), null)
<1>1. /\ m \in Seq(Byte) /\ Len(m) \in Nat /\ LineEnds(m) \subseteq 2..Len(m)
      /\ HeadEnd(m) \in LineEnds(m) /\ HeadEnd(m) \in 2..Len(m) /\ i <= Len(m)
  BY MessageIs
<1>2. PICK a \in 0..k : a = LineStart(m, k)
  BY <1>1, LineStartIs
<1>3. (a = 0 \/ a \in LineEnds(m)) /\ \A j \in LineEnds(m) : j <= k => j <= a
  BY <1>1, <1>2, LineStartIs
<1>4. PICK line \in Seq(Byte) : /\ line = SubSeq(m, a + 1, i) /\ Len(line) = i - a
                                /\ \A x \in 1..(i - a) : line[x] = m[a + x]
                                /\ SubSeq(m, a + 1, k) \o SubSeq(m, k + 1, i) = line
  <2>1. a \in Nat /\ a <= k /\ k <= i /\ a <= i /\ m \in Seq(Byte) /\ i <= Len(m)
    BY <1>1
  <2>2. /\ SubSeq(m, a + 1, i) \in Seq(Byte) /\ Len(SubSeq(m, a + 1, i)) = i - a
        /\ \A x \in 1..(i - a) : SubSeq(m, a + 1, i)[x] = m[a + x]
    BY <2>1, StretchIs
  <2>3. SubSeq(m, a + 1, k) \o SubSeq(m, k + 1, i) = SubSeq(m, a + 1, i)
    <3>1. PICK b \in Nat \ {0}, c \in Nat : b = a + 1 /\ c = k + 1
      BY <2>1
    <3>2. SubSeq(m, b, k) \o SubSeq(m, c, i) = SubSeq(m, b, i)
      BY <2>1, <3>1, StretchesFrom
    <3> QED
      BY <3>1, <3>2, Zenon
  <2> QED
    BY <2>2, <2>3, Zenon
<1>5. PICK l, t, c, d : l = s.line /\ t = s.null /\ c = s.cl /\ d = s.done
  OBVIOUS
<1>6. /\ l = SubSeq(m, a + 1, k) /\ s.rcl = 0 /\ c = Declared(m, k)
      /\ t = IF a = 0 THEN null ELSE k >= HeadEnd(m)
      /\ s = [line |-> l, null |-> t, cl |-> c, rcl |-> 0, done |-> d]
  <2>1. s.line = SubSeq(m, a + 1, k) /\ s.rcl = 0 /\ s.cl = Declared(m, k)
        /\ s.null = IF a = 0 THEN null ELSE k >= HeadEnd(m)
    BY <1>2 DEF InHead
  <2>2. s = [line |-> s.line, null |-> s.null, cl |-> s.cl, rcl |-> s.rcl, done |-> s.done]
    BY DEF Parser
  <2> QED
    BY <1>5, <2>1, <2>2
<1>7. PICK r : r = [line |-> line, null |-> t, cl |-> c, rcl |-> 0, done |-> d]
  OBVIOUS
<1>8. PICK q : q = ReadLine(SubSeq(m, k + 1, i), s)
  OBVIOUS
<1>9. q = IF HasCRLF(line) THEN CompleteLine(r) ELSE r
  <2>0. s.line \o SubSeq(m, k + 1, i) = line
    BY <1>4, <1>5, <1>6
  <2>1. [s EXCEPT !.line = @ \o SubSeq(m, k + 1, i)] = [s EXCEPT !.line = line]
    BY <2>0
  <2>2. [s EXCEPT !.line = line] = r
    <3>1. [[line |-> l, null |-> t, cl |-> c, rcl |-> 0, done |-> d] EXCEPT !.line = line] = r
      BY <1>7
    <3>2. s = [line |-> l, null |-> t, cl |-> c, rcl |-> 0, done |-> d]
      BY <1>6
    <3> QED
      BY <3>1, <3>2
  <2>3. r.line = line
    BY <1>7
  <2> QED
    BY <1>8, <2>1, <2>2, <2>3 DEF ReadLine
<1>10. /\ HasCRLF(line) <=> i \in LineEnds(m)
       /\ i \in LineEnds(m) => (line = CRLF <=> i = 2 \/ i - 2 \in LineEnds(m))
  BY <1>1, <1>3, <1>4, LineCompletes
<1> SUFFICES InHead(m, i, q, null)
  BY <1>8
<1>11. CASE i \notin LineEnds(m)
  <2>1. q = r
    BY <1>9, <1>10, <1>11
  <2>2. \A j \in LineEnds(m) : j # i /\ j \in Nat
    BY <1>1, <1>11
  <2>3. LineStart(m, i) = a
    <3>1. \A j \in LineEnds(m) : j <= k \/ i < j
      BY <2>2
    <3> QED
      BY <1>1, <1>2, <3>1, SameLine
  <2>4. ~(i >= HeadEnd(m)) /\ ~(k >= HeadEnd(m))
    BY <1>1, <2>2
  <2>5. Complete(m, i) = Complete(m, k)
    <3>1. \A j \in LineEnds(m) : j <= i <=> j <= k
      BY <2>2
    <3> QED
      BY <3>1 DEF Complete
  <2>6. c = Declared(m, i)
    BY <1>6, <2>5 DEF Declared
  <2>7. q.line = line /\ q.null = t /\ q.cl = c /\ q.rcl = 0
    BY <1>7, <2>1
  <2>8. t = IF a = 0 THEN null ELSE i >= HeadEnd(m)
    BY <1>6, <2>4
  <2> QED
    BY <1>4, <2>3, <2>6, <2>7, <2>8 DEF InHead
<1>12. CASE i \in LineEnds(m)
  <2>1. q = CompleteLine(r)
    BY <1>9, <1>10, <1>12
  <2>2. /\ q.line = <<>> /\ q.null = (line = CRLF) /\ q.rcl = 0
        /\ q.cl = IF c = 0 THEN ParseContentLength(line) ELSE c
    BY <1>7, <2>1 DEF CompleteLine
  <2>3. LineStart(m, i) = i
    <3>1. LineStart(m, i) \in 0..i /\ i <= LineStart(m, i)
      BY <1>1, <1>12, LineStartIs
    <3> QED
      BY <3>1
  <2>4. SubSeq(m, i + 1, i) = <<>>
    <3>1. i + 1 \in Int /\ i \in Int /\ i < i + 1
      OBVIOUS
    <3> QED
      BY <3>1, SubSeqEmpty
  <2>5. q.null = (i >= HeadEnd(m))
    <3>1. i = HeadEnd(m) <=> i = 2 \/ i - 2 \in LineEnds(m)
      BY <1>12, MessageIs
    <3>2. i >= HeadEnd(m) <=> i = HeadEnd(m)
      BY <1>1
    <3> QED
      BY <1>10, <1>12, <2>2, <3>1, <3>2
  <2>6. ParseContentLength(line) = IF m[a + 1] \in DOMAIN Announced THEN Announced[m[a + 1]] ELSE 0
    <3>1. 1 \in 1..(i - a)
      OBVIOUS
    <3>2. line[1] = m[a + 1] /\ Len(line) # 0
      BY <1>4, <3>1
    <3>3. line # <<>> /\ Head(line) = m[a + 1]
      BY <3>2
    <3> QED
      BY <3>3 DEF ParseContentLength
  <2>7. q.cl = Declared(m, i)
    BY <1>2, <1>6, <1>12, <2>2, <2>6, DeclaredByLine
  <2>8. i # 0
    BY <1>1, <1>12
  <2> QED
    BY <2>2, <2>3, <2>4, <2>5, <2>7, <2>8 DEF InHead
<1> QED
  BY <1>11, <1>12

-----------------------------------------------------------------------------
(* The parser keeps its types, and its line ends where it stopped reading. *)

Closes(line, p) == line = <<>> \/ (p # <<>> /\ line[Len(line)] = p[Len(p)])

LEMMA Fields ==
    ASSUME NEW s \in Parser
    PROVE  /\ s = [line |-> s.line, null |-> s.null, cl |-> s.cl, rcl |-> s.rcl, done |-> s.done]
           /\ s.line \in Seq(Byte) /\ s.null \in BOOLEAN /\ s.cl \in 0..2 /\ s.rcl \in Nat
           /\ s.done \in BOOLEAN
BY DEF Parser

LEMMA CompleteLineTypes ==
    ASSUME NEW s \in Parser
    PROVE  CompleteLine(s) \in Parser /\ CompleteLine(s).line = <<>>
<1>1. ParseContentLength(s.line) \in 0..2
  BY Announces DEF ParseContentLength
<1>2. s.cl \in 0..2 /\ s.rcl \in Nat /\ s.done \in BOOLEAN
  BY DEF Parser
<1>3. (IF s.cl = 0 THEN ParseContentLength(s.line) ELSE s.cl) \in 0..2
  BY <1>1, <1>2
<1>4. PICK c \in 0..2 : c = IF s.cl = 0 THEN ParseContentLength(s.line) ELSE s.cl
  BY <1>3
<1>5. PICK t \in BOOLEAN : t = (s.line = CRLF)
  OBVIOUS
<1>6. PICK r : r = [s EXCEPT !.null = t]
  OBVIOUS
<1>7. r \in Parser /\ r.cl = s.cl /\ r.line = s.line
  BY <1>6 DEF Parser
<1>8. PICK q : q = [r EXCEPT !.cl = c]
  OBVIOUS
<1>9. q \in Parser
  BY <1>7, <1>8 DEF Parser
<1>10. PICK e \in Seq(Byte) : e = <<>>
  BY EmptySeq
<1>11. PICK x : x = [q EXCEPT !.line = e]
  OBVIOUS
<1>12. x \in Parser /\ x.line = e
  BY <1>9, <1>11 DEF Parser
<1>13. CompleteLine(s) = x
  <2>1. CompleteLine(s) = [s EXCEPT !.null = t, !.cl = c, !.line = <<>>]
    BY <1>4, <1>5 DEF CompleteLine
  <2> QED
    BY <1>6, <1>8, <1>10, <1>11, <2>1
<1> QED
  BY <1>10, <1>12, <1>13

LEMMA ReadLineTypes ==
    ASSUME NEW piece \in Seq(Byte), piece # <<>>, NEW s \in Parser
    PROVE  ReadLine(piece, s) \in Parser /\ Closes(ReadLine(piece, s).line, piece)
<1>1. s.line \in Seq(Byte)
  BY DEF Parser
<1>2. PICK line \in Seq(Byte) : line = s.line \o piece
  BY <1>1, ConcatProperties
<1>3. line[Len(line)] = piece[Len(piece)]
  <2>1. Len(line) = Len(s.line) + Len(piece) /\ Len(piece) \in Nat \ {0} /\ Len(s.line) \in Nat
    BY <1>1, <1>2, ConcatProperties
  <2>2. Len(line) \in 1..(Len(s.line) + Len(piece)) /\ ~(Len(line) <= Len(s.line))
        /\ Len(line) - Len(s.line) = Len(piece)
    BY <2>1
  <2>3. line[Len(line)] = piece[Len(line) - Len(s.line)]
    BY <1>1, <1>2, <2>2, ConcatProperties
  <2> QED
    BY <2>2, <2>3
<1>4. PICK r : r = [s EXCEPT !.line = line]
  OBVIOUS
<1>5. r \in Parser /\ r.line = line
  BY <1>4 DEF Parser
<1>6. ReadLine(piece, s) = IF HasCRLF(line) THEN CompleteLine(r) ELSE r
  <2>1. [s EXCEPT !.line = @ \o piece] = r
    BY <1>2, <1>4
  <2> QED
    BY <1>5, <2>1 DEF ReadLine
<1>7. CompleteLine(r) \in Parser /\ CompleteLine(r).line = <<>>
  BY <1>5, CompleteLineTypes
<1> QED
  BY <1>3, <1>5, <1>6, <1>7 DEF Closes

LEMMA AfterTypes ==
    ASSUME NEW p \in Seq(Byte), NEW s \in Parser
    PROVE  \A i \in 0..Len(p) :
              /\ After(p, s)[i] \in Parser
              /\ i > 0 => After(p, s)[i].line = <<>> \/ After(p, s)[i].line[Len(After(p, s)[i].line)] = p[i]
<1> DEFINE N == {j \in Nat : \A i \in 0..Len(p) : i <= j => After(p, s)[i] \in Parser}
<1>1. 0 \in N
  <2>1. After(p, s)[0] \in Parser
    BY AfterIs
  <2>2. \A i \in 0..Len(p) : i <= 0 => i = 0
    OBVIOUS
  <2> QED
    BY <2>1, <2>2
<1>2. ASSUME NEW i \in 1..Len(p), \A x \in 0..Len(p) : x <= i - 1 => After(p, s)[x] \in Parser
      PROVE  /\ After(p, s)[i] \in Parser
             /\ After(p, s)[i].line = <<>> \/ After(p, s)[i].line[Len(After(p, s)[i].line)] = p[i]
  <2>1. PICK b \in 0..(i - 1) : b = LineStart(p, i - 1)
    <3>1. i - 1 \in Nat
      OBVIOUS
    <3> QED
      BY <3>1, LineStartIs
  <2>2. PICK piece : piece = SubSeq(p, b + 1, i)
    OBVIOUS
  <2>3. piece \in Seq(Byte) /\ Len(piece) = i - b /\ piece[i - b] = p[i] /\ piece # <<>>
    <3>1. b \in Nat /\ i \in Nat /\ b <= i /\ i <= Len(p) /\ i - b \in 1..(i - b) /\ b + (i - b) = i
      BY <2>1
    <3>a. /\ SubSeq(p, b + 1, i) \in Seq(Byte) /\ Len(SubSeq(p, b + 1, i)) = i - b
          /\ \A x \in 1..(i - b) : SubSeq(p, b + 1, i)[x] = p[b + x]
      BY <3>1, StretchIs
    <3>2. piece \in Seq(Byte) /\ Len(piece) = i - b /\ \A x \in 1..(i - b) : piece[x] = p[b + x]
      BY <2>2, <3>a, Zenon
    <3>3. piece[i - b] = p[i]
      BY <3>1, <3>2
    <3> QED
      BY <3>1, <3>2, <3>3
  <2>4. After(p, s)[b] \in Parser
    BY <1>2, <2>1
  <2>5. After(p, s)[i] = ReadLine(piece, After(p, s)[b])
    BY <2>1, <2>2, AfterIs
  <2> QED
    BY <2>3, <2>4, <2>5, ReadLineTypes DEF Closes
<1>3. ASSUME NEW j \in Nat, j \in N PROVE j + 1 \in N
  <2> SUFFICES ASSUME NEW i \in 0..Len(p), i <= j + 1 PROVE After(p, s)[i] \in Parser
    OBVIOUS
  <2>1. CASE i <= j
    BY <1>3, <2>1
  <2>2. CASE i = j + 1
    <3>1. i \in 1..Len(p) /\ i - 1 = j
      BY <2>2
    <3>2. \A x \in 0..Len(p) : x <= i - 1 => After(p, s)[x] \in Parser
      BY <1>3, <3>1
    <3> QED
      BY <1>2, <3>1, <3>2
  <2> QED
    BY <2>1, <2>2
<1>4. \A j \in Nat : j \in N
  <2>1. Nat \subseteq N
    BY <1>1, <1>3, Induction
  <2> QED
    BY <2>1
<1>5. \A i \in 0..Len(p) : After(p, s)[i] \in Parser
  BY <1>4
<1>6. \A i \in 1..Len(p) : After(p, s)[i].line = <<>> \/ After(p, s)[i].line[Len(After(p, s)[i].line)] = p[i]
  BY <1>2, <1>5
<1> QED
  BY <1>5, <1>6

LEMMA StreamContentTypes ==
    ASSUME NEW p \in Seq(Byte), NEW s \in Parser
    PROVE  /\ StreamContent(p, s) \in Parser
           /\ StreamContent(p, s).line = p /\ StreamContent(p, s).null
           /\ StreamContent(p, s).cl = s.cl /\ StreamContent(p, s).rcl = s.rcl + Len(p)
           /\ StreamContent(p, s).done <=> s.cl = s.rcl + Len(p)
<1>1. PICK r \in Nat : r = s.rcl + Len(p)
  BY DEF Parser
<1>2. PICK d \in BOOLEAN : d = (s.cl = r)
  OBVIOUS
<1>3. PICK c \in 0..2 : c = s.cl
  BY Fields
<1>4. PICK u \in BOOLEAN : u = TRUE
  OBVIOUS
<1>5. PICK x : x = [s EXCEPT !.line = p]
  OBVIOUS
<1>6. x \in Parser /\ x.line = p /\ x.cl = s.cl
  BY <1>5 DEF Parser
<1>7. PICK y : y = [x EXCEPT !.rcl = r]
  OBVIOUS
<1>8. y \in Parser /\ y.line = x.line /\ y.cl = x.cl /\ y.rcl = r
  BY <1>6, <1>7 DEF Parser
<1>9. PICK z : z = [y EXCEPT !.null = u]
  OBVIOUS
<1>10. z \in Parser /\ z.line = y.line /\ z.cl = y.cl /\ z.rcl = y.rcl /\ z.null = u
  BY <1>8, <1>9 DEF Parser
<1>11. PICK w : w = [z EXCEPT !.done = d]
  OBVIOUS
<1>12. w \in Parser /\ w.line = z.line /\ w.cl = z.cl /\ w.rcl = z.rcl /\ w.null = z.null /\ w.done = d
  BY <1>10, <1>11 DEF Parser
<1>13. StreamContent(p, s) = w
  <2>1. StreamContent(p, s) = [s EXCEPT !.line = p, !.rcl = r, !.null = u, !.done = d]
    BY <1>1, <1>2, <1>4 DEF StreamContent
  <2> QED
    BY <1>5, <1>7, <1>9, <1>11, <2>1
<1> QED
  BY <1>1, <1>2, <1>4, <1>6, <1>8, <1>10, <1>12, <1>13

\* The two outcomes of the loop over the lines.
LEMMA StreamLinesIs ==
    ASSUME NEW p \in Seq(Byte), NEW s \in Parser
    PROVE  \/ \E i \in 0..Len(p) :
                /\ i \in LineEnds(p) \cup {Len(p)} /\ InContent(After(p, s)[i])
                /\ \A j \in LineEnds(p) : j < i => ~InContent(After(p, s)[j])
                /\ StreamLines(p, s) = StreamContent(SubSeq(p, i + 1, Len(p)), After(p, s)[i])
           \/ LET e == After(p, s)[Len(p)]
              IN  /\ \A j \in LineEnds(p) \cup {Len(p)} : ~InContent(After(p, s)[j])
                  /\ StreamLines(p, s) \in Parser
                  /\ StreamLines(p, s).line = e.line /\ StreamLines(p, s).null = e.null
                  /\ StreamLines(p, s).cl = e.cl /\ StreamLines(p, s).rcl = e.rcl
                  /\ StreamLines(p, s).done <=> e.null /\ e.rcl = e.cl
<1> DEFINE after == After(p, s)
           stops == {i \in LineEnds(p) \cup {Len(p)} : InContent(after[i])}
<1>1. LineEnds(p) \subseteq 2..Len(p) /\ Len(p) \in Nat
  BY DEF LineEnds
<1>2. PICK e \in Parser : e = after[Len(p)]
  BY <1>1, AfterTypes
<1>3. CASE stops # {}
  <2>1. stops \subseteq Nat
    BY <1>1
  <2>a. Min(stops) \in stops /\ \A j \in stops : Min(stops) <= j
    <3> HIDE DEF stops
    <3> QED
      BY <1>3, <2>1, LeastIsMin
  <2>2. PICK i \in stops : i = Min(stops) /\ \A j \in stops : i <= j
    <3> HIDE DEF stops
    <3> QED
      BY <2>a, Zenon
  <2>3. StreamLines(p, s) = StreamContent(SubSeq(p, i + 1, Len(p)), after[i])
    BY <1>3, <2>2 DEF StreamLines
  <2>4. i \in 0..Len(p) /\ i \in LineEnds(p) \cup {Len(p)} /\ InContent(after[i])
    BY <1>1, <2>2
  <2>5. \A j \in LineEnds(p) : j < i => ~InContent(after[j])
    <3>1. \A j \in LineEnds(p) : j < i => ~(i <= j)
      BY <1>1, <2>4
    <3> QED
      BY <2>2, <3>1
  <2> QED
    BY <2>3, <2>4, <2>5
<1>4. CASE stops = {}
  <2>1. PICK d : d = (e.null /\ e.rcl = e.cl)
    OBVIOUS
  <2>2. StreamLines(p, s) = [e EXCEPT !.done = d]
    <3>1. StreamLines(p, s) = [after[Len(p)] EXCEPT !.done = after[Len(p)].null /\ after[Len(p)].rcl = after[Len(p)].cl]
      BY <1>4 DEF StreamLines
    <3> HIDE DEF after
    <3>2. [after[Len(p)] EXCEPT !.done = after[Len(p)].null /\ after[Len(p)].rcl = after[Len(p)].cl]
          = [e EXCEPT !.done = e.null /\ e.rcl = e.cl]
      BY <1>2
    <3>3. [e EXCEPT !.done = e.null /\ e.rcl = e.cl] = [e EXCEPT !.done = d]
      BY <2>1
    <3> QED
      BY <3>1, <3>2, <3>3
  <2>3. [e EXCEPT !.done = d] = [line |-> e.line, null |-> e.null, cl |-> e.cl, rcl |-> e.rcl, done |-> d]
    BY DEF Parser
  <2>4. /\ e.line \in Seq(Byte) /\ e.null \in BOOLEAN /\ e.cl \in 0..2 /\ e.rcl \in Nat /\ d \in BOOLEAN
    BY <2>1, Fields
  <2>5. /\ StreamLines(p, s) \in Parser
        /\ StreamLines(p, s).line = e.line /\ StreamLines(p, s).null = e.null
        /\ StreamLines(p, s).cl = e.cl /\ StreamLines(p, s).rcl = e.rcl
        /\ StreamLines(p, s).done <=> e.null /\ e.rcl = e.cl
    BY <2>1, <2>2, <2>3, <2>4 DEF Parser
  <2>6. \A j \in LineEnds(p) \cup {Len(p)} : ~InContent(after[j])
    BY <1>4
  <2> QED
    BY <1>2, <2>5, <2>6
<1> QED
  BY <1>3, <1>4

LEMMA Suffix ==
    ASSUME NEW p \in Seq(Byte), NEW i \in 0..Len(p)
    PROVE  LET q == SubSeq(p, i + 1, Len(p))
           IN  q \in Seq(Byte) /\ Len(q) = Len(p) - i /\ (p = <<>> => q = <<>>) /\ Closes(q, p)
<1>1. PICK n \in Nat : n = Len(p)
  OBVIOUS
<1>2. PICK q : q = SubSeq(p, i + 1, n)
  OBVIOUS
<1>3. q \in Seq(Byte) /\ Len(q) = n - i /\ \A x \in 1..(n - i) : q[x] = p[i + x]
  BY <1>1, <1>2, Stretches
<1>4. CASE i = n
  <2>1. q = <<>>
    BY <1>3, <1>4
  <2> QED
    BY <1>1, <1>2, <1>3, <2>1 DEF Closes
<1>5. CASE i # n
  <2>1. n - i \in 1..(n - i) /\ i + (n - i) = n
    BY <1>1, <1>5
  <2>2. q[n - i] = p[n]
    BY <1>3, <2>1
  <2>3. p # <<>>
    BY <1>1, <1>5
  <2> QED
    BY <1>1, <1>2, <1>3, <2>2, <2>3 DEF Closes
<1> QED
  BY <1>4, <1>5

LEMMA StreamLinesTypes ==
    ASSUME NEW p \in Seq(Byte), NEW s \in Parser
    PROVE  /\ StreamLines(p, s) \in Parser
           /\ p = <<>> => StreamLines(p, s).line \in {<<>>, s.line}
           /\ p # <<>> => Closes(StreamLines(p, s).line, p)
<1>1. Len(p) \in Nat /\ (p = <<>> <=> Len(p) = 0)
  OBVIOUS
<1>2. ASSUME NEW i \in 0..Len(p), StreamLines(p, s) = StreamContent(SubSeq(p, i + 1, Len(p)), After(p, s)[i])
      PROVE  /\ StreamLines(p, s) \in Parser
             /\ p = <<>> => StreamLines(p, s).line \in {<<>>, s.line}
             /\ p # <<>> => Closes(StreamLines(p, s).line, p)
  <2>1. PICK q \in Seq(Byte) : q = SubSeq(p, i + 1, Len(p)) /\ (p = <<>> => q = <<>>) /\ Closes(q, p)
    BY Suffix
  <2>2. PICK a \in Parser : a = After(p, s)[i]
    BY AfterTypes
  <2>3. StreamContent(q, a) \in Parser /\ StreamContent(q, a).line = q
    BY StreamContentTypes
  <2> QED
    BY <1>2, <2>1, <2>2, <2>3
<1>3. ASSUME StreamLines(p, s) \in Parser, StreamLines(p, s).line = After(p, s)[Len(p)].line
      PROVE  /\ p = <<>> => StreamLines(p, s).line \in {<<>>, s.line}
             /\ p # <<>> => Closes(StreamLines(p, s).line, p)
  <2>1. PICK a : a = After(p, s)[Len(p)]
    OBVIOUS
  <2>2. p = <<>> => a = s
    BY <1>1, <2>1, AfterIs
  <2>3. p # <<>> => a.line = <<>> \/ a.line[Len(a.line)] = p[Len(p)]
    BY <1>1, <2>1, AfterTypes
  <2> QED
    BY <1>3, <2>1, <2>2, <2>3 DEF Closes
<1> QED
  BY <1>2, <1>3, StreamLinesIs

LEMMA MessageTypes ==
    ASSUME NEW p \in Seq(Byte), NEW s \in Parser, ~Panics(p, s)
    PROVE  /\ StreamInHTTPMessage(p, s) \in Parser
           /\ p = <<>> => StreamInHTTPMessage(p, s).line \in {<<>>, s.line}
           /\ p # <<>> => Closes(StreamInHTTPMessage(p, s).line, p)
<1> DEFINE R == StreamInHTTPMessage(p, s)
<1>1. CASE InContent(s)
  <2>1. R = StreamContent(p, s)
    BY <1>1 DEF StreamInHTTPMessage
  <2>2. R \in Parser /\ R.line = p
    BY <2>1, StreamContentTypes
  <2> QED
    BY <2>2 DEF Closes
<1>2. CASE ~InContent(s) /\ ~SplitCRLF(p, s)
  <2>1. R = StreamLines(p, s)
    BY <1>2 DEF StreamInHTTPMessage
  <2> QED
    BY <2>1, StreamLinesTypes
<1>3. CASE ~InContent(s) /\ SplitCRLF(p, s)
  <2>1. p # <<>>
    BY <1>3 DEF Panics, SplitCRLF
  <2>2. PICK q \in Seq(Byte) : q = Tail(p) /\ Closes(q, p)
    <3>1. Tail(p) = SubSeq(p, 1 + 1, Len(p)) /\ 1 \in 0..Len(p)
      BY <2>1
    <3> QED
      BY <3>1, Suffix
  <2>3. \A line : Closes(line, q) => Closes(line, p)
    BY <2>1, <2>2 DEF Closes
  <2>4. PICK inner \in Parser : inner = CompleteLine([s EXCEPT !.line = Append(@, "lf")])
    <3>1. PICK line \in Seq(Byte) : line = Append(s.line, "lf")
      <4>1. "lf" \in Byte /\ s.line \in Seq(Byte)
        BY Fields DEF Byte
      <4> QED
        BY <4>1, AppendProperties
    <3>2. PICK r : r = [s EXCEPT !.line = line]
      OBVIOUS
    <3>3. r \in Parser
      BY <3>2 DEF Parser
    <3>4. [s EXCEPT !.line = Append(@, "lf")] = r
      BY <3>1, <3>2
    <3> QED
      BY <3>3, <3>4, CompleteLineTypes
  <2>5. PICK u \in Parser : u = [s EXCEPT !.line = <<>>] /\ u.line = <<>>
    <3>1. PICK e \in Seq(Byte) : e = <<>>
      BY EmptySeq
    <3>2. PICK r : r = [s EXCEPT !.line = e]
      OBVIOUS
    <3>3. r \in Parser /\ r.line = e
      BY <3>2 DEF Parser
    <3> QED
      BY <3>1, <3>2, <3>3
  <2>6. R = IF InContent(inner) THEN StreamContent(q, inner) ELSE StreamLines(q, u)
    BY <1>3, <2>2, <2>4, <2>5 DEF StreamInHTTPMessage
  <2>7. R \in Parser /\ Closes(R.line, p)
    <3>1. StreamContent(q, inner) \in Parser /\ StreamContent(q, inner).line = q
      BY StreamContentTypes
    <3>2. StreamLines(q, u) \in Parser /\ Closes(StreamLines(q, u).line, p)
      <4>1. q = <<>> => StreamLines(q, u).line = <<>>
        BY <2>5, StreamLinesTypes
      <4>2. q # <<>> => Closes(StreamLines(q, u).line, q)
        BY StreamLinesTypes
      <4> QED
        BY <2>3, <4>1, <4>2, StreamLinesTypes DEF Closes
    <3> QED
      BY <2>2, <2>6, <3>1, <3>2
  <2> QED
    BY <2>1, <2>7
<1> QED
  BY <1>1, <1>2, <1>3

-----------------------------------------------------------------------------
(* What the parser has after a packet of a message.                        *)

\* p is bytes n + 1 to e of m.
Packet(m, n, e, p) == n < e /\ e <= Len(m) /\ Between(m, n) /\ p = SubSeq(m, n + 1, e)

LEMMA PacketIs ==
    ASSUME NEW m, WellFormed(m), NEW n \in Nat, NEW e \in Nat, NEW p, Packet(m, n, e, p)
    PROVE  /\ p \in Seq(Byte) /\ Len(p) = e - n /\ p # <<>>
           /\ \A x \in 1..(e - n) : p[x] = m[n + x]
           /\ \A i \in 1..(e - n) : i \in LineEnds(p) <=> n + i \in LineEnds(m)
           /\ LineEnds(p) \subseteq 2..(e - n)
           /\ n < e /\ e <= Len(m)
<1>0. n < e /\ e <= Len(m) /\ Between(m, n) /\ p = SubSeq(m, n + 1, e)
  BY DEF Packet
<1>1. m \in Seq(Byte) /\ LineEnds(m) \subseteq 2..Len(m) /\ Len(m) \in Nat
  BY MessageIs
<1>2. p \in Seq(Byte) /\ Len(p) = e - n /\ \A x \in 1..(e - n) : p[x] = m[n + x]
  BY <1>0, <1>1, Stretches
<1>3. ASSUME NEW i \in LineEnds(p)
      PROVE  n + i \in LineEnds(m)
  <2>1. i \in 2..(e - n) /\ p[i - 1] = "cr" /\ p[i] = "lf"
    BY <1>2 DEF LineEnds
  <2>2. i - 1 \in 1..(e - n) /\ i \in 1..(e - n) /\ n + (i - 1) = (n + i) - 1 /\ n + i \in 2..Len(m)
    BY <1>0, <1>1, <2>1
  <2>3. m[n + (i - 1)] = "cr" /\ m[n + i] = "lf"
    BY <1>2, <2>1, <2>2
  <2>4. m[(n + i) - 1] = "cr"
    BY <2>2, <2>3
  <2> QED
    BY <2>2, <2>3, <2>4 DEF LineEnds
<1>4. ASSUME NEW i \in 1..(e - n), n + i \in LineEnds(m)
      PROVE  i \in LineEnds(p)
  <2>1. m[(n + i) - 1] = "cr" /\ m[n + i] = "lf"
    BY <1>4 DEF LineEnds
  <2>2. i # 1
    BY <1>0, <1>4 DEF Between
  <2>3. i \in 2..Len(p) /\ i - 1 \in 1..(e - n) /\ n + (i - 1) = (n + i) - 1
    BY <1>2, <2>2
  <2>4. p[i - 1] = m[n + (i - 1)] /\ p[i] = m[n + i]
    BY <1>2, <2>3
  <2>5. p[i - 1] = "cr" /\ p[i] = "lf"
    BY <2>1, <2>3, <2>4
  <2> QED
    BY <2>3, <2>5 DEF LineEnds
<1>5. LineEnds(p) \subseteq 2..(e - n)
  BY <1>2 DEF LineEnds
<1>6. p # <<>>
  BY <1>0, <1>2
<1> QED
  BY <1>0, <1>2, <1>3, <1>4, <1>5, <1>6

LEMMA PieceOfPacket ==
    ASSUME NEW S, NEW m \in Seq(S), NEW n \in Nat, NEW e \in Nat, n <= e, e <= Len(m),
           NEW p \in Seq(S), Len(p) = e - n, \A x \in 1..(e - n) : p[x] = m[n + x],
           NEW b \in Nat, NEW i \in Nat, b <= i, i <= e - n
    PROVE  SubSeq(p, b + 1, i) = SubSeq(m, (n + b) + 1, n + i)
<1>1. /\ n + b \in Nat /\ n + i \in Nat /\ n + b <= n + i /\ n + i <= Len(m) /\ i <= Len(p)
      /\ (n + i) - (n + b) = i - b
  OBVIOUS
<1>2. /\ SubSeq(p, b + 1, i) \in Seq(S) /\ Len(SubSeq(p, b + 1, i)) = i - b
      /\ \A x \in 1..(i - b) : SubSeq(p, b + 1, i)[x] = p[b + x]
  BY <1>1, StretchIs
<1>3. /\ SubSeq(m, (n + b) + 1, n + i) \in Seq(S) /\ Len(SubSeq(m, (n + b) + 1, n + i)) = (n + i) - (n + b)
      /\ \A x \in 1..((n + i) - (n + b)) : SubSeq(m, (n + b) + 1, n + i)[x] = m[(n + b) + x]
  BY <1>1, StretchIs
<1>4. PICK u : /\ u = SubSeq(p, b + 1, i) /\ u \in Seq(S) /\ Len(u) = i - b
               /\ \A x \in 1..(i - b) : u[x] = p[b + x]
  BY <1>2, Zenon
<1>5. PICK v : /\ v = SubSeq(m, (n + b) + 1, n + i) /\ v \in Seq(S) /\ Len(v) = i - b
               /\ \A x \in 1..(i - b) : v[x] = m[(n + b) + x]
  BY <1>1, <1>3, Zenon
<1>a. /\ u \in Seq(S) /\ Len(u) = i - b /\ \A x \in 1..(i - b) : u[x] = p[b + x]
      /\ v \in Seq(S) /\ Len(v) = i - b /\ \A x \in 1..(i - b) : v[x] = m[(n + b) + x]
  BY <1>4, <1>5, Zenon
<1>6. ASSUME NEW x \in 1..Len(u) PROVE u[x] = v[x]
  <2>1. x \in 1..(i - b) /\ b + x \in 1..(e - n) /\ n + (b + x) = (n + b) + x
    BY <1>a
  <2>2. u[x] = p[b + x] /\ p[b + x] = m[n + (b + x)] /\ v[x] = m[(n + b) + x]
    BY <1>a, <2>1
  <2> QED
    BY <2>1, <2>2
<1>7. u = v
  BY <1>a, <1>6, SeqEqual
<1> QED
  BY <1>4, <1>5, <1>7

\* After every line of the packet, up to the end of the head, the parser has what
\* belongs to the bytes read.
LEMMA AfterParsed ==
    ASSUME NEW m, WellFormed(m), NEW n \in Nat, NEW e \in Nat, NEW p, Packet(m, n, e, p),
           NEW s \in Parser, NEW null \in BOOLEAN, InHead(m, n, s, null)
    PROVE  \A i \in 0..Len(p) : (i = 0 \/ i \in LineEnds(p) \/ i = Len(p)) /\ n + i <= HeadEnd(m)
                                   => InHead(m, n + i, After(p, s)[i], null)
<1> DEFINE Right(i) == (i = 0 \/ i \in LineEnds(p) \/ i = Len(p)) /\ n + i <= HeadEnd(m)
                          => InHead(m, n + i, After(p, s)[i], null)
           N == {j \in Nat : \A i \in 0..Len(p) : i <= j => Right(i)}
<1>1. /\ m \in Seq(Byte) /\ LineEnds(m) \subseteq 2..Len(m) /\ Len(m) \in Nat /\ HeadEnd(m) \in Nat
  BY MessageIs
<1>2. /\ p \in Seq(Byte) /\ Len(p) = e - n /\ n < e /\ e <= Len(m)
      /\ \A i \in 1..(e - n) : i \in LineEnds(p) <=> n + i \in LineEnds(m)
      /\ LineEnds(p) \subseteq 2..(e - n)
  BY PacketIs
<1>3. Right(0)
  <2>1. After(p, s)[0] = s
    BY <1>2, AfterIs
  <2>2. n + 0 = n
    OBVIOUS
  <2> QED
    BY <2>1, <2>2
<1>4. ASSUME NEW i \in 1..Len(p), \A x \in 0..Len(p) : x <= i - 1 => Right(x)
      PROVE  Right(i)
  <2> SUFFICES ASSUME n + i <= HeadEnd(m) PROVE InHead(m, n + i, After(p, s)[i], null)
    OBVIOUS
  <2>1. i - 1 \in Nat /\ i \in Nat /\ i <= e - n
    BY <1>2
  <2>2. PICK b \in 0..(i - 1) : b = LineStart(p, i - 1)
    BY <1>2, <2>1, LineStartIs
  <2>3. (b = 0 \/ b \in LineEnds(p)) /\ \A j \in LineEnds(p) : j <= i - 1 => j <= b
    BY <1>2, <2>1, <2>2, LineStartIs
  <2>4. b \in 0..Len(p) /\ b <= i - 1 /\ n + b <= HeadEnd(m) /\ n + b \in Nat /\ n + i \in Nat /\ n + b < n + i
    BY <1>1, <2>1, <2>2
  <2>5. PICK t \in Parser : t = After(p, s)[b]
    BY <1>2, <2>4, AfterTypes
  <2>6. InHead(m, n + b, t, null)
    <3> HIDE DEF Right
    <3>1. Right(b)
      BY <1>4, <2>4
    <3> QED
      BY <2>3, <2>4, <2>5, <3>1 DEF Right
  <2>7. After(p, s)[i] = ReadLine(SubSeq(p, b + 1, i), t)
    <3>1. After(p, s)[i] = ReadLine(SubSeq(p, LineStart(p, i - 1) + 1, i), After(p, s)[LineStart(p, i - 1)])
      BY <1>2, AfterIs
    <3> QED
      BY <2>2, <2>5, <3>1
  <2>8. SubSeq(p, b + 1, i) = SubSeq(m, (n + b) + 1, n + i)
    <3>1. n <= e /\ e <= Len(m) /\ b <= i /\ b \in Nat
      BY <1>2, <2>1, <2>4
    <3>2. \A x \in 1..(e - n) : p[x] = m[n + x]
      BY PacketIs
    <3>3. m \in Seq(Byte) /\ p \in Seq(Byte) /\ Len(p) = e - n /\ i \in Nat /\ i <= e - n
      BY <1>1, <1>2, <2>1
    <3> QED
      BY <3>1, <3>2, <3>3, PieceOfPacket
  <2>9. ASSUME NEW j \in LineEnds(m) PROVE j <= n + b \/ n + i <= j
    <3> SUFFICES ASSUME n + b < j, j < n + i PROVE FALSE
      BY <1>1, <2>1, <2>2
    <3>1. PICK x \in Int : x = j - n
      BY <1>1
    <3>0. j \in Int /\ e \in Int /\ n \in Int /\ i \in Int /\ b \in Int /\ 0 <= b /\ i <= e - n
      BY <1>1, <2>1, <2>2
    <3>2. x \in 1..(e - n) /\ n + x = j /\ x <= i - 1 /\ ~(x <= b)
      BY <3>0, <3>1
    <3>3. x \in LineEnds(p)
      BY <1>2, <3>2
    <3> QED
      BY <2>3, <3>2, <3>3
  <2>10. InHead(m, n + i, ReadLine(SubSeq(m, (n + b) + 1, n + i), t), null)
    BY <2>4, <2>6, <2>9, LineRead
  <2> QED
    BY <2>7, <2>8, <2>10
<1> HIDE DEF Right
<1>5. 0 \in N
  <2>1. \A i \in 0..Len(p) : i <= 0 => i = 0
    BY <1>2
  <2> QED
    BY <1>3, <2>1
<1>6. ASSUME NEW j \in Nat, j \in N PROVE j + 1 \in N
  <2> SUFFICES ASSUME NEW i \in 0..Len(p), i <= j + 1 PROVE Right(i)
    OBVIOUS
  <2>1. CASE i <= j
    BY <1>6, <2>1
  <2>2. CASE i = j + 1
    <3>1. i \in 1..Len(p) /\ i - 1 = j
      BY <2>2
    <3>2. \A x \in 0..Len(p) : x <= i - 1 => Right(x)
      BY <1>6, <3>1
    <3> QED
      BY <1>4, <3>1, <3>2
  <2> QED
    BY <1>2, <2>1, <2>2
<1>7. \A j \in Nat : j \in N
  <2>1. Nat \subseteq N
    BY <1>5, <1>6, Induction
  <2> QED
    BY <2>1
<1>8. \A i \in 0..Len(p) : Right(i)
  <2> SUFFICES ASSUME NEW i \in 0..Len(p) PROVE Right(i)
    OBVIOUS
  <2>1. i \in Nat /\ i <= i
    BY <1>2
  <2>2. i \in N
    BY <1>7, <2>1
  <2> QED
    BY <2>1, <2>2
<1> QED
  BY <1>8 DEF Right

LEMMA StaysInHead ==
    ASSUME NEW m, WellFormed(m), NEW i \in Nat, i < HeadEnd(m), NEW s \in Parser, NEW null \in BOOLEAN,
           InHead(m, i, s, null)
    PROVE  /\ ~InContent(s)
           /\ EndsWith(s.line, "cr") => i >= 1 /\ m[i] = "cr"
<1>1. m \in Seq(Byte) /\ HeadEnd(m) \in 2..Len(m) /\ Len(m) \in Nat
  BY MessageIs
<1>2. PICK a \in 0..i : a = LineStart(m, i)
  BY <1>1, LineStartIs
<1>3. /\ s.line = SubSeq(m, a + 1, i) /\ s.cl = Declared(m, i)
      /\ s.null = IF a = 0 THEN null ELSE i >= HeadEnd(m)
  BY <1>2 DEF InHead
<1>4. a = 0 => s.cl = 0
  <2>1. LineStart(m, i) = 0 => Declared(m, i) = 0
    BY DeclaredIs
  <2> QED
    BY <1>2, <1>3, <2>1
<1>5. a # 0 => ~s.null
  <2>1. a # 0 => s.null = (i >= HeadEnd(m))
    BY <1>3
  <2>2. (i >= HeadEnd(m)) = FALSE
    BY <1>1
  <2> QED
    BY <2>1, <2>2
<1>6. EndsWith(s.line, "cr") => i >= 1 /\ m[i] = "cr"
  <2>1. PICK line \in Seq(Byte) : line = s.line
    BY Fields
  <2>a. a \in Nat /\ a <= i /\ i <= Len(m) /\ m \in Seq(Byte)
    BY <1>1, <1>2
  <2>b. Len(SubSeq(m, a + 1, i)) = i - a /\ \A x \in 1..(i - a) : SubSeq(m, a + 1, i)[x] = m[a + x]
    BY <2>a, StretchIs
  <2>2. Len(line) = i - a /\ \A x \in 1..(i - a) : line[x] = m[a + x]
    BY <1>3, <2>1, <2>b, Zenon
  <2>3. SUFFICES ASSUME EndsWith(line, "cr") PROVE i >= 1 /\ m[i] = "cr"
    BY <2>1
  <2>4. Len(line) > 0 /\ line[Len(line)] = "cr"
    BY <2>3 DEF EndsWith
  <2>5. i - a \in 1..(i - a) /\ a + (i - a) = i
    BY <1>2, <2>2, <2>4
  <2>6. line[i - a] = m[a + (i - a)]
    BY <2>2, <2>5
  <2> QED
    BY <2>2, <2>4, <2>5, <2>6
<1> QED
  BY <1>4, <1>5, <1>6 DEF InContent

\* At the end of the head the body starts.
LEMMA HeadToBody ==
    ASSUME NEW m, WellFormed(m), NEW s \in Parser, NEW null \in BOOLEAN
    PROVE  InHead(m, HeadEnd(m), s, null) <=> InBody(m, HeadEnd(m), s) /\ s.line = <<>>
<1>1. m \in Seq(Byte) /\ HeadEnd(m) \in 2..Len(m) /\ HeadEnd(m) \in LineEnds(m) /\ Len(m) \in Nat
  BY MessageIs
<1>2. PICK h \in Nat : h = HeadEnd(m)
  BY <1>1
<1>3. LineStart(m, h) = h
  <2>1. LineStart(m, h) \in 0..h /\ h <= LineStart(m, h)
    BY <1>1, <1>2, LineStartIs
  <2> QED
    BY <1>2, <2>1
<1>4. SubSeq(m, h + 1, h) = <<>>
  <2>1. h + 1 \in Int /\ h \in Int /\ h < h + 1
    BY <1>2
  <2> QED
    BY <2>1, SubSeqEmpty
<1>5. Declared(m, h) = BodyLength(m)
  <2>1. h >= HeadEnd(m)
    BY <1>2
  <2> QED
    BY <1>2, <2>1, DeclaredIs
<1>6. h # 0 /\ h >= h /\ h - h = 0
  BY <1>1, <1>2
<1>7. InHead(m, h, s, null) <=> s.line = <<>> /\ s.null = TRUE /\ s.cl = BodyLength(m) /\ s.rcl = 0
  BY <1>2, <1>3, <1>4, <1>5, <1>6 DEF InHead
<1>8. InBody(m, h, s) <=> s.null /\ s.cl = BodyLength(m) /\ s.rcl = 0
  BY <1>2, <1>6 DEF InBody
<1>9. s.null \in BOOLEAN
  BY Fields
<1> QED
  BY <1>2, <1>7, <1>8, <1>9

Verdict(m, e, r, null) == LineStart(m, e) # 0 \/ ~null => (r.done <=> e = Len(m))

\* The content of the body.
LEMMA BodyParsed ==
    ASSUME NEW m, WellFormed(m), NEW n \in Nat, HeadEnd(m) <= n, NEW e \in Nat, n <= e, e <= Len(m),
           NEW q \in Seq(Byte), Len(q) = e - n, NEW s \in Parser, InBody(m, n, s), NEW null \in BOOLEAN
    PROVE  LET r == StreamContent(q, s)
           IN  r \in Parser /\ Parsed(m, e, r, null) /\ Verdict(m, e, r, null)
<1>1. /\ m \in Seq(Byte) /\ HeadEnd(m) \in 2..Len(m) /\ Len(m) \in Nat
      /\ BodyLength(m) \in Nat /\ Len(m) = HeadEnd(m) + BodyLength(m)
  BY MessageIs
<1>2. PICK h \in Nat : h = HeadEnd(m)
  BY <1>1
<1>3. s.null /\ s.cl = BodyLength(m) /\ s.rcl = n - h
  BY <1>2 DEF InBody
<1>4. PICK r \in Parser : /\ r = StreamContent(q, s)
                          /\ r.line = q /\ r.null /\ r.cl = s.cl /\ r.rcl = s.rcl + Len(q)
                          /\ r.done <=> s.cl = s.rcl + Len(q)
  BY StreamContentTypes
<1>5. s.rcl + Len(q) = e - h
  BY <1>2, <1>3
<1>6. InBody(m, e, r)
  BY <1>2, <1>3, <1>4, <1>5 DEF InBody
<1>7. r.done <=> e = Len(m)
  <2>1. r.done <=> BodyLength(m) = e - h
    BY <1>3, <1>4, <1>5
  <2> QED
    BY <1>1, <1>2, <2>1
<1>8. Parsed(m, e, r, null)
  <2>1. CASE e = h
    <3>1. r.line = <<>>
      BY <1>2, <1>4, <2>1
    <3>2. InHead(m, e, r, null)
      BY <1>2, <1>6, <2>1, <3>1, HeadToBody
    <3> QED
      BY <1>2, <2>1, <3>2 DEF Parsed
  <2>2. CASE e # h
    <3>1. ~(e <= h)
      BY <1>2, <2>2
    <3> QED
      BY <1>2, <1>6, <3>1 DEF Parsed
  <2> QED
    BY <2>1, <2>2
<1> QED
  BY <1>4, <1>7, <1>8 DEF Verdict

\* The loop over the lines, as far as the head goes and from there into the body.
LEMMA HeadParsed ==
    ASSUME NEW m, WellFormed(m), NEW n \in Nat, n < HeadEnd(m), NEW e \in Nat, NEW p, Packet(m, n, e, p),
           NEW s \in Parser, NEW null \in BOOLEAN, InHead(m, n, s, null)
    PROVE  LET r == StreamLines(p, s)
           IN  r \in Parser /\ Parsed(m, e, r, null) /\ Verdict(m, e, r, null)
<1>1. /\ m \in Seq(Byte) /\ HeadEnd(m) \in 2..Len(m) /\ HeadEnd(m) \in LineEnds(m) /\ Len(m) \in Nat
      /\ BodyLength(m) \in Nat /\ Len(m) = HeadEnd(m) + BodyLength(m)
  BY MessageIs
<1>2. /\ p \in Seq(Byte) /\ Len(p) = e - n /\ n < e /\ e <= Len(m)
      /\ \A i \in 1..(e - n) : i \in LineEnds(p) <=> n + i \in LineEnds(m)
      /\ LineEnds(p) \subseteq 2..(e - n)
  BY PacketIs
<1>3. PICK h \in Nat : h = HeadEnd(m)
  BY <1>1
<1>4. \A i \in 0..Len(p) : After(p, s)[i] \in Parser
  BY <1>2, AfterTypes
<1>5. ASSUME NEW i \in LineEnds(p) \cup {Len(p)}, n + i <= h
      PROVE  InHead(m, n + i, After(p, s)[i], null)
  <2>1. i \in 0..Len(p) /\ (i \in LineEnds(p) \/ i = Len(p))
    BY <1>2
  <2> QED
    BY <1>3, <1>5, <2>1, AfterParsed
<1>6. ASSUME NEW i \in LineEnds(p) \cup {Len(p)}, n + i < h
      PROVE  ~InContent(After(p, s)[i])
  <2>1. i \in 0..Len(p) /\ n + i \in Nat /\ n + i <= h
    BY <1>2, <1>6
  <2>2. PICK t \in Parser : t = After(p, s)[i]
    BY <1>4, <2>1
  <2>3. InHead(m, n + i, t, null)
    BY <1>5, <2>1, <2>2
  <2>4. ~InContent(t)
    BY <1>3, <1>6, <2>1, <2>3, StaysInHead
  <2> QED
    BY <2>2, <2>4
<1>7. ASSUME NEW i \in LineEnds(p) \cup {Len(p)}, n + i = h
      PROVE  InBody(m, h, After(p, s)[i]) /\ (InContent(After(p, s)[i]) <=> BodyLength(m) > 0)
  <2>1. i \in 0..Len(p) /\ n + i <= h
    BY <1>2, <1>7
  <2>2. PICK t \in Parser : t = After(p, s)[i]
    BY <1>4, <2>1
  <2>3. InHead(m, h, t, null)
    BY <1>5, <1>7, <2>1, <2>2
  <2>4. InBody(m, h, t)
    BY <1>3, <2>3, HeadToBody
  <2>5. t.null /\ t.cl = BodyLength(m) /\ t.rcl = 0
    BY <1>3, <2>4 DEF InBody
  <2>6. InContent(t) <=> BodyLength(m) > 0
    BY <1>1, <2>5 DEF InContent
  <2> QED
    BY <2>2, <2>4, <2>6
<1>8. CASE e < h \/ (e = h /\ BodyLength(m) = 0)
  <2>1. \A i \in LineEnds(p) \cup {Len(p)} : ~InContent(After(p, s)[i])
    <3> SUFFICES ASSUME NEW i \in LineEnds(p) \cup {Len(p)} PROVE ~InContent(After(p, s)[i])
      OBVIOUS
    <3>1. n + i <= e /\ n + i \in Nat
      BY <1>2
    <3>2. n + i < h \/ (n + i = h /\ BodyLength(m) = 0)
      BY <1>3, <1>8, <3>1
    <3> QED
      BY <1>6, <1>7, <3>2
  <2>2. PICK t \in Parser : t = After(p, s)[Len(p)]
    BY <1>2, <1>4
  <2>3. PICK r : r = StreamLines(p, s)
    OBVIOUS
  <2>4. /\ r \in Parser
        /\ r.line = t.line /\ r.null = t.null /\ r.cl = t.cl /\ r.rcl = t.rcl
        /\ r.done <=> t.null /\ t.rcl = t.cl
    <3>1. \A i \in 0..Len(p) : i \in LineEnds(p) \cup {Len(p)} => ~InContent(After(p, s)[i])
      BY <2>1
    <3> QED
      BY <1>2, <2>2, <2>3, <3>1, StreamLinesIs
  <2>5. InHead(m, e, t, null)
    <3>1. n + Len(p) = e /\ e <= h
      BY <1>2, <1>8
    <3> QED
      BY <1>5, <2>2, <3>1
  <2>6. InHead(m, e, r, null) /\ e <= h
    BY <1>8, <2>4, <2>5 DEF InHead
  <2>7. Parsed(m, e, r, null)
    BY <1>3, <2>6 DEF Parsed
  <2>8. PICK a \in 0..e : a = LineStart(m, e)
    BY <1>1, LineStartIs
  <2>9. /\ t.null = IF a = 0 THEN null ELSE e >= h
        /\ t.cl = Declared(m, e) /\ t.rcl = 0
    BY <1>3, <2>5, <2>8 DEF InHead
  <2>10. CASE e < h
    <3>1. ~(e >= h) /\ e # Len(m)
      BY <1>1, <1>3, <2>10
    <3>2. a # 0 \/ ~null => ~r.done
      BY <2>4, <2>9, <3>1
    <3> QED
      BY <2>3, <2>4, <2>7, <2>8, <3>1, <3>2 DEF Verdict
  <2>11. CASE e = h /\ BodyLength(m) = 0
    <3>1. e = Len(m)
      BY <1>1, <1>3, <2>11
    <3>2. InBody(m, h, t)
      BY <1>3, <2>5, <2>11, HeadToBody
    <3>3. t.null /\ t.cl = 0 /\ t.rcl = 0
      BY <1>3, <2>11, <3>2 DEF InBody
    <3> QED
      BY <2>3, <2>4, <2>7, <3>1, <3>3 DEF Verdict
  <2> QED
    BY <1>8, <2>10, <2>11
<1>9. CASE h <= e /\ BodyLength(m) > 0
  <2>1. PICK k \in Nat : k = h - n
    BY <1>3
  <2>2. k \in 1..(e - n) /\ n + k = h
    BY <1>2, <1>3, <1>9, <2>1
  <2>3. k \in LineEnds(p) /\ k \in 0..Len(p)
    BY <1>1, <1>2, <1>3, <2>2
  <2>4. PICK t \in Parser : t = After(p, s)[k]
    BY <1>4, <2>3
  <2>5. InBody(m, h, t) /\ InContent(t)
    BY <1>7, <1>9, <2>2, <2>3, <2>4
  <2>6. PICK i \in 0..Len(p) :
           /\ i \in LineEnds(p) \cup {Len(p)} /\ InContent(After(p, s)[i])
           /\ \A j \in LineEnds(p) : j < i => ~InContent(After(p, s)[j])
           /\ StreamLines(p, s) = StreamContent(SubSeq(p, i + 1, Len(p)), After(p, s)[i])
    BY <1>2, <2>3, <2>4, <2>5, StreamLinesIs
  <2>7. i = k
    <3>1. ~(k < i)
      BY <2>3, <2>4, <2>5, <2>6
    <3>2. ~(i < k)
      <4>1. ~(n + i < h)
        BY <1>6, <2>6
      <4> QED
        BY <1>2, <2>2, <2>6, <4>1
    <3> QED
      BY <1>2, <2>6, <3>1, <3>2
  <2>8. PICK q \in Seq(Byte) : q = SubSeq(p, k + 1, Len(p)) /\ Len(q) = Len(p) - k
    BY <1>2, <2>3, Suffix
  <2>9. StreamLines(p, s) = StreamContent(q, t)
    BY <2>4, <2>6, <2>7, <2>8
  <2>10. Len(q) = e - h
    BY <1>2, <1>3, <2>2, <2>8
  <2>11. LET r == StreamContent(q, t) IN r \in Parser /\ Parsed(m, e, r, null) /\ Verdict(m, e, r, null)
    <3>1. HeadEnd(m) <= h /\ h <= e /\ e <= Len(m) /\ InBody(m, h, t)
      BY <1>2, <1>3, <1>9, <2>5
    <3> QED
      BY <2>10, <3>1, BodyParsed
  <2> QED
    BY <2>9, <2>11
<1> QED
  BY <1>1, <1>2, <1>3, <1>8, <1>9

\* A packet of a message, when neither its start nor the one before split a CRLF.
LEMMA PacketParsed ==
    ASSUME NEW m, WellFormed(m), NEW n \in Nat, NEW e \in Nat, NEW p, Packet(m, n, e, p),
           NEW s \in Parser, NEW null \in BOOLEAN, Parsed(m, n, s, null)
    PROVE  LET r == StreamInHTTPMessage(p, s)
           IN  r \in Parser /\ Parsed(m, e, r, null) /\ Verdict(m, e, r, null)
<1>1. /\ m \in Seq(Byte) /\ HeadEnd(m) \in 2..Len(m) /\ Len(m) \in Nat
      /\ BodyLength(m) \in Nat /\ Len(m) = HeadEnd(m) + BodyLength(m)
  BY MessageIs
<1>2. /\ p \in Seq(Byte) /\ Len(p) = e - n /\ n < e /\ e <= Len(m)
      /\ \A x \in 1..(e - n) : p[x] = m[n + x]
  BY PacketIs
<1>3. PICK h \in Nat : h = HeadEnd(m)
  BY <1>1
<1>4. CASE n < h
  <2>1. InHead(m, n, s, null)
    BY <1>3, <1>4 DEF Parsed
  <2>2. ~InContent(s) /\ (EndsWith(s.line, "cr") => n >= 1 /\ m[n] = "cr")
    BY <1>3, <1>4, <2>1, StaysInHead
  <2>3. ~SplitCRLF(p, s)
    <3> SUFFICES ASSUME SplitCRLF(p, s) PROVE FALSE
      OBVIOUS
    <3>1. n >= 1 /\ m[n] = "cr" /\ p[1] = "lf"
      BY <2>2 DEF SplitCRLF
    <3>2. 1 \in 1..(e - n) /\ n + 1 \in 2..Len(m) /\ (n + 1) - 1 = n
      BY <1>1, <1>2, <3>1
    <3>3. m[n + 1] = "lf" /\ m[(n + 1) - 1] = "cr"
      BY <1>2, <3>1, <3>2
    <3>4. n + 1 \in LineEnds(m)
      BY <3>2, <3>3 DEF LineEnds
    <3> QED
      BY <3>4 DEF Packet, Between
  <2>4. StreamInHTTPMessage(p, s) = StreamLines(p, s)
    BY <2>2, <2>3 DEF StreamInHTTPMessage
  <2>5. LET r == StreamLines(p, s) IN r \in Parser /\ Parsed(m, e, r, null) /\ Verdict(m, e, r, null)
    <3>1. n < HeadEnd(m)
      BY <1>3, <1>4
    <3> QED
      BY <2>1, <3>1, HeadParsed
  <2> QED
    BY <2>4, <2>5
<1>5. CASE h <= n
  <2>1. InBody(m, n, s)
    <3>1. CASE n = h
      <4>1. InHead(m, h, s, null)
        BY <1>3, <3>1 DEF Parsed
      <4> QED
        BY <1>3, <3>1, <4>1, HeadToBody
    <3>2. CASE n # h
      <4>1. ~(n <= h)
        BY <1>5, <3>2
      <4> QED
        BY <1>3, <4>1 DEF Parsed
    <3> QED
      BY <3>1, <3>2
  <2>2. s.null /\ s.cl = BodyLength(m) /\ s.rcl = n - h
    BY <1>3, <2>1 DEF InBody
  <2>3. BodyLength(m) # 0 /\ n - h < BodyLength(m)
    BY <1>1, <1>2, <1>3, <1>5
  <2>4. InContent(s)
    BY <2>2, <2>3 DEF InContent
  <2>5. StreamInHTTPMessage(p, s) = StreamContent(p, s)
    BY <2>4 DEF StreamInHTTPMessage
  <2>6. LET r == StreamContent(p, s) IN r \in Parser /\ Parsed(m, e, r, null) /\ Verdict(m, e, r, null)
    <3>1. HeadEnd(m) <= n /\ n <= e
      BY <1>2, <1>3, <1>5
    <3> QED
      BY <1>2, <2>1, <3>1, BodyParsed
  <2> QED
    BY <2>5, <2>6
<1> QED
  BY <1>3, <1>4, <1>5

\* Before the first byte.
LEMMA NothingParsed ==
    ASSUME NEW m, WellFormed(m), NEW s \in Parser, s.line = <<>>, s.cl = 0, s.rcl = 0
    PROVE  Parsed(m, 0, s, s.null) /\ Between(m, 0) /\ LineStart(m, 0) = 0
<1>1. m \in Seq(Byte) /\ HeadEnd(m) \in 2..Len(m) /\ LineEnds(m) \subseteq 2..Len(m) /\ Len(m) \in Nat
  BY MessageIs
<1>2. LineStart(m, 0) = 0
  <2>1. LineStart(m, 0) \in 0..0
    BY <1>1, LineStartIs
  <2> QED
    BY <2>1
<1>3. Declared(m, 0) = 0
  BY <1>2, DeclaredIs
<1>4. SubSeq(m, 0 + 1, 0) = <<>>
  <2>1. 0 + 1 \in Int /\ 0 \in Int /\ 0 < 0 + 1
    OBVIOUS
  <2> QED
    BY <2>1, SubSeqEmpty
<1>5. InHead(m, 0, s, s.null) /\ 0 <= HeadEnd(m)
  BY <1>1, <1>2, <1>3, <1>4 DEF InHead
<1>6. Between(m, 0)
  BY <1>1 DEF Between
<1> QED
  BY <1>2, <1>5, <1>6 DEF Parsed

\* After the first line the flag it found does not matter.
LEMMA FlagForgotten ==
    ASSUME NEW m, NEW n, NEW s, NEW null, NEW other, LineStart(m, n) # 0, Parsed(m, n, s, null)
    PROVE  Parsed(m, n, s, other)
BY DEF Parsed, InHead

LEMMA LineStartGrows ==
    ASSUME NEW m, WellFormed(m), NEW n \in Nat, NEW e \in Nat, NEW p, Packet(m, n, e, p),
           LineStart(m, n) # 0 \/ LineEnds(p) # {}
    PROVE  LineStart(m, e) # 0
<1>1. m \in Seq(Byte) /\ LineEnds(m) \subseteq 2..Len(m) /\ Len(m) \in Nat
  BY MessageIs
<1>2. /\ n < e /\ LineEnds(p) \subseteq 2..(e - n)
      /\ \A i \in 1..(e - n) : i \in LineEnds(p) <=> n + i \in LineEnds(m)
  BY PacketIs
<1>3. \E j \in LineEnds(m) : j <= e
  <2>1. CASE LineStart(m, n) # 0
    <3>1. LineStart(m, n) \in LineEnds(m) /\ LineStart(m, n) \in 0..n
      BY <1>1, <2>1, LineStartIs
    <3> QED
      BY <1>2, <3>1
  <2>2. CASE LineEnds(p) # {}
    <3>1. PICK i \in LineEnds(p) : TRUE
      BY <2>2
    <3>2. i \in 1..(e - n) /\ n + i <= e
      BY <1>2
    <3>3. n + i \in LineEnds(m)
      BY <1>2, <3>2
    <3> QED
      BY <3>2, <3>3
  <2> QED
    BY <2>1, <2>2
<1>4. PICK j \in LineEnds(m) : j <= e
  BY <1>3
<1>5. j <= LineStart(m, e) /\ LineStart(m, e) \in 0..e
  BY <1>1, <1>4, LineStartIs
<1> QED
  BY <1>1, <1>5

\* The packet p of k bytes is cut off todo, and rest is left.
CutOff(todo, k, p, rest) == p = SubSeq(todo, 1, k) /\ rest = SubSeq(todo, k + 1, Len(todo))

LEMMA JoinedIs ==
    ASSUME NEW u \in Seq(Byte), NEW v \in Seq(Byte), NEW w, Joined(u, v, w)
    PROVE  /\ w \in Seq(Byte) /\ Len(w) = Len(u) + Len(v)
           /\ \A x \in 1..Len(u) : w[x] = u[x]
           /\ \A x \in 1..Len(v) : w[Len(u) + x] = v[x]
<1>1. w = u \o v
  BY DEF Joined
<1>2. /\ u \o v \in Seq(Byte) /\ Len(u \o v) = Len(u) + Len(v)
      /\ \A x \in 1..(Len(u) + Len(v)) : (u \o v)[x] = IF x <= Len(u) THEN u[x] ELSE v[x - Len(u)]
  BY ConcatProperties
<1>3. Len(u) \in Nat /\ Len(v) \in Nat
  OBVIOUS
<1>4. \A x \in 1..Len(u) : (u \o v)[x] = u[x]
  <2>1. \A x \in 1..Len(u) : x \in 1..(Len(u) + Len(v)) /\ x <= Len(u)
    BY <1>3
  <2> QED
    BY <1>2, <2>1
<1>5. ASSUME NEW x \in 1..Len(v) PROVE (u \o v)[Len(u) + x] = v[x]
  <2>1. PICK y : y = Len(u) + x
    OBVIOUS
  <2>2. y \in 1..(Len(u) + Len(v)) /\ ~(y <= Len(u)) /\ y - Len(u) = x
    BY <1>3, <2>1
  <2>3. (u \o v)[y] = v[y - Len(u)]
    BY <1>2, <2>2
  <2> QED
    BY <2>1, <2>2, <2>3
<1> QED
  BY <1>1, <1>2, <1>4, <1>5

LEMMA Regroup ==
    ASSUME NEW u \in Seq(Byte), NEW v \in Seq(Byte), NEW w \in Seq(Byte)
    PROVE  (u \o v) \o w = u \o (v \o w)
BY ConcatAssociative

LEMMA CutOffFrom ==
    ASSUME NEW todo \in Seq(Byte), NEW k \in 0..Len(todo), NEW p, NEW rest, CutOff(todo, k, p, rest)
    PROVE  /\ p \in Seq(Byte) /\ Len(p) = k /\ rest \in Seq(Byte) /\ Len(rest) = Len(todo) - k
           /\ \A x \in 1..k : p[x] = todo[x]
           /\ \A x \in 1..(Len(todo) - k) : rest[x] = todo[k + x]
           /\ Joined(p, rest, todo)
<1>1. PICK t \in Nat : t = Len(todo)
  OBVIOUS
<1>2. k \in Nat /\ 0 <= k /\ k <= t /\ 0 \in Nat /\ t <= t /\ 0 + 1 = 1 /\ k - 0 = k /\ 0 <= t
  BY <1>1
<1>3. /\ SubSeq(todo, 0 + 1, k) \in Seq(Byte) /\ Len(SubSeq(todo, 0 + 1, k)) = k - 0
      /\ \A x \in 1..(k - 0) : SubSeq(todo, 0 + 1, k)[x] = todo[0 + x]
  BY <1>1, <1>2, Stretches
<1>4. /\ SubSeq(todo, k + 1, t) \in Seq(Byte) /\ Len(SubSeq(todo, k + 1, t)) = t - k
      /\ \A x \in 1..(t - k) : SubSeq(todo, k + 1, t)[x] = todo[k + x]
  BY <1>1, <1>2, Stretches
<1>5. SubSeq(todo, 0 + 1, k) \o SubSeq(todo, k + 1, t) = SubSeq(todo, 0 + 1, t)
  <2>1. PICK a \in Nat : a = 0
    BY <1>2
  <2>2. a <= k /\ k <= t /\ t <= Len(todo) /\ k \in Nat
    BY <1>1, <1>2, <2>1
  <2>3. SubSeq(todo, a + 1, k) \o SubSeq(todo, k + 1, t) = SubSeq(todo, a + 1, t)
    BY <2>2, Stretches
  <2> QED
    BY <2>1, <2>3
<1>6. SubSeq(todo, 1, t) = todo
  BY <1>1, SubSeqFull
<1>7. p = SubSeq(todo, 1, k) /\ rest = SubSeq(todo, k + 1, t)
  BY <1>1 DEF CutOff
<1>8. \A x \in 1..k : 0 + x = x
  BY <1>2
<1>9. p \in Seq(Byte) /\ Len(p) = k /\ \A x \in 1..k : p[x] = todo[x]
  BY <1>2, <1>3, <1>7, <1>8
<1>10. rest \in Seq(Byte) /\ Len(rest) = t - k /\ \A x \in 1..(t - k) : rest[x] = todo[k + x]
  BY <1>4, <1>7
<1>11. Joined(p, rest, todo)
  BY <1>2, <1>5, <1>6, <1>7 DEF Joined
<1> QED
  BY <1>1, <1>9, <1>10, <1>11

LEMMA CutOffIs ==
    ASSUME NEW todo \in Seq(Byte), NEW k \in 1..Len(todo), NEW p, NEW rest, CutOff(todo, k, p, rest)
    PROVE  /\ p \in Seq(Byte) /\ Len(p) = k /\ rest \in Seq(Byte) /\ Len(rest) = Len(todo) - k
           /\ \A x \in 1..k : p[x] = todo[x]
           /\ \A x \in 1..(Len(todo) - k) : rest[x] = todo[k + x]
           /\ Joined(p, rest, todo)
<1>1. k \in 0..Len(todo)
  OBVIOUS
<1> QED
  BY <1>1, CutOffFrom

\* A packet cut off what has arrived is cut off the whole that was to come.
LEMMA CutOffWhole ==
    ASSUME NEW todo \in Seq(Byte), NEW lost \in Seq(Byte), NEW k \in 1..Len(todo), NEW p, NEW rest,
           CutOff(todo, k, p, rest)
    PROVE  /\ todo \o lost \in Seq(Byte) /\ k \in 1..Len(todo \o lost)
           /\ CutOff(todo \o lost, k, p, rest \o lost)
<1>1. PICK t \in Nat : t = Len(todo)
  OBVIOUS
<1>2. PICK l \in Nat : l = Len(lost)
  OBVIOUS
<1>3. PICK w : w = todo \o lost
  OBVIOUS
<1>4. /\ w \in Seq(Byte) /\ Len(w) = t + l
      /\ \A x \in 1..t : w[x] = todo[x]
      /\ \A x \in 1..l : w[t + x] = lost[x]
  <2>1. Joined(todo, lost, w)
    BY <1>3 DEF Joined
  <2> QED
    BY <1>1, <1>2, <2>1, JoinedIs
<1>5. k \in Nat /\ 1 <= k /\ k <= t /\ k \in 1..Len(w)
  BY <1>1, <1>4
<1>6. /\ p \in Seq(Byte) /\ Len(p) = k /\ rest \in Seq(Byte) /\ Len(rest) = t - k
      /\ \A x \in 1..k : p[x] = todo[x]
      /\ \A x \in 1..(t - k) : rest[x] = todo[k + x]
  BY <1>1, CutOffIs
<1>7. PICK p2, rest2 : CutOff(w, k, p2, rest2)
  BY DEF CutOff
<1>8. /\ p2 \in Seq(Byte) /\ Len(p2) = k /\ rest2 \in Seq(Byte) /\ Len(rest2) = Len(w) - k
      /\ \A x \in 1..k : p2[x] = w[x]
      /\ \A x \in 1..(Len(w) - k) : rest2[x] = w[k + x]
  <2>1. w \in Seq(Byte) /\ k \in 1..Len(w)
    BY <1>4, <1>5
  <2>2. \A q, r : CutOff(w, k, q, r) =>
           /\ q \in Seq(Byte) /\ Len(q) = k /\ r \in Seq(Byte) /\ Len(r) = Len(w) - k
           /\ \A x \in 1..k : q[x] = w[x]
           /\ \A x \in 1..(Len(w) - k) : r[x] = w[k + x]
    BY <2>1, CutOffIs
  <2> QED
    BY <1>7, <2>2, Zenon
<1>9. p2 = p
  <2>1. ASSUME NEW x \in 1..k PROVE p2[x] = p[x]
    <3>1. x \in 1..t
      BY <1>5
    <3> QED
      BY <1>4, <1>6, <1>8, <3>1
  <2> QED
    BY <1>6, <1>8, <2>1, SeqEqual
<1>10. PICK v : v = rest \o lost
  OBVIOUS
<1>11. /\ v \in Seq(Byte) /\ Len(v) = (t - k) + l
       /\ \A x \in 1..(t - k) : v[x] = rest[x]
       /\ \A x \in 1..l : v[(t - k) + x] = lost[x]
  <2>1. Joined(rest, lost, v) /\ rest \in Seq(Byte)
    BY <1>6, <1>10 DEF Joined
  <2>2. /\ v \in Seq(Byte) /\ Len(v) = Len(rest) + Len(lost)
        /\ \A x \in 1..Len(rest) : v[x] = rest[x]
        /\ \A x \in 1..Len(lost) : v[Len(rest) + x] = lost[x]
    BY <2>1, JoinedIs
  <2> QED
    BY <1>2, <1>6, <2>2
<1>12. rest2 = v
  <2>1. Len(rest2) = (t - k) + l /\ Len(rest2) = Len(v)
    BY <1>4, <1>5, <1>8, <1>11
  <2>2. ASSUME NEW x \in 1..Len(v) PROVE rest2[x] = v[x]
    <3>1. rest2[x] = w[k + x]
      BY <1>8, <2>1
    <3>2. CASE x <= t - k
      <4>1. x \in 1..(t - k) /\ k + x \in 1..t
        BY <1>5, <1>11, <3>2
      <4> QED
        BY <1>4, <1>6, <1>11, <3>1, <4>1
    <3>3. CASE ~(x <= t - k)
      <4>1. PICK y \in 1..l : y = x - (t - k)
        BY <1>5, <1>11, <3>3
      <4>2. x = (t - k) + y /\ k + x = t + y
        BY <1>5, <4>1
      <4>3. v[(t - k) + y] = lost[y] /\ w[t + y] = lost[y]
        BY <1>4, <1>11
      <4> QED
        BY <3>1, <4>2, <4>3
    <3> QED
      BY <3>2, <3>3
  <2> QED
    BY <1>8, <1>11, <2>1, <2>2, SeqEqual
<1> QED
  BY <1>3, <1>4, <1>5, <1>7, <1>9, <1>10, <1>12

\* A stream of which done is read and todo is not, after one more packet.
LEMMA Relayed ==
    ASSUME NEW m \in Seq(Byte), NEW done \in Seq(Byte), NEW todo \in Seq(Byte), Joined(done, todo, m),
           NEW k \in 1..Len(todo), NEW p, NEW rest, CutOff(todo, k, p, rest)
    PROVE  /\ p \in Seq(Byte) /\ p # <<>> /\ rest \in Seq(Byte)
           /\ Joined(done \o p, rest, m) /\ done \o p \in Seq(Byte) /\ done \o p # <<>>
           /\ Len(done \o p) = Len(done) + k
           /\ Between(m, Len(done)) => Packet(m, Len(done), Len(done) + k, p)
           /\ (done \o p)[Len(done \o p)] = p[Len(p)]
           /\ done \o p = m <=> Len(done) + k = Len(m)
           /\ ~(EndsWith(p, "cr") /\ rest # <<>> /\ Head(rest) = "lf") => Between(m, Len(done) + k)
<1>1. PICK d \in Nat : d = Len(done)
  OBVIOUS
<1>2. PICK t \in Nat : t = Len(todo)
  OBVIOUS
<1>3. k \in Nat /\ 0 < k /\ k <= t
  BY <1>2
<1>4. Len(m) = d + t /\ \A x \in 1..t : m[d + x] = todo[x]
  BY <1>1, <1>2, JoinedIs
<1>5. p \in Seq(Byte) /\ Len(p) = k /\ \A x \in 1..k : p[x] = todo[x]
  BY CutOffIs
<1>6. rest \in Seq(Byte) /\ Len(rest) = t - k /\ \A x \in 1..(t - k) : rest[x] = todo[k + x]
  <2>1. /\ rest \in Seq(Byte) /\ Len(rest) = Len(todo) - k
        /\ \A x \in 1..(Len(todo) - k) : rest[x] = todo[k + x]
    BY CutOffIs
  <2> QED
    BY <1>2, <2>1
<1>7. PICK w : w = done \o p
  OBVIOUS
<1>8. Joined(done, p, w)
  BY <1>7 DEF Joined
<1>9. w \in Seq(Byte) /\ Len(w) = d + k /\ \A x \in 1..k : w[d + x] = p[x]
  <2>1. /\ w \in Seq(Byte) /\ Len(w) = Len(done) + Len(p)
        /\ \A x \in 1..Len(p) : w[Len(done) + x] = p[x]
    <3>1. p \in Seq(Byte)
      BY <1>5
    <3> QED
      BY <1>8, <3>1, JoinedIs
  <2> QED
    BY <1>1, <1>5, <2>1
<1>10. Joined(w, rest, m)
  <2>1. p \o rest = todo
    BY CutOffIs DEF Joined
  <2>2. (done \o p) \o rest = done \o (p \o rest)
    <3>1. p \in Seq(Byte) /\ rest \in Seq(Byte)
      BY <1>5, <1>6
    <3> QED
      BY <3>1, Regroup
  <2> QED
    BY <1>7, <2>1, <2>2 DEF Joined
<1>11. p = SubSeq(m, d + 1, d + k)
  <2>1. PICK v : v = SubSeq(m, d + 1, d + k)
    OBVIOUS
  <2>2. d + k \in Nat /\ d <= d + k /\ d + k <= Len(m) /\ (d + k) - d = k
    BY <1>3, <1>4
  <2>3. v \in Seq(Byte) /\ Len(v) = (d + k) - d /\ \A x \in 1..((d + k) - d) : v[x] = m[d + x]
    BY <2>1, <2>2, Stretches
  <2>4. v \in Seq(Byte) /\ Len(v) = k /\ \A x \in 1..k : v[x] = m[d + x]
    BY <2>2, <2>3
  <2>5. ASSUME NEW x \in 1..k PROVE p[x] = v[x]
    <3>1. x \in 1..t
      BY <1>3
    <3> QED
      BY <1>4, <1>5, <2>4, <3>1
  <2>6. p = v
    BY <1>5, <2>4, <2>5, SeqEqual
  <2> QED
    BY <2>1, <2>6
<1>12. w[Len(w)] = p[Len(p)]
  <2>1. k \in 1..k
    BY <1>3
  <2> QED
    BY <1>5, <1>9, <2>1
<1>13. w = m <=> d + k = Len(m)
  <2>1. ASSUME d + k = Len(m) PROVE w = m
    <3>1. rest = <<>>
      BY <1>3, <1>4, <1>6, <2>1
    <3>2. w \o <<>> = w
      BY <1>9, ConcatEmptySeq
    <3> QED
      BY <1>10, <3>1, <3>2 DEF Joined
  <2> QED
    BY <1>9, <2>1
<1>14. ASSUME ~(EndsWith(p, "cr") /\ rest # <<>> /\ Head(rest) = "lf") PROVE Between(m, d + k)
  <2> SUFFICES ASSUME (d + k) + 1 \in LineEnds(m) PROVE FALSE
    BY DEF Between
  <2>1. (d + k) + 1 \in 2..Len(m) /\ m[((d + k) + 1) - 1] = "cr" /\ m[(d + k) + 1] = "lf"
    BY DEF LineEnds
  <2>2. k \in 1..t /\ k + 1 \in 1..t /\ 1 \in 1..(t - k) /\ k \in 1..k
    BY <1>3, <1>4, <2>1
  <2>3. ((d + k) + 1) - 1 = d + k /\ (d + k) + 1 = d + (k + 1)
    BY <1>3
  <2>4. p[k] = "cr"
    <3>1. p[k] = todo[k] /\ m[d + k] = todo[k]
      BY <1>4, <1>5, <2>2
    <3> QED
      BY <2>1, <2>3, <3>1
  <2>5. rest[1] = "lf"
    <3>1. rest[1] = todo[k + 1] /\ m[d + (k + 1)] = todo[k + 1]
      BY <1>4, <1>6, <2>2
    <3> QED
      BY <2>1, <2>3, <3>1
  <2>6. EndsWith(p, "cr")
    BY <1>3, <1>5, <2>4 DEF EndsWith
  <2>7. rest # <<>> /\ Head(rest) = "lf"
    <3>1. Len(rest) # 0
      BY <1>6, <2>2
    <3> QED
      BY <1>6, <2>5, <3>1
  <2> QED
    BY <1>14, <2>6, <2>7
<1>15. p # <<>> /\ w # <<>>
  <2>1. Len(p) # 0 /\ Len(w) # 0
    BY <1>3, <1>5, <1>9
  <2> QED
    BY <1>5, <1>9, <2>1
<1>16. Between(m, d) => Packet(m, d, d + k, p)
  BY <1>3, <1>4, <1>11 DEF Packet
<1> QED
  BY <1>1, <1>5, <1>6, <1>7, <1>9, <1>10, <1>12, <1>13, <1>14, <1>15, <1>16

-----------------------------------------------------------------------------
(* The steps.                                                              *)

LEMMA MessagesAre ==
    /\ \A m \in Requests \cup Responses : WellFormed(m) /\ m \in Seq(Byte) /\ m # <<>>
    /\ Fresh \in Parser /\ Fresh.line = <<>> /\ Fresh.cl = 0 /\ Fresh.rcl = 0 /\ Fresh.null = FALSE
<1>1. \A m \in Requests \cup Responses : WellFormed(m) /\ m \in Seq(Byte) /\ m # <<>>
  BY MessageAssumption, MessageIs
<1>2. PICK e \in Seq(Byte) : e = <<>>
  BY EmptySeq
<1>3. PICK f \in BOOLEAN : f = FALSE
  OBVIOUS
<1>4. PICK r : r = [line |-> e, null |-> f, cl |-> 0, rcl |-> 0, done |-> f]
  OBVIOUS
<1>5. r \in Parser /\ r.line = e /\ r.cl = 0 /\ r.rcl = 0 /\ r.null = f
  BY <1>4 DEF Parser
<1>6. Fresh = r
  BY <1>2, <1>3, <1>4 DEF Fresh
<1> QED
  BY <1>1, <1>2, <1>3, <1>5, <1>6

LEMMA InitIsRight == Init => PInv
<1> SUFFICES ASSUME Init PROVE PInv
  OBVIOUS
<1>1. PICK e \in Seq(Byte) : e = <<>>
  BY EmptySeq
<1>2. st = Fresh /\ st \in Parser /\ st.line = <<>>
  BY MessagesAre DEF Init
<1>3. st.null \in BOOLEAN /\ st.done \in BOOLEAN /\ st.cl \in 0..2 /\ st.rcl \in Nat
  BY <1>2, Fields
<1>4. NoCuts \in [crlf : BOOLEAN, first : BOOLEAN]
  BY DEF NoCuts
<1>5. queue = <<>> /\ DOMAIN queue = {} /\ queue \in Seq(Client)
  BY DEF Init
<1>6. Types
  <2>1. TypeOK
    BY <1>3, <1>5 DEF Init, TypeOK
  <2>2. cIn = [c \in Client |-> e] /\ toClient = [c \in Client |-> e]
    BY <1>1 DEF Init
  <2>3. cIn \in [Client -> Seq(Byte)] /\ toClient \in [Client -> Seq(Byte)]
    BY <2>2
  <2> QED
    BY <1>1, <1>2, <1>4, <2>1, <2>3 DEF Init, Types
<1>7. Waiting
  <2>1. pc = "accept" /\ current = None
    BY DEF Init
  <2>2. Distinct(queue) /\ \A c \in Client : ~In(c, queue)
    BY <1>5 DEF Distinct, In
  <2>3. \A c \in Client : toClient[c] = <<>> /\ cIn[c] = <<>>
    BY DEF Init
  <2> QED
    BY <2>1, <2>2, <2>3 DEF Waiting
<1>8. current = None /\ pc = "accept"
  BY DEF Init
<1> QED
  BY <1>6, <1>7, <1>8 DEF PInv, Streams, LastRead, Parsing, FatalCauses

RequestRound(k, p, rest) ==
    /\ k \in 1..Len(cIn[current]) /\ CutOff(cIn[current], k, p, rest)
    /\ cIn' = [cIn EXCEPT ![current] = rest]
    /\ sent' = sent \o p
    /\ st' = StreamInHTTPMessage(p, st)
    /\ packets' = Cut(p, rest)

ResponseRound(k, p, rest) ==
    /\ k \in 1..Len(sIn) /\ CutOff(sIn, k, p, rest)
    /\ sIn' = rest
    /\ toClient' = [toClient EXCEPT ![current] = @ \o p]
    /\ st' = StreamInHTTPMessage(p, st)
    /\ packets' = Cut(p, rest)

LEMMA UpToBuffer ==
    ASSUME NEW S, NEW q \in Seq(S), q # <<>>
    PROVE  1..Min({BufSize, Len(q)}) \subseteq 1..Len(q)
<1>1. {BufSize, Len(q)} \subseteq Nat /\ {BufSize, Len(q)} # {}
  BY BufSizeAssumption
<1>2. Min({BufSize, Len(q)}) <= Len(q) /\ Min({BufSize, Len(q)}) \in Nat
  BY <1>1, LeastIsMin
<1> QED
  BY <1>2

\* What a packet of the request changes.
LEMMA RequestRounds ==
    ASSUME Types, RelayRequest
    PROVE  \E k, p, rest :
              /\ RequestRound(k, p, rest)
              /\ p \in Seq(Byte) /\ p # <<>> /\ rest \in Seq(Byte)
              /\ st' \in Parser /\ Closes(st'.line, p)
<1>1. current \in Client /\ pc = "request" /\ cIn[current] \in Seq(Byte) /\ cIn[current] # <<>> /\ st \in Parser
  BY NoneAssumption DEF Types, TypeOK, RelayRequest
<1>2. PICK k \in 1..Min({BufSize, Len(cIn[current])}) :
         /\ cIn' = [cIn EXCEPT ![current] = SubSeq(cIn[current], k + 1, Len(cIn[current]))]
         /\ sent' = sent \o SubSeq(cIn[current], 1, k)
         /\ st' = StreamInHTTPMessage(SubSeq(cIn[current], 1, k), st)
         /\ packets' = Cut(SubSeq(cIn[current], 1, k), SubSeq(cIn[current], k + 1, Len(cIn[current])))
  BY DEF RelayRequest
<1>3. k \in 1..Len(cIn[current])
  BY <1>1, UpToBuffer
<1>4. PICK p, rest : CutOff(cIn[current], k, p, rest)
  BY DEF CutOff
<1>5. p = SubSeq(cIn[current], 1, k) /\ rest = SubSeq(cIn[current], k + 1, Len(cIn[current]))
  BY <1>4 DEF CutOff
<1>6. RequestRound(k, p, rest)
  BY <1>2, <1>3, <1>4, <1>5 DEF RequestRound
<1>7. p \in Seq(Byte) /\ Len(p) = k /\ rest \in Seq(Byte)
  BY <1>1, <1>3, <1>4, CutOffIs
<1>8. p # <<>>
  BY <1>3, <1>7
<1>9. st' \in Parser /\ Closes(st'.line, p)
  <2>1. ~Panics(p, st)
    BY <1>8 DEF Panics
  <2>2. StreamInHTTPMessage(p, st) \in Parser /\ Closes(StreamInHTTPMessage(p, st).line, p)
    BY <1>1, <1>7, <1>8, <2>1, MessageTypes
  <2> QED
    BY <1>6, <2>2 DEF RequestRound
<1> QED
  BY <1>6, <1>7, <1>8, <1>9

LEMMA ResponseRounds ==
    ASSUME Types, RelayResponse
    PROVE  \E k, p, rest :
              /\ ResponseRound(k, p, rest)
              /\ FinishOrGoOn(st'.done)
              /\ p \in Seq(Byte) /\ p # <<>> /\ rest \in Seq(Byte)
              /\ st' \in Parser /\ Closes(st'.line, p)
<1>1. sIn \in Seq(Byte) /\ sIn # <<>> /\ st \in Parser
  BY DEF Types, RelayResponse
<1>2. PICK k \in 1..Min({BufSize, Len(sIn)}) :
         /\ sIn' = SubSeq(sIn, k + 1, Len(sIn))
         /\ toClient' = [toClient EXCEPT ![current] = @ \o SubSeq(sIn, 1, k)]
         /\ st' = StreamInHTTPMessage(SubSeq(sIn, 1, k), st)
         /\ packets' = Cut(SubSeq(sIn, 1, k), SubSeq(sIn, k + 1, Len(sIn)))
         /\ FinishOrGoOn(st'.done)
  BY DEF RelayResponse
<1>3. k \in 1..Len(sIn)
  BY <1>1, UpToBuffer
<1>4. PICK p, rest : CutOff(sIn, k, p, rest)
  BY DEF CutOff
<1>5. p = SubSeq(sIn, 1, k) /\ rest = SubSeq(sIn, k + 1, Len(sIn))
  BY <1>4 DEF CutOff
<1>6. ResponseRound(k, p, rest)
  BY <1>2, <1>3, <1>4, <1>5 DEF ResponseRound
<1>7. p \in Seq(Byte) /\ Len(p) = k /\ rest \in Seq(Byte)
  BY <1>1, <1>3, <1>4, CutOffIs
<1>8. p # <<>>
  BY <1>3, <1>7
<1>9. st' \in Parser /\ Closes(st'.line, p)
  <2>1. ~Panics(p, st)
    BY <1>8 DEF Panics
  <2>2. StreamInHTTPMessage(p, st) \in Parser /\ Closes(StreamInHTTPMessage(p, st).line, p)
    BY <1>1, <1>7, <1>8, <2>1, MessageTypes
  <2> QED
    BY <1>6, <2>2 DEF ResponseRound
<1> QED
  BY <1>2, <1>6, <1>7, <1>8, <1>9

\* What a connection that was closed or reset leaves of the bytes on their way.
LEMMA ReceivedPart ==
    ASSUME NEW q \in Seq(Byte), NEW k \in 0..Len(q)
    PROVE  /\ SubSeq(q, 1, k) \in Seq(Byte)
           /\ \E rest \in Seq(Byte) : Joined(SubSeq(q, 1, k), rest, q)
<1>1. PICK p, rest : CutOff(q, k, p, rest)
  BY DEF CutOff
<1>2. p \in Seq(Byte) /\ rest \in Seq(Byte) /\ Joined(p, rest, q)
  BY <1>1, CutOffFrom
<1> QED
  BY <1>1, <1>2 DEF CutOff

LEMMA TypesStep ==
    ASSUME Types, [Next]_vars
    PROVE  Types'
<1> USE NoneAssumption
<1>1. /\ pc \in {"accept", "request", "response", "fatal"}
      /\ current \in Client \cup {None}
      /\ pc \in {"request", "response"} => current # None
      /\ queue \in Seq(Client)
      /\ cstate \in [Client -> {"new", "open", "sent", "gone", "closed"}]
      /\ cIn \in [Client -> Seq(Byte)] /\ request \in [Client -> Requests]
      /\ sent \in Seq(Byte) /\ sIn \in Seq(Byte)
      /\ answered \in Responses \cup {<<>>} /\ server \in {"open", "closed", "reset"}
      /\ toClient \in [Client -> Seq(Byte)]
      /\ st \in Parser
      /\ packets \in [crlf : BOOLEAN, first : BOOLEAN]
  BY DEF Types, TypeOK
<1>2. ASSUME
        /\ pc' \in {"accept", "request", "response", "fatal"}
        /\ current' \in Client \cup {None}
        /\ pc' \in {"request", "response"} => current' # None
        /\ queue' \in Seq(Client)
        /\ cstate' \in [Client -> {"new", "open", "sent", "gone", "closed"}]
        /\ cIn' \in [Client -> Seq(Byte)] /\ request' \in [Client -> Requests]
        /\ sent' \in Seq(Byte) /\ sIn' \in Seq(Byte)
        /\ answered' \in Responses \cup {<<>>} /\ server' \in {"open", "closed", "reset"}
        /\ toClient' \in [Client -> Seq(Byte)]
        /\ st' \in Parser
        /\ packets' \in [crlf : BOOLEAN, first : BOOLEAN]
      PROVE Types'
  <2>1. st' \in Parser => st'.null \in BOOLEAN /\ st'.done \in BOOLEAN /\ st'.cl \in 0..2 /\ st'.rcl \in Nat
    BY Fields
  <2> QED
    BY <1>2, <2>1 DEF Types, TypeOK
<1>3. \A p, rest : Cut(p, rest) \in [crlf : BOOLEAN, first : BOOLEAN]
  <2> SUFFICES ASSUME NEW p, NEW rest PROVE Cut(p, rest) \in [crlf : BOOLEAN, first : BOOLEAN]
    OBVIOUS
  <2>1. PICK x \in BOOLEAN : x = (packets.crlf \/ (EndsWith(p, "cr") /\ rest # <<>> /\ Head(rest) = "lf"))
    BY <1>1
  <2>2. PICK y \in BOOLEAN : y = (packets.first \/ (pc = "response" /\ toClient[current] = <<>> /\ LineEnds(p) = {}))
    BY <1>1
  <2>3. Cut(p, rest) = [crlf |-> x, first |-> y]
    BY <2>1, <2>2 DEF Cut
  <2> QED
    BY <2>3
<1>4. ASSUME NEW done, FinishOrGoOn(done), pc = "response"
      PROVE  /\ pc' \in {"accept", "response"} /\ current' \in Client \cup {None}
             /\ pc' = "response" => current' # None
             /\ cstate' \in [Client -> {"new", "open", "sent", "gone", "closed"}]
  <2>1. CASE done
    BY <1>1, <1>4, <2>1 DEF FinishOrGoOn
  <2>2. CASE ~done
    BY <1>1, <1>4, <2>2 DEF FinishOrGoOn
  <2> QED
    BY <2>1, <2>2
<1>5. ASSUME NEW c \in Client, Connect(c)
      PROVE  Types'
  BY <1>1, <1>2, <1>5, AppendProperties DEF Connect, connection
<1>6. ASSUME NEW c \in Client, SendRequest(c)
      PROVE  Types'
  <2>1. request[c] \in Seq(Byte)
    BY <1>1, MessagesAre
  <2> QED
    BY <1>1, <1>2, <1>6, <2>1 DEF SendRequest, connection
<1>7. ASSUME NEW c \in Client, Disappear(c)
      PROVE  Types'
  BY <1>1, <1>2, <1>7 DEF Disappear, connection
<1>8. CASE Respond
  <2>1. \A m \in Responses : m \in Seq(Byte)
    BY MessagesAre
  <2> QED
    BY <1>1, <1>2, <1>8, <2>1 DEF Respond
<1>9. CASE HangUp
  <2>1. PICK k \in 0..Len(sIn) : sIn' = SubSeq(sIn, 1, k)
    BY <1>9 DEF HangUp
  <2>2. sIn' \in Seq(Byte)
    BY <1>1, <2>1, ReceivedPart
  <2> QED
    BY <1>1, <1>2, <1>9, <2>2 DEF HangUp
<1>10. CASE Accept
  <2>1. Head(queue) \in Client /\ Tail(queue) \in Seq(Client)
    BY <1>1, <1>10, HeadTailProperties DEF Accept
  <2>2. NoCuts \in [crlf : BOOLEAN, first : BOOLEAN]
    BY DEF NoCuts
  <2>3. <<>> \in Seq(Byte)
    BY EmptySeq
  <2> QED
    BY <1>1, <1>2, <1>10, <2>1, <2>2, <2>3, MessagesAre DEF Accept
<1>11. CASE Fatal
  BY <1>1, <1>2, <1>11 DEF Fatal, connection
<1>12. CASE RelayRequest
  <2>1. PICK k, p, rest : RequestRound(k, p, rest) /\ p \in Seq(Byte) /\ rest \in Seq(Byte) /\ st' \in Parser
    BY <1>12, RequestRounds
  <2>2. sent \o p \in Seq(Byte)
    BY <1>1, <2>1, ConcatProperties
  <2>3. /\ cIn' = [cIn EXCEPT ![current] = rest] /\ sent' = sent \o p /\ packets' = Cut(p, rest)
    BY <2>1 DEF RequestRound
  <2>4. packets' \in [crlf : BOOLEAN, first : BOOLEAN]
    BY <1>3, <2>3
  <2> QED
    BY <1>1, <1>2, <1>12, <2>1, <2>2, <2>3, <2>4 DEF RelayRequest
<1>13. CASE RequestEnds
  <2>1. CASE Fatal
    BY <1>11, <2>1
  <2>2. CASE ~Fatal
    BY <1>1, <1>2, <1>13, <2>2 DEF RequestEnds, connection
  <2> QED
    BY <2>1, <2>2
<1>14. CASE RelayResponse
  <2>1. PICK k, p, rest : /\ ResponseRound(k, p, rest) /\ FinishOrGoOn(st'.done)
                          /\ p \in Seq(Byte) /\ rest \in Seq(Byte) /\ st' \in Parser
    BY <1>14, ResponseRounds
  <2>2. pc = "response" /\ current \in Client
    BY <1>1, <1>14 DEF RelayResponse
  <2>3. toClient[current] \o p \in Seq(Byte)
    BY <1>1, <2>1, <2>2, ConcatProperties
  <2>4. /\ sIn' = rest /\ toClient' = [toClient EXCEPT ![current] = toClient[current] \o p]
        /\ packets' = Cut(p, rest)
    BY <2>1 DEF ResponseRound
  <2>5. /\ pc' \in {"accept", "response"} /\ current' \in Client \cup {None}
        /\ pc' = "response" => current' # None
        /\ cstate' \in [Client -> {"new", "open", "sent", "gone", "closed"}]
    BY <1>4, <2>1, <2>2
  <2>6. packets' \in [crlf : BOOLEAN, first : BOOLEAN]
    BY <1>3, <2>4
  <2> QED
    BY <1>1, <1>2, <1>14, <2>1, <2>3, <2>4, <2>5, <2>6 DEF RelayResponse
<1>15. CASE RelayNothing
  <2>1. <<>> \in Seq(Byte) /\ ~Panics(<<>>, st) /\ pc = "response"
    BY <1>15, EmptySeq DEF RelayNothing
  <2>2. st' \in Parser
    BY <1>1, <1>15, <2>1, MessageTypes DEF RelayNothing
  <2>3. /\ pc' \in {"accept", "response"} /\ current' \in Client \cup {None}
        /\ pc' = "response" => current' # None
        /\ cstate' \in [Client -> {"new", "open", "sent", "gone", "closed"}]
    BY <1>4, <1>15, <2>1 DEF RelayNothing
  <2> QED
    BY <1>1, <1>2, <1>15, <2>2, <2>3 DEF RelayNothing
<1>16. CASE UNCHANGED vars
  BY <1>1, <1>2, <1>16 DEF vars
<1> QED
  BY <1>5, <1>6, <1>7, <1>8, <1>9, <1>10, <1>11, <1>12, <1>13, <1>14, <1>15, <1>16
     DEF Next, Proxy, ConnectRefused, RequestFails, ResponseFails

LEMMA QueueAppend ==
    ASSUME NEW q \in Seq(Client), NEW c \in Client, ~In(c, q), Distinct(q)
    PROVE  Distinct(Append(q, c)) /\ \A d : In(d, Append(q, c)) <=> In(d, q) \/ d = c
<1>1. PICK n \in Nat : n = Len(q) /\ DOMAIN q = 1..n
  OBVIOUS
<1>2. PICK r : r = Append(q, c)
  OBVIOUS
<1>3. r \in Seq(Client) /\ DOMAIN r = 1..(n + 1) /\ r[n + 1] = c /\ \A i \in 1..n : r[i] = q[i]
  BY <1>1, <1>2, AppendProperties
<1>4. \A d : In(d, r) <=> In(d, q) \/ d = c
  BY <1>1, <1>3 DEF In
<1>5. Distinct(r)
  <2> SUFFICES ASSUME NEW i \in 1..(n + 1), NEW j \in 1..(n + 1), r[i] = r[j] PROVE i = j
    BY <1>3 DEF Distinct
  <2>1. i \in 1..n \/ i = n + 1
    BY <1>1
  <2>2. j \in 1..n \/ j = n + 1
    BY <1>1
  <2>3. \A x \in 1..n : r[x] # c
    BY <1>1, <1>3 DEF In
  <2> QED
    BY <1>1, <1>3, <2>1, <2>2, <2>3 DEF Distinct
<1> QED
  BY <1>2, <1>4, <1>5

LEMMA QueueTail ==
    ASSUME NEW q \in Seq(Client), q # <<>>, Distinct(q)
    PROVE  /\ Head(q) \in Client /\ In(Head(q), q)
           /\ Distinct(Tail(q)) /\ \A d : In(d, Tail(q)) => In(d, q) /\ d # Head(q)
<1>1. PICK n \in Nat : n = Len(q) /\ DOMAIN q = 1..n /\ n > 0
  OBVIOUS
<1>2. PICK r \in Seq(Client) : r = Tail(q) /\ DOMAIN r = 1..(n - 1) /\ \A i \in 1..(n - 1) : r[i] = q[i + 1]
  <2>1. PICK r : r = Tail(q)
    OBVIOUS
  <2>2. r \in Seq(Client) /\ Len(r) = Len(q) - 1 /\ \A i \in 1..Len(r) : r[i] = q[i + 1]
    BY <2>1, HeadTailProperties
  <2>3. Len(r) = n - 1 /\ DOMAIN r = 1..(n - 1)
    BY <1>1, <2>2
  <2> QED
    BY <2>1, <2>2, <2>3
<1>3. Head(q) = q[1] /\ 1 \in 1..n /\ q[1] \in Client
  BY <1>1
<1>4. \A i \in 1..(n - 1) : i + 1 \in 1..n /\ i + 1 # 1
  BY <1>1
<1>5. \A d : In(d, r) => In(d, q) /\ d # Head(q)
  <2> SUFFICES ASSUME NEW d, In(d, r) PROVE In(d, q) /\ d # Head(q)
    OBVIOUS
  <2>1. PICK i \in 1..(n - 1) : r[i] = d
    BY <1>2 DEF In
  <2>2. q[i + 1] = d /\ i + 1 \in 1..n /\ i + 1 # 1
    BY <1>2, <1>4, <2>1
  <2> QED
    BY <1>1, <1>3, <2>2 DEF In, Distinct
<1>6. Distinct(r)
  <2> SUFFICES ASSUME NEW i \in 1..(n - 1), NEW j \in 1..(n - 1), r[i] = r[j] PROVE i = j
    BY <1>2 DEF Distinct
  <2>1. q[i + 1] = q[j + 1] /\ i + 1 \in 1..n /\ j + 1 \in 1..n
    BY <1>2, <1>4
  <2>2. i + 1 = j + 1
    BY <1>1, <2>1 DEF Distinct
  <2> QED
    BY <2>2
<1>7. In(Head(q), q)
  BY <1>1, <1>3 DEF In
<1> QED
  BY <1>2, <1>3, <1>5, <1>6, <1>7

LEMMA WaitingStep ==
    ASSUME Types, Waiting, [Next]_vars
    PROVE  Waiting'
<1> USE NoneAssumption
<1>1. /\ current \in Client \cup {None}
      /\ pc \in {"request", "response"} => current \in Client
      /\ queue \in Seq(Client)
      /\ cstate \in [Client -> {"new", "open", "sent", "gone", "closed"}]
      /\ cIn \in [Client -> Seq(Byte)] /\ toClient \in [Client -> Seq(Byte)]
  BY DEF Types, TypeOK
<1>2. /\ pc = "accept" => current = None
      /\ Distinct(queue)
      /\ \A c \in Client :
           /\ cstate[c] = "new" \/ In(c, queue) => toClient[c] = <<>> /\ cIn[c] \in {<<>>, request[c]}
           /\ cstate[c] \in {"new", "open"} => cIn[c] = <<>>
           /\ In(c, queue) => c # current /\ cstate[c] \in {"open", "sent", "gone"}
           /\ In(c, queue) /\ cstate[c] = "sent" => cIn[c] = request[c]
      /\ current # None => cstate[current] \in {"open", "sent", "gone"}
  BY DEF Waiting
<1>3. ASSUME UNCHANGED <<queue, cstate, cIn, request, toClient>>, current' \in {current, None}, pc' = "accept" => current' = None
      PROVE  Waiting'
  BY <1>1, <1>2, <1>3 DEF Waiting
<1>4. ASSUME NEW c \in Client, Connect(c)
      PROVE  Waiting'
  <2>1. /\ queue' = Append(queue, c) /\ cstate' = [cstate EXCEPT ![c] = "open"] /\ cstate[c] = "new"
        /\ UNCHANGED <<pc, current, cIn, request, toClient>>
    BY <1>4 DEF Connect
  <2>2. ~In(c, queue) /\ c # current
    BY <1>1, <1>2, <2>1
  <2>3. Distinct(queue') /\ \A d : In(d, queue') <=> In(d, queue) \/ d = c
    BY <1>1, <1>2, <2>1, <2>2, QueueAppend
  <2>4. \A d \in Client : cstate'[d] = IF d = c THEN "open" ELSE cstate[d]
    BY <1>1, <2>1
  <2> QED
    BY <1>1, <1>2, <2>1, <2>2, <2>3, <2>4 DEF Waiting
<1>5. ASSUME NEW c \in Client, SendRequest(c)
      PROVE  Waiting'
  <2>1. /\ cstate' = [cstate EXCEPT ![c] = "sent"] /\ cstate[c] = "open" /\ cIn' = [cIn EXCEPT ![c] = request[c]]
        /\ UNCHANGED <<pc, current, queue, request, toClient>>
    BY <1>5 DEF SendRequest
  <2> QED
    BY <1>1, <1>2, <2>1 DEF Waiting
<1>6. ASSUME NEW c \in Client, Disappear(c)
      PROVE  Waiting'
  <2>1. /\ cstate' = [cstate EXCEPT ![c] = "gone"] /\ cstate[c] \in {"open", "sent"}
        /\ UNCHANGED <<pc, current, queue, cIn, request, toClient>>
    BY <1>6 DEF Disappear
  <2> QED
    BY <1>1, <1>2, <2>1 DEF Waiting
<1>7. CASE Accept
  <2>1. /\ pc' = "request" /\ queue # <<>> /\ current' = Head(queue) /\ queue' = Tail(queue)
        /\ UNCHANGED <<cstate, cIn, request, toClient>>
    BY <1>7 DEF Accept
  <2>2. /\ Head(queue) \in Client /\ In(Head(queue), queue)
        /\ Distinct(queue') /\ \A d : In(d, queue') => In(d, queue) /\ d # Head(queue)
    BY <1>1, <1>2, <2>1, QueueTail
  <2> QED
    BY <1>1, <1>2, <2>1, <2>2 DEF Waiting
<1>8. CASE RelayRequest
  <2>1. PICK k, p, rest : RequestRound(k, p, rest)
    BY <1>8, RequestRounds
  <2>2. /\ cIn' = [cIn EXCEPT ![current] = rest] /\ cIn[current] # <<>> /\ pc = "request" /\ pc' \in {"request", "response"}
        /\ UNCHANGED <<current, queue, cstate, request, toClient>>
    BY <1>8, <2>1 DEF RequestRound, RelayRequest
  <2>3. current \in Client /\ cstate[current] \in {"sent", "gone"} /\ ~In(current, queue)
    <3>1. current \in Client
      BY <1>1, <2>2
    <3>2. current # None /\ cstate[current] \in {"open", "sent", "gone"}
      BY <1>2, <3>1
    <3>3. cstate[current] # "open" /\ ~In(current, queue)
      BY <1>2, <2>2, <3>1
    <3> QED
      BY <3>1, <3>2, <3>3
  <2>4. \A d \in Client : cIn'[d] = IF d = current THEN rest ELSE cIn[d]
    BY <1>1, <2>2
  <2> QED
    BY <1>1, <1>2, <2>2, <2>3, <2>4 DEF Waiting
<1>9. ASSUME NEW done, FinishOrGoOn(done), pc = "response", UNCHANGED <<queue, cIn, request>>,
             \A d \in Client : d # current => toClient'[d] = toClient[d]
      PROVE  Waiting'
  <2>1. current \in Client /\ ~In(current, queue) /\ cstate[current] \in {"open", "sent", "gone"}
    <3>1. current \in Client
      BY <1>1, <1>9
    <3>2. current # None /\ cstate[current] \in {"open", "sent", "gone"}
      BY <1>2, <3>1
    <3>3. ~In(current, queue)
      BY <1>2, <3>1
    <3> QED
      BY <3>1, <3>2, <3>3
  <2>2. CASE done
    <3>1. pc' = "accept" /\ current' = None
          /\ \A d \in Client : cstate'[d] = IF d = current /\ cstate[d] # "gone" THEN "closed" ELSE cstate[d]
      BY <1>1, <1>9, <2>2 DEF FinishOrGoOn
    <3> QED
      BY <1>1, <1>2, <1>9, <2>1, <3>1 DEF Waiting
  <2>3. CASE ~done
    <3>1. UNCHANGED <<pc, current, cstate>>
      BY <1>9, <2>3 DEF FinishOrGoOn
    <3> QED
      BY <1>1, <1>2, <1>9, <2>1, <3>1 DEF Waiting
  <2> QED
    BY <2>2, <2>3
<1>10. CASE RelayResponse
  <2>1. PICK k, p, rest : ResponseRound(k, p, rest) /\ FinishOrGoOn(st'.done)
    BY <1>10, ResponseRounds
  <2>2. /\ toClient' = [toClient EXCEPT ![current] = @ \o p] /\ pc = "response" /\ UNCHANGED <<queue, cIn, request>>
    BY <1>10, <2>1 DEF ResponseRound, RelayResponse
  <2>3. \A d \in Client : d # current => toClient'[d] = toClient[d]
    BY <1>1, <2>2
  <2> QED
    BY <1>9, <2>1, <2>2, <2>3
<1>11. CASE RelayNothing
  BY <1>9, <1>11 DEF RelayNothing
<1>12. CASE UNCHANGED vars \/ Respond \/ HangUp \/ Fatal
  BY <1>2, <1>3, <1>12 DEF vars, Respond, HangUp, Fatal
<1>13. CASE RequestEnds
  BY <1>2, <1>3, <1>12, <1>13 DEF RequestEnds
<1> QED
  BY <1>4, <1>5, <1>6, <1>7, <1>8, <1>10, <1>11, <1>12, <1>13
     DEF Next, Proxy, ConnectRefused, RequestFails, ResponseFails

LEMMA NoneRead ==
    ASSUME NEW u \in Seq(Byte), NEW v \in Seq(Byte)
    PROVE  /\ u \o v = u <=> v = <<>>
           /\ u \o v = <<>> <=> u = <<>> /\ v = <<>>
           /\ u \o <<>> = u /\ <<>> \o u = u
BY ConcatEqualIffEmpty, ConcatEmptySeq

LEMMA StreamsStep ==
    ASSUME Types, Types', Waiting, Streams, [Next]_vars
    PROVE  Streams'
<1> USE NoneAssumption
<1>1. /\ current \in Client \cup {None}
      /\ pc \in {"request", "response"} => current \in Client
      /\ queue \in Seq(Client)
      /\ cstate \in [Client -> {"new", "open", "sent", "gone", "closed"}]
      /\ cIn \in [Client -> Seq(Byte)] /\ toClient \in [Client -> Seq(Byte)]
      /\ sent \in Seq(Byte) /\ sIn \in Seq(Byte)
      /\ \A c \in Client : request[c] \in Seq(Byte) /\ request[c] # <<>>
  BY MessagesAre DEF Types, TypeOK
<1>2. current # None =>
        /\ sent \o cIn[current] \in {<<>>, request[current]}
        /\ cstate[current] = "open" => sent = <<>>
        /\ cstate[current] = "sent" => sent \o cIn[current] = request[current]
        /\ pc = "request" => toClient[current] = <<>>
        /\ answered = <<>> => sIn = <<>> /\ toClient[current] = <<>>
        /\ answered # <<>> => sent = request[current] /\ Begins(toClient[current], sIn, answered)
  BY DEF Streams
<1>3. /\ pc = "accept" => current = None
      /\ Distinct(queue)
      /\ \A c \in Client :
           /\ cstate[c] = "new" \/ In(c, queue) => toClient[c] = <<>> /\ cIn[c] \in {<<>>, request[c]}
           /\ cstate[c] \in {"new", "open"} => cIn[c] = <<>>
           /\ In(c, queue) => c # current /\ cstate[c] \in {"open", "sent", "gone"}
           /\ In(c, queue) /\ cstate[c] = "sent" => cIn[c] = request[c]
      /\ current # None => cstate[current] \in {"open", "sent", "gone"}
  BY DEF Waiting
<1>4. ASSUME UNCHANGED <<current, cIn, request, sent, sIn, answered, toClient>>, pc' = "request" => pc = "request",
             current # None => cstate'[current] \in {cstate[current], "gone"}
      PROVE  Streams'
  BY <1>2, <1>4 DEF Streams
<1>5. ASSUME NEW c \in Client, Connect(c)
      PROVE  Streams'
  <2>1. c # current /\ cstate' = [cstate EXCEPT ![c] = "open"]
        /\ UNCHANGED <<pc, current, cIn, request, sent, sIn, answered, toClient>>
    BY <1>1, <1>3, <1>5 DEF Connect, connection
  <2>2. current # None => cstate'[current] = cstate[current]
    BY <1>1, <2>1
  <2> QED
    BY <1>4, <2>1, <2>2
<1>6. ASSUME NEW c \in Client, SendRequest(c)
      PROVE  Streams'
  <2>1. /\ cstate' = [cstate EXCEPT ![c] = "sent"] /\ cstate[c] = "open" /\ cIn' = [cIn EXCEPT ![c] = request[c]]
        /\ UNCHANGED <<pc, current, request, sent, sIn, answered, toClient>>
    BY <1>6 DEF SendRequest, connection
  <2>2. CASE c = current
    <3>1. cIn'[current] = request[current] /\ cstate'[current] = "sent" /\ sent = <<>>
      BY <1>1, <1>2, <2>1, <2>2
    <3>2. sent \o cIn'[current] = request[current]
      BY <1>1, <2>2, <3>1, NoneRead
    <3> QED
      BY <1>2, <2>1, <3>1, <3>2 DEF Streams
  <2>3. CASE c # current
    <3>1. current # None => cIn'[current] = cIn[current] /\ cstate'[current] = cstate[current]
      BY <1>1, <2>1, <2>3
    <3> QED
      BY <1>2, <2>1, <3>1 DEF Streams
  <2> QED
    BY <2>2, <2>3
<1>7. ASSUME NEW c \in Client, Disappear(c)
      PROVE  Streams'
  <2>1. /\ cstate' = [cstate EXCEPT ![c] = "gone"]
        /\ UNCHANGED <<pc, current, cIn, request, sent, sIn, answered, toClient>>
    BY <1>7 DEF Disappear, connection
  <2>2. current # None => cstate'[current] \in {cstate[current], "gone"}
    BY <1>1, <2>1
  <2> QED
    BY <1>4, <2>1, <2>2
<1>8. CASE Respond
  <2>1. /\ current # None /\ answered = <<>> /\ sent = request[current]
        /\ answered' \in Responses /\ sIn' = answered'
        /\ UNCHANGED <<pc, current, cstate, cIn, request, sent, toClient>>
    BY <1>8 DEF Respond
  <2>2. answered' \in Seq(Byte) /\ answered' # <<>>
    BY <2>1, MessagesAre
  <2>3. toClient[current] = <<>>
    BY <1>2, <2>1
  <2>4. Begins(toClient[current], sIn', answered')
    <3>1. PICK lost \in Seq(Byte) : lost = <<>>
      BY EmptySeq
    <3>2. toClient[current] \o (sIn' \o lost) = answered'
      BY <2>1, <2>2, <2>3, <3>1, NoneRead
    <3> QED
      BY <3>2 DEF Begins, Joined
  <2> QED
    BY <1>2, <2>1, <2>2, <2>4 DEF Streams
<1>9. CASE Accept
  <2>1. /\ queue # <<>> /\ current' = Head(queue) /\ sent' = <<>> /\ sIn' = <<>> /\ answered' = <<>>
        /\ UNCHANGED <<cstate, cIn, request, toClient>>
    BY <1>9 DEF Accept
  <2>2. PICK c \in Client : c = Head(queue) /\ In(c, queue)
    BY <1>1, <1>3, <2>1, QueueTail
  <2>3. /\ toClient[c] = <<>> /\ cIn[c] \in {<<>>, request[c]} /\ (cstate[c] = "sent" => cIn[c] = request[c])
    BY <1>3, <2>2
  <2>4. <<>> \o cIn[c] = cIn[c]
    BY <1>1, NoneRead
  <2> QED
    BY <2>1, <2>2, <2>3, <2>4 DEF Streams
<1>10. CASE RelayRequest
  <2>1. PICK k, p, rest : RequestRound(k, p, rest) /\ p \in Seq(Byte) /\ rest \in Seq(Byte)
    BY <1>10, RequestRounds
  <2>2. /\ cIn' = [cIn EXCEPT ![current] = rest] /\ cIn[current] # <<>> /\ pc = "request"
        /\ sent' = sent \o p /\ k \in 1..Len(cIn[current]) /\ CutOff(cIn[current], k, p, rest)
        /\ UNCHANGED <<current, cstate, request, sIn, answered, toClient>>
    BY <1>10, <2>1 DEF RequestRound, RelayRequest
  <2>3. current \in Client /\ current # None
    BY <1>1, <2>2
  <2>4. cstate[current] # "open"
    BY <1>3, <2>2, <2>3
  <2>a. sent \in Seq(Byte) /\ cIn[current] \in Seq(Byte) /\ cIn[current] # <<>>
    BY <1>1, <2>2, <2>3
  <2>b. sent \o cIn[current] # <<>> /\ sent \o cIn[current] # sent
    BY <2>a, NoneRead
  <2>5. sent \o cIn[current] = request[current]
    BY <1>2, <2>3, <2>b
  <2>6. answered = <<>>
    BY <1>2, <2>3, <2>5, <2>b
  <2>7. (sent \o p) \o rest = request[current]
    <3>1. p \o rest = cIn[current]
      <4>1. CutOff(cIn[current], k, p, rest) /\ k \in 1..Len(cIn[current])
        BY <2>2
      <4>2. Joined(p, rest, cIn[current])
        BY <2>a, <4>1, CutOffIs
      <4> QED
        BY <4>2 DEF Joined
    <3>2. (sent \o p) \o rest = sent \o (p \o rest)
      BY <2>1, <2>a, Regroup
    <3> QED
      BY <2>5, <3>1, <3>2
  <2>8. cIn'[current] = rest
    BY <1>1, <2>2, <2>3
  <2> QED
    BY <1>2, <2>2, <2>3, <2>4, <2>6, <2>7, <2>8 DEF Streams
<1>11. ASSUME NEW done, FinishOrGoOn(done), pc = "response", UNCHANGED <<cIn, request, sent, answered>>,
              answered = <<>> => sIn' = <<>> /\ toClient'[current] = <<>>,
              answered # <<>> => Begins(toClient'[current], sIn', answered)
       PROVE  Streams'
  <2>1. CASE done
    <3>1. current' = None
      BY <1>11, <2>1 DEF FinishOrGoOn
    <3> QED
      BY <3>1 DEF Streams
  <2>2. CASE ~done
    <3>1. UNCHANGED <<pc, current, cstate>>
      BY <1>11, <2>2 DEF FinishOrGoOn
    <3> QED
      BY <1>2, <1>11, <3>1 DEF Streams
  <2> QED
    BY <2>1, <2>2
<1>12. CASE RelayResponse
  <2>1. PICK k, p, rest : ResponseRound(k, p, rest) /\ FinishOrGoOn(st'.done) /\ p \in Seq(Byte) /\ rest \in Seq(Byte)
    BY <1>12, ResponseRounds
  <2>2. /\ toClient' = [toClient EXCEPT ![current] = @ \o p] /\ pc = "response" /\ sIn' = rest /\ sIn # <<>>
        /\ k \in 1..Len(sIn) /\ CutOff(sIn, k, p, rest)
        /\ UNCHANGED <<cIn, request, sent, answered>>
    BY <1>12, <2>1 DEF ResponseRound, RelayResponse
  <2>3. current \in Client /\ current # None
    BY <1>1, <2>2
  <2>4. answered # <<>> /\ Begins(toClient[current], sIn, answered)
    BY <1>2, <2>2, <2>3
  <2>5. Begins(toClient[current] \o p, rest, answered)
    <3>1. PICK lost \in Seq(Byte) : toClient[current] \o (sIn \o lost) = answered
      BY <2>4 DEF Begins, Joined
    <3>2. p \o rest = sIn
      <4>1. sIn \in Seq(Byte)
        BY <1>1
      <4>2. Joined(p, rest, sIn)
        BY <2>2, <4>1, CutOffIs
      <4> QED
        BY <4>2 DEF Joined
    <3>3. toClient[current] \o (p \o (rest \o lost)) = answered
      <4>1. (p \o rest) \o lost = p \o (rest \o lost)
        BY <2>1, Regroup
      <4> QED
        BY <3>1, <3>2, <4>1
    <3>4. rest \o lost \in Seq(Byte)
      BY <2>1, ConcatProperties
    <3>5. (toClient[current] \o p) \o (rest \o lost) = toClient[current] \o (p \o (rest \o lost))
      <4>1. toClient[current] \in Seq(Byte)
        BY <1>1, <2>3
      <4> QED
        BY <2>1, <3>4, <4>1, Regroup
    <3> QED
      BY <3>3, <3>5 DEF Begins, Joined
  <2>6. toClient'[current] = toClient[current] \o p
    BY <1>1, <2>2, <2>3
  <2> QED
    BY <1>11, <2>1, <2>2, <2>4, <2>5, <2>6
<1>13. CASE RelayNothing
  <2>1. pc = "response" /\ FinishOrGoOn(st'.done) /\ UNCHANGED <<cIn, request, sent, sIn, answered, toClient>>
    BY <1>13 DEF RelayNothing
  <2>2. current # None
    BY <1>1, <2>1
  <2> QED
    BY <1>2, <1>11, <2>1, <2>2
<1>14. CASE UNCHANGED vars \/ Fatal
  BY <1>4, <1>14 DEF vars, Fatal, connection
<1>15. CASE RequestEnds
  BY <1>4, <1>14, <1>15 DEF RequestEnds, connection
<1>16. CASE HangUp
  <2>1. current # None /\ UNCHANGED <<pc, current, cstate, cIn, request, sent, answered, toClient>>
    BY <1>16 DEF HangUp
  <2>2. PICK k \in 0..Len(sIn) : sIn' = SubSeq(sIn, 1, k)
    BY <1>16 DEF HangUp
  <2>3. PICK p : p = sIn'
    OBVIOUS
  <2>4. PICK rest \in Seq(Byte) : p \o rest = sIn
    BY <1>1, <2>2, <2>3, ReceivedPart DEF Joined
  <2>5. p \in Seq(Byte)
    BY <1>1, <2>2, <2>3, ReceivedPart
  <2>6. answered = <<>> => sIn' = <<>>
    <3> SUFFICES ASSUME answered = <<>> PROVE sIn' = <<>>
      OBVIOUS
    <3>1. p \o rest = <<>>
      BY <1>2, <2>1, <2>4
    <3> QED
      BY <2>3, <2>5, <3>1, NoneRead
  <2>7. answered # <<>> => Begins(toClient[current], sIn', answered)
    <3> SUFFICES ASSUME answered # <<>> PROVE Begins(toClient[current], p, answered)
      BY <2>3
    <3>1. PICK lost \in Seq(Byte) : toClient[current] \o (sIn \o lost) = answered
      BY <1>2, <2>1 DEF Begins, Joined
    <3>2. sIn \o lost = p \o (rest \o lost) /\ rest \o lost \in Seq(Byte)
      <4>1. (p \o rest) \o lost = p \o (rest \o lost)
        BY <2>5, Regroup
      <4>2. rest \o lost \in Seq(Byte)
        BY ConcatProperties
      <4> QED
        BY <2>4, <4>1, <4>2
    <3>3. toClient[current] \o (p \o (rest \o lost)) = answered
      BY <3>1, <3>2
    <3> QED
      BY <3>2, <3>3 DEF Begins, Joined
  <2> QED
    BY <1>2, <2>1, <2>6, <2>7 DEF Streams
<1> QED
  BY <1>5, <1>6, <1>7, <1>8, <1>9, <1>10, <1>12, <1>13, <1>14, <1>15, <1>16
     DEF Next, Proxy, ConnectRefused, RequestFails, ResponseFails

LEMMA LastReadStep ==
    ASSUME Types, Types', Waiting, Streams, LastRead, [Next]_vars
    PROVE  LastRead'
<1> USE NoneAssumption
<1>1. /\ current \in Client \cup {None}
      /\ pc \in {"request", "response"} => current \in Client
      /\ toClient \in [Client -> Seq(Byte)] /\ sent \in Seq(Byte)
  BY DEF Types, TypeOK
<1>2. ASSUME UNCHANGED <<current, sent, toClient, st>>
      PROVE  LastRead'
  BY <1>2 DEF LastRead, Received
<1>3. CASE Accept
  <2>1. st'.line = <<>>
    BY <1>3, MessagesAre DEF Accept
  <2> QED
    BY <2>1 DEF LastRead
<1>4. ASSUME NEW q \in Seq(Byte), NEW p \in Seq(Byte), p # <<>>, Closes(st'.line, p),
             Received' = q \o p
      PROVE  LastRead'
  <2>1. PICK w : w = q \o p
    OBVIOUS
  <2>2. /\ w \in Seq(Byte) /\ Len(w) = Len(q) + Len(p)
        /\ \A x \in 1..Len(p) : w[Len(q) + x] = p[x]
    <3>1. Joined(q, p, w)
      BY <2>1 DEF Joined
    <3> QED
      BY <3>1, JoinedIs
  <2>3. Len(p) \in 1..Len(p) /\ Len(q) \in Nat /\ Len(p) > 0 /\ Len(p) \in Nat
    BY <1>4
  <2>4. w[Len(w)] = p[Len(p)] /\ Len(w) > 0 /\ w # <<>>
    BY <2>2, <2>3
  <2>5. st'.line # <<>> => EndsWith(w, st'.line[Len(st'.line)])
    BY <1>4, <2>4 DEF Closes, EndsWith
  <2>6. Received' = w
    BY <1>4, <2>1
  <2> QED
    BY <2>4, <2>5, <2>6 DEF LastRead
<1>5. CASE RelayRequest
  <2>1. PICK k, p, rest : RequestRound(k, p, rest) /\ p \in Seq(Byte) /\ p # <<>> /\ Closes(st'.line, p)
    BY <1>5, RequestRounds
  <2>2. sent' = sent \o p /\ pc = "request" /\ UNCHANGED <<current, toClient>>
    BY <1>5, <2>1 DEF RequestRound, RelayRequest
  <2>3. toClient[current] = <<>>
    BY <1>1, <2>2 DEF Streams
  <2>4. Received' = sent \o p
    BY <2>2, <2>3 DEF Received
  <2> QED
    BY <1>1, <1>4, <2>1, <2>4
<1>6. CASE RelayResponse
  <2>1. PICK k, p, rest : /\ ResponseRound(k, p, rest) /\ FinishOrGoOn(st'.done)
                          /\ p \in Seq(Byte) /\ p # <<>> /\ Closes(st'.line, p)
    BY <1>6, ResponseRounds
  <2>2. toClient' = [toClient EXCEPT ![current] = @ \o p] /\ pc = "response"
    BY <1>6, <2>1 DEF ResponseRound, RelayResponse
  <2>3. current \in Client
    BY <1>1, <2>2
  <2>4. current' \in {None, current}
    BY <2>1 DEF FinishOrGoOn
  <2>5. CASE current' = None
    BY <2>5 DEF LastRead
  <2>6. CASE current' = current
    <3>1. toClient'[current] = toClient[current] \o p /\ toClient[current] \in Seq(Byte)
      BY <1>1, <2>2, <2>3
    <3>2. toClient[current] \o p # <<>>
      BY <2>1, <3>1, NoneRead
    <3>3. Received' = toClient[current] \o p
      BY <2>6, <3>1, <3>2 DEF Received
    <3> QED
      BY <1>4, <2>1, <3>1, <3>3
  <2> QED
    BY <2>4, <2>5, <2>6
<1>7. CASE RelayNothing
  <2>1. /\ ~Panics(<<>>, st) /\ st' = StreamInHTTPMessage(<<>>, st) /\ FinishOrGoOn(st'.done)
        /\ UNCHANGED <<sent, toClient>>
    BY <1>7 DEF RelayNothing
  <2>2. st'.line \in {<<>>, st.line}
    <3>1. <<>> \in Seq(Byte) /\ st \in Parser
      BY EmptySeq DEF Types
    <3> QED
      BY <2>1, <3>1, MessageTypes
  <2>3. current' \in {None, current}
    BY <2>1 DEF FinishOrGoOn
  <2> QED
    BY <2>1, <2>2, <2>3 DEF LastRead, Received
<1>8. CASE UNCHANGED vars \/ Respond \/ HangUp \/ Fatal
  BY <1>2, <1>8 DEF vars, Respond, HangUp, Fatal, connection
<1>9. CASE RequestEnds
  BY <1>2, <1>8, <1>9 DEF RequestEnds, connection
<1>10. ASSUME NEW c \in Client, Connect(c) \/ SendRequest(c) \/ Disappear(c)
       PROVE  LastRead'
  BY <1>2, <1>10 DEF Connect, SendRequest, Disappear, connection
<1> QED
  BY <1>3, <1>5, <1>6, <1>7, <1>8, <1>9, <1>10
     DEF Next, Proxy, ConnectRefused, RequestFails, ResponseFails

LEMMA FatalStep ==
    ASSUME Types, Waiting, Streams, LastRead, FatalCauses, [Next]_vars
    PROVE  FatalCauses'
<1> USE NoneAssumption
<1>1. /\ current \in Client \cup {None}
      /\ pc \in {"request", "response"} => current \in Client
      /\ cstate \in [Client -> {"new", "open", "sent", "gone", "closed"}]
      /\ cIn \in [Client -> Seq(Byte)] /\ toClient \in [Client -> Seq(Byte)]
      /\ sent \in Seq(Byte) /\ st \in Parser
  BY DEF Types, TypeOK
<1>2. ASSUME UNCHANGED <<pc, current, sent, request, toClient>>,
             current # None /\ cstate[current] = "gone" => cstate'[current] = "gone",
             pc # "fatal" \/ UNCHANGED server
      PROVE  FatalCauses'
  <2>1. server = "closed" /\ EndsWith(Received, "cr") /\ UNCHANGED server
           => server' = "closed" /\ EndsWith(Received, "cr")'
    BY <1>2 DEF Received
  <2> QED
    BY <1>2, <2>1 DEF FatalCauses
<1>3. ASSUME NEW c \in Client, Connect(c) \/ SendRequest(c) \/ Disappear(c)
      PROVE  FatalCauses'
  <2>1. UNCHANGED <<pc, current, sent, request, toClient, server>>
    BY <1>3 DEF Connect, SendRequest, Disappear, connection
  <2>2. current # None /\ cstate[current] = "gone" => cstate'[current] = "gone"
    BY <1>1, <1>3 DEF Connect, SendRequest, Disappear
  <2> QED
    BY <1>2, <2>1, <2>2
<1>4. CASE UNCHANGED vars \/ Respond \/ HangUp
  BY <1>2, <1>4 DEF vars, Respond, HangUp
<1>5. ASSUME pc' # "fatal" PROVE FatalCauses'
  BY <1>5 DEF FatalCauses
<1>6. CASE ConnectRefused
  BY <1>6 DEF ConnectRefused, Fatal, Waiting, FatalCauses
<1>7. CASE RequestFails
  BY <1>7 DEF RequestFails, Fatal, connection, FatalCauses
<1>8. CASE ResponseFails
  <2>1. current \in Client /\ UNCHANGED <<current, cstate, sent, request, server, toClient>>
    BY <1>1, <1>8 DEF ResponseFails, Fatal, connection
  <2>2. CASE cstate[current] = "gone"
    BY <2>1, <2>2 DEF FatalCauses
  <2>3. CASE server = "closed" /\ Panics(<<>>, st)
    <3>1. Len(st.line) > 0 /\ st.line[Len(st.line)] = "cr"
      BY <2>3 DEF Panics, EndsWith
    <3>2. st.line # <<>>
      BY <3>1
    <3>3. EndsWith(Received, "cr")
      BY <2>1, <3>1, <3>2 DEF LastRead
    <3>4. EndsWith(Received, "cr")'
      BY <2>1, <3>3 DEF Received
    <3> QED
      BY <2>1, <2>3, <3>4 DEF FatalCauses
  <2>4. CASE server = "reset"
    BY <2>1, <2>4 DEF FatalCauses
  <2> QED
    BY <1>8, <2>2, <2>3, <2>4 DEF ResponseFails
<1>9. CASE RequestEnds
  <2>1. CASE Fatal
    <3>1. cstate[current] = "gone" /\ UNCHANGED <<current, cstate>>
      BY <1>9, <2>1 DEF RequestEnds, Fatal
    <3> QED
      BY <3>1 DEF FatalCauses
  <2>2. CASE ~Fatal
    BY <1>5, <1>9, <2>2 DEF RequestEnds
  <2> QED
    BY <2>1, <2>2
<1>10. CASE Accept \/ RelayRequest
  BY <1>5, <1>10 DEF Accept, RelayRequest
<1>11. CASE RelayResponse \/ RelayNothing
  <2>1. pc = "response" /\ FinishOrGoOn(st'.done)
    BY <1>11 DEF RelayResponse, RelayNothing
  <2> QED
    BY <1>5, <2>1 DEF FinishOrGoOn
<1> QED
  BY <1>3, <1>4, <1>6, <1>7, <1>8, <1>9, <1>10, <1>11 DEF Next, Proxy

\* Without a body the message ends with its head.
LEMMA Bodyless ==
    ASSUME NEW m, WellFormed(m), ~HasBody(m), NEW s \in Parser, NEW null \in BOOLEAN, Parsed(m, Len(m), s, null)
    PROVE  s.line = <<>> /\ s.cl = 0 /\ s.rcl = 0
<1>1. m \in Seq(Byte) /\ HeadEnd(m) \in 2..Len(m) /\ Len(m) = HeadEnd(m) + BodyLength(m) /\ Len(m) \in Nat
      /\ Headers(m) \subseteq Nat
  BY MessageIs
<1>2. Headers(m) = {}
  <2> SUFFICES ASSUME NEW i \in Headers(m) PROVE FALSE
    OBVIOUS
  <2>1. i \in Nat /\ i < HeadEnd(m) /\ m[i + 1] \in DOMAIN Announced
    BY <1>1 DEF Headers
  <2>2. i + 1 \in DOMAIN m
    BY <1>1, <2>1
  <2> QED
    BY <2>1, <2>2 DEF HasBody
<1>3. BodyLength(m) = 0
  BY <1>2 DEF BodyLength
<1>4. PICK h \in Nat : h = HeadEnd(m) /\ h = Len(m)
  BY <1>1, <1>3
<1>5. InHead(m, h, s, null)
  BY <1>4 DEF Parsed
<1>6. InBody(m, h, s) /\ s.line = <<>>
  BY <1>4, <1>5, HeadToBody
<1>7. s.cl = 0 /\ s.rcl = h - h
  BY <1>3, <1>4, <1>6 DEF InBody
<1> QED
  BY <1>4, <1>6, <1>7

\* An empty packet after a message that ended a line.
LEMMA EmptyPacket ==
    ASSUME NEW s \in Parser, s.line = <<>>, s.cl = 0, s.rcl = 0
    PROVE  LET r == StreamInHTTPMessage(<<>>, s)
           IN  r.line = <<>> /\ r.cl = 0 /\ r.rcl = 0
<1>1. PICK p \in Seq(Byte) : p = <<>> /\ Len(p) = 0
  BY EmptySeq
<1>2. ~InContent(s) /\ ~SplitCRLF(p, s)
  BY DEF InContent, SplitCRLF, EndsWith
<1>3. StreamInHTTPMessage(p, s) = StreamLines(p, s)
  BY <1>2 DEF StreamInHTTPMessage
<1>4. After(p, s)[0] = s
  BY AfterIs
<1>5. \A i \in 0..Len(p) : ~InContent(After(p, s)[i])
  <2>1. \A i \in 0..Len(p) : i = 0
    BY <1>1
  <2> QED
    BY <1>2, <1>4, <2>1
<1>6. StreamLines(p, s).line = s.line /\ StreamLines(p, s).cl = s.cl /\ StreamLines(p, s).rcl = s.rcl
  <2>1. PICK e : e = After(p, s)[Len(p)]
    OBVIOUS
  <2>2. StreamLines(p, s).line = e.line /\ StreamLines(p, s).cl = e.cl /\ StreamLines(p, s).rcl = e.rcl
    BY <1>5, <2>1, StreamLinesIs
  <2>3. e = s
    BY <1>1, <1>4, <2>1
  <2> QED
    BY <2>2, <2>3
<1> QED
  BY <1>1, <1>3, <1>6

\* A packet of the response to a request without a body, after a good first one.
LEMMA ResponseParsed ==
    ASSUME Types, Streams, Parsing, RelayResponse,
           ~packets'.crlf, ~packets'.first, sent = request[current], ~HasBody(sent)
    PROVE  LET got == toClient'[current]
           IN  /\ got # <<>> /\ LineStart(answered, Len(got)) # 0
               /\ sIn' # <<>> => Between(answered, Len(got))
               /\ Parsed(answered, Len(got), st', TRUE)
               /\ st'.done <=> got = answered
<1>1. pc = "response" /\ sIn # <<>> /\ sIn \in Seq(Byte) /\ current \in Client /\ current # None
      /\ toClient \in [Client -> Seq(Byte)] /\ st \in Parser
  BY NoneAssumption DEF RelayResponse, Types, TypeOK
<1>2. PICK k, p, rest : ResponseRound(k, p, rest)
  BY ResponseRounds
<1>3. /\ toClient' = [toClient EXCEPT ![current] = @ \o p] /\ st' = StreamInHTTPMessage(p, st)
      /\ packets' = Cut(p, rest) /\ k \in 1..Len(sIn) /\ CutOff(sIn, k, p, rest) /\ sIn' = rest
  BY <1>2 DEF ResponseRound
<1>4. PICK a : a = answered
  OBVIOUS
<1>5. PICK done \in Seq(Byte) : done = toClient[current]
  BY <1>1
<1>6. WellFormed(a) /\ a \in Seq(Byte) /\ \E lost \in Seq(Byte) : Joined(done, sIn \o lost, a)
  <2>1. answered # <<>> /\ Begins(toClient[current], sIn, answered)
    BY <1>1 DEF Streams
  <2>2. answered \in Responses
    BY <2>1 DEF Types
  <2> QED
    BY <1>4, <1>5, <2>1, <2>2, MessagesAre DEF Begins
<1>7. /\ p \in Seq(Byte) /\ done \o p # <<>> /\ Len(done \o p) = Len(done) + k
      /\ Between(a, Len(done)) => Packet(a, Len(done), Len(done) + k, p)
      /\ done \o p = a <=> Len(done) + k = Len(a)
      /\ ~(EndsWith(p, "cr") /\ rest # <<>> /\ Head(rest) = "lf") /\ rest # <<>> => Between(a, Len(done) + k)
  <2>1. PICK lost \in Seq(Byte) : Joined(done, sIn \o lost, a)
    BY <1>6
  <2>2. \E todo \in Seq(Byte) : \E left : /\ todo = sIn \o lost /\ left = rest \o lost
                                          /\ k \in 1..Len(todo) /\ CutOff(todo, k, p, left)
    BY <1>1, <1>3, CutOffWhole
  <2>a. PICK todo \in Seq(Byte) : \E left : /\ todo = sIn \o lost /\ left = rest \o lost
                                            /\ k \in 1..Len(todo) /\ CutOff(todo, k, p, left)
    BY <2>2
  <2>b. PICK left : /\ todo = sIn \o lost /\ left = rest \o lost
                    /\ k \in 1..Len(todo) /\ CutOff(todo, k, p, left)
    BY <2>a
  <2>c. a \in Seq(Byte)
    BY <1>6
  <2>3. Joined(done, todo, a) /\ k \in 1..Len(todo) /\ CutOff(todo, k, p, left)
    BY <2>1, <2>b
  <2>4. /\ p \in Seq(Byte) /\ done \o p # <<>> /\ Len(done \o p) = Len(done) + k
        /\ Between(a, Len(done)) => Packet(a, Len(done), Len(done) + k, p)
        /\ done \o p = a <=> Len(done) + k = Len(a)
        /\ ~(EndsWith(p, "cr") /\ left # <<>> /\ Head(left) = "lf") => Between(a, Len(done) + k)
    BY <2>3, <2>c, Relayed
  <2>5. rest # <<>> => Head(left) = Head(rest)
    <3> SUFFICES ASSUME rest # <<>> PROVE Head(left) = Head(rest)
      OBVIOUS
    <3>1. rest \in Seq(Byte)
      BY <1>1, <1>3, CutOffIs
    <3>2. Joined(rest, lost, left)
      BY <2>b DEF Joined
    <3>3. left \in Seq(Byte) /\ Len(left) = Len(rest) + Len(lost) /\ \A x \in 1..Len(rest) : left[x] = rest[x]
      BY <3>1, <3>2, JoinedIs
    <3>4. 1 \in 1..Len(rest) /\ Len(left) > 0
      BY <3>1, <3>3
    <3>5. left[1] = rest[1] /\ left # <<>>
      BY <3>3, <3>4
    <3> QED
      BY <3>1, <3>3, <3>5
  <2> QED
    BY <2>4, <2>5
<1>8. /\ packets'.crlf = (packets.crlf \/ (EndsWith(p, "cr") /\ rest # <<>> /\ Head(rest) = "lf"))
      /\ packets'.first = (packets.first \/ (pc = "response" /\ toClient[current] = <<>> /\ LineEnds(p) = {}))
  BY <1>3 DEF Cut
<1>9. /\ ~packets.crlf /\ ~packets.first /\ ~(EndsWith(p, "cr") /\ rest # <<>> /\ Head(rest) = "lf")
      /\ done = <<>> => LineEnds(p) # {}
  BY <1>1, <1>5, <1>8
<1>10. IF done = <<>>
       THEN st.line = <<>> /\ st.cl = 0 /\ st.rcl = 0
       ELSE /\ Between(a, Len(done)) /\ LineStart(a, Len(done)) # 0
            /\ Parsed(a, Len(done), st, TRUE)
  BY <1>1, <1>4, <1>5, <1>9 DEF Parsing
<1>11. PICK d \in Nat : d = Len(done)
  OBVIOUS
<1>12. PICK e \in Nat : e = d + k
  BY <1>3, <1>11
<1>13. PICK null \in BOOLEAN : /\ Between(a, d) /\ Parsed(a, d, st, null)
                               /\ LineStart(a, d) # 0 \/ LineEnds(p) # {}
  <2>1. CASE done = <<>>
    <3>1. Parsed(a, 0, st, st.null) /\ Between(a, 0) /\ st.null \in BOOLEAN
      BY <1>1, <1>6, <1>10, <2>1, NothingParsed, Fields
    <3>2. d = 0
      BY <1>11, <2>1
    <3> QED
      BY <1>9, <2>1, <3>1, <3>2
  <2>2. CASE done # <<>>
    BY <1>10, <1>11, <2>2
  <2> QED
    BY <2>1, <2>2
<1>14. Packet(a, d, e, p)
  BY <1>7, <1>11, <1>12, <1>13
<1>15. LineStart(a, e) # 0
  BY <1>6, <1>13, <1>14, LineStartGrows
<1>16. Parsed(a, e, st', null) /\ Verdict(a, e, st', null)
  <2>1. Parsed(a, e, StreamInHTTPMessage(p, st), null) /\ Verdict(a, e, StreamInHTTPMessage(p, st), null)
    BY <1>1, <1>6, <1>13, <1>14, PacketParsed
  <2> QED
    BY <1>3, <2>1
<1>17. Parsed(a, e, st', TRUE) /\ (st'.done <=> e = Len(a))
  BY <1>15, <1>16, FlagForgotten DEF Verdict
<1>18. toClient'[current] = done \o p
  BY <1>1, <1>3, <1>5
<1>19. Len(done \o p) = e /\ (sIn' # <<>> => Between(a, e))
  BY <1>3, <1>7, <1>9, <1>11, <1>12
<1> QED
  BY <1>4, <1>7, <1>11, <1>12, <1>15, <1>17, <1>18, <1>19

\* A receive of 0 bytes within a response changes nothing the parser knows, and
\* does not complete the response.
LEMMA NothingInResponse ==
    ASSUME NEW a, WellFormed(a), NEW d \in Nat, d < Len(a), LineStart(a, d) # 0,
           NEW s \in Parser, NEW null \in BOOLEAN, Parsed(a, d, s, null), ~Panics(<<>>, s)
    PROVE  LET r == StreamInHTTPMessage(<<>>, s)
           IN  Parsed(a, d, r, null) /\ ~r.done
<1>1. /\ a \in Seq(Byte) /\ HeadEnd(a) \in 2..Len(a) /\ Len(a) \in Nat
      /\ BodyLength(a) \in Nat /\ Len(a) = HeadEnd(a) + BodyLength(a)
  BY MessageIs
<1>2. PICK p \in Seq(Byte) : p = <<>> /\ Len(p) = 0
  BY EmptySeq
<1>3. PICK h \in Nat : h = HeadEnd(a)
  BY <1>1
<1>4. CASE d < h
  <2>1. InHead(a, d, s, null)
    BY <1>3, <1>4 DEF Parsed
  <2>2. ~InContent(s)
    BY <1>3, <1>4, <2>1, StaysInHead
  <2>3. ~SplitCRLF(p, s)
    BY <1>2, <2>2 DEF SplitCRLF, Panics
  <2>4. StreamInHTTPMessage(p, s) = StreamLines(p, s)
    BY <2>2, <2>3 DEF StreamInHTTPMessage
  <2>5. After(p, s)[0] = s
    BY AfterIs
  <2>6. \A i \in 0..Len(p) : ~InContent(After(p, s)[i])
    <3>1. \A i \in 0..Len(p) : i = 0
      BY <1>2
    <3> QED
      BY <2>2, <2>5, <3>1
  <2>7. PICK r : r = StreamLines(p, s)
    OBVIOUS
  <2>8. /\ r.line = s.line /\ r.null = s.null /\ r.cl = s.cl /\ r.rcl = s.rcl
        /\ r.done <=> s.null /\ s.rcl = s.cl
    <3>1. PICK e : e = After(p, s)[Len(p)]
      OBVIOUS
    <3>2. /\ r.line = e.line /\ r.null = e.null /\ r.cl = e.cl /\ r.rcl = e.rcl
          /\ r.done <=> e.null /\ e.rcl = e.cl
      BY <2>6, <2>7, <3>1, StreamLinesIs
    <3>3. e = s
      BY <1>2, <2>5, <3>1
    <3> QED
      BY <3>2, <3>3
  <2>9. InHead(a, d, r, null)
    BY <2>1, <2>8 DEF InHead
  <2>10. ~s.null
    <3>1. s.null = (d >= h)
      BY <1>3, <2>1 DEF InHead
    <3>2. (d >= h) = FALSE
      BY <1>4
    <3> QED
      BY <3>1, <3>2
  <2> QED
    BY <1>2, <1>3, <1>4, <2>4, <2>7, <2>8, <2>9, <2>10 DEF Parsed
<1>5. CASE ~(d < h)
  <2>1. InBody(a, d, s)
    <3>1. CASE d = h
      <4>1. InHead(a, d, s, null)
        BY <1>3, <3>1 DEF Parsed
      <4> QED
        BY <1>3, <3>1, <4>1, HeadToBody
    <3>2. CASE d # h
      BY <1>3, <1>5, <3>2 DEF Parsed
    <3> QED
      BY <3>1, <3>2
  <2>2. InContent(s)
    <3>1. s.null /\ s.cl = BodyLength(a) /\ s.rcl = d - h
      BY <1>3, <2>1 DEF InBody
    <3>2. s.cl # 0 /\ s.rcl < s.cl
      BY <1>1, <1>3, <1>5, <3>1
    <3> QED
      BY <3>1, <3>2 DEF InContent
  <2>3. StreamInHTTPMessage(p, s) = StreamContent(p, s)
    BY <2>2 DEF StreamInHTTPMessage
  <2>4. Parsed(a, d, StreamContent(p, s), null) /\ Verdict(a, d, StreamContent(p, s), null)
    <3>1. HeadEnd(a) <= d /\ d <= d /\ d <= Len(a) /\ Len(p) = d - d
      BY <1>2, <1>3, <1>5
    <3> QED
      BY <2>1, <3>1, BodyParsed
  <2>5. ~StreamContent(p, s).done
    BY <1>1, <2>4 DEF Verdict
  <2> QED
    BY <1>2, <2>3, <2>4, <2>5
<1> QED
  BY <1>4, <1>5

LEMMA CutShortParsed ==
    ASSUME Types, Streams, Parsing, RelayNothing,
           ~packets.crlf, ~packets.first, sent = request[current], ~HasBody(sent), toClient[current] # <<>>
    PROVE  Parsed(answered, Len(toClient[current]), st', TRUE) /\ ~st'.done
<1>1. /\ pc = "response" /\ sIn = <<>> /\ current \in Client /\ current # None
      /\ toClient \in [Client -> Seq(Byte)] /\ st \in Parser
      /\ ~Panics(<<>>, st) /\ st' = StreamInHTTPMessage(<<>>, st)
  BY NoneAssumption DEF RelayNothing, Types, TypeOK
<1>2. PICK got \in Seq(Byte) : got = toClient[current]
  BY <1>1
<1>3. answered # <<>> /\ Begins(got, sIn, answered)
  BY <1>1, <1>2 DEF Streams
<1>4. WellFormed(answered)
  BY <1>3, MessagesAre DEF Types
<1>5. PICK lost \in Seq(Byte) : Joined(got, <<>> \o lost, answered)
  BY <1>1, <1>3 DEF Begins
<1>6. Joined(got, lost, answered)
  <2>1. <<>> \o lost = lost
    BY NoneRead
  <2> QED
    BY <1>5, <2>1
<1>7. got # answered /\ LineStart(answered, Len(got)) # 0 /\ Parsed(answered, Len(got), st, TRUE)
  BY <1>1, <1>2 DEF Parsing
<1>8. Len(got) < Len(answered)
  <2>1. Len(answered) = Len(got) + Len(lost)
    BY <1>6, JoinedIs
  <2>2. lost # <<>>
    <3> SUFFICES ASSUME lost = <<>> PROVE FALSE
      OBVIOUS
    <3> QED
      BY <1>6, <1>7, NoneRead DEF Joined
  <2>3. Len(lost) > 0
    BY <2>2
  <2> QED
    BY <2>1, <2>3
<1>9. Parsed(answered, Len(got), StreamInHTTPMessage(<<>>, st), TRUE) /\ ~StreamInHTTPMessage(<<>>, st).done
  <2>1. PICK null \in BOOLEAN : null = TRUE
    OBVIOUS
  <2>2. PICK a : a = answered
    OBVIOUS
  <2>3. PICK d \in Nat : d = Len(got)
    OBVIOUS
  <2>4. WellFormed(a) /\ d < Len(a) /\ LineStart(a, d) # 0 /\ Parsed(a, d, st, null)
    BY <1>4, <1>7, <1>8, <2>1, <2>2, <2>3
  <2>5. Parsed(a, d, StreamInHTTPMessage(<<>>, st), null) /\ ~StreamInHTTPMessage(<<>>, st).done
    BY <1>1, <2>4, NothingInResponse
  <2> QED
    BY <2>1, <2>2, <2>3, <2>5
<1> QED
  BY <1>1, <1>2, <1>9

LEMMA ParsingStep ==
    ASSUME Types, Types', Waiting, Streams, Parsing, [Next]_vars
    PROVE  Parsing'
<1> USE NoneAssumption
<1>1. /\ current \in Client \cup {None}
      /\ pc \in {"request", "response"} => current \in Client
      /\ queue \in Seq(Client)
      /\ cstate \in [Client -> {"new", "open", "sent", "gone", "closed"}]
      /\ cIn \in [Client -> Seq(Byte)] /\ toClient \in [Client -> Seq(Byte)]
      /\ sent \in Seq(Byte) /\ st \in Parser
      /\ packets \in [crlf : BOOLEAN, first : BOOLEAN]
      /\ \A c \in Client : WellFormed(request[c]) /\ request[c] \in Seq(Byte) /\ request[c] # <<>>
  BY MessagesAre DEF Types, TypeOK
<1>2. /\ pc = "request" /\ ~packets.crlf =>
           /\ sent # request[current]
           /\ Between(request[current], Len(sent))
           /\ Parsed(request[current], Len(sent), st, FALSE)
      /\ pc = "response" /\ ~packets.crlf => sent = request[current] \/ cstate[current] = "gone"
      /\ pc = "response" /\ ~packets.crlf /\ ~packets.first /\ sent = request[current] /\ ~HasBody(sent) =>
           IF toClient[current] = <<>>
           THEN st.line = <<>> /\ st.cl = 0 /\ st.rcl = 0
           ELSE /\ toClient[current] # answered
                /\ sIn # <<>> => Between(answered, Len(toClient[current]))
                /\ LineStart(answered, Len(toClient[current])) # 0
                /\ Parsed(answered, Len(toClient[current]), st, TRUE)
  BY DEF Parsing
<1>3. ASSUME pc' \notin {"request", "response"} PROVE Parsing'
  BY <1>3 DEF Parsing
<1>4. ASSUME UNCHANGED <<pc, current, sent, request, toClient, st, packets>>,
             pc = "response" /\ cstate[current] = "gone" => cstate'[current] = "gone",
             pc = "response" /\ toClient[current] # <<>> => answered' = answered /\ (sIn' # <<>> => sIn # <<>>)
      PROVE  Parsing'
  BY <1>2, <1>4 DEF Parsing
<1>5. ASSUME NEW c \in Client, Connect(c) \/ SendRequest(c) \/ Disappear(c)
      PROVE  Parsing'
  <2>1. UNCHANGED <<pc, current, sent, request, toClient, st, packets, answered, sIn>>
    BY <1>5 DEF Connect, SendRequest, Disappear, connection
  <2>2. pc = "response" /\ cstate[current] = "gone" => cstate'[current] = "gone"
    BY <1>1, <1>5 DEF Connect, SendRequest, Disappear
  <2> QED
    BY <1>4, <2>1, <2>2
<1>6. CASE Respond
  <2>1. current # None => toClient[current] = <<>>
    BY <1>6 DEF Respond, Streams
  <2>2. current # None /\ UNCHANGED <<pc, current, cstate, sent, request, toClient, st, packets>>
    BY <1>6 DEF Respond
  <2> QED
    BY <1>4, <2>1, <2>2
<1>7. CASE UNCHANGED vars \/ HangUp
  <2>1. CASE UNCHANGED vars
    BY <1>4, <2>1 DEF vars
  <2>2. CASE HangUp
    <3>1. UNCHANGED <<pc, current, cstate, sent, request, toClient, st, packets, answered>>
      BY <2>2 DEF HangUp
    <3>2. PICK k \in 0..Len(sIn) : sIn' = SubSeq(sIn, 1, k)
      BY <2>2 DEF HangUp
    <3>3. sIn = <<>> => sIn' = <<>>
      BY <3>2
    <3> QED
      BY <1>4, <3>1, <3>3
  <2> QED
    BY <1>7, <2>1, <2>2
<1>8. CASE Fatal
  BY <1>3, <1>8 DEF Fatal
<1>9. CASE Accept
  <2>1. /\ queue # <<>> /\ pc' = "request" /\ current' = Head(queue) /\ sent' = <<>> /\ st' = Fresh /\ UNCHANGED request
    BY <1>9 DEF Accept
  <2>2. Head(queue) \in Client
    BY <1>1, <2>1, HeadTailProperties
  <2>3. PICK m : m = request[Head(queue)] /\ WellFormed(m) /\ m # <<>>
    BY <1>1, <2>2
  <2>4. Parsed(m, 0, Fresh, FALSE) /\ Between(m, 0)
    <3>1. Parsed(m, 0, Fresh, Fresh.null) /\ Between(m, 0)
      BY <2>3, MessagesAre, NothingParsed
    <3> QED
      BY <3>1, MessagesAre
  <2>5. Len(<<>>) = 0
    OBVIOUS
  <2> QED
    BY <2>1, <2>3, <2>4, <2>5 DEF Parsing
<1>10. CASE RelayRequest
  <2>1. PICK k, p, rest : RequestRound(k, p, rest)
    BY <1>10, RequestRounds
  <2>2. /\ cIn[current] # <<>> /\ pc = "request" /\ k \in 1..Len(cIn[current]) /\ CutOff(cIn[current], k, p, rest)
        /\ sent' = sent \o p /\ st' = StreamInHTTPMessage(p, st) /\ packets' = Cut(p, rest)
        /\ pc' = IF st'.done THEN "response" ELSE pc
        /\ UNCHANGED <<current, cstate, request, toClient, answered>>
    BY <1>10, <2>1 DEF RequestRound, RelayRequest
  <2>3. current \in Client /\ current # None
    BY <1>1, <2>2
  <2>4. PICK m : m = request[current] /\ WellFormed(m) /\ m \in Seq(Byte)
    BY <1>1, <2>3
  <2>5. PICK todo \in Seq(Byte) : todo = cIn[current]
    BY <1>1, <2>3
  <2>6. Joined(sent, todo, m)
    <3>1. sent \o cIn[current] \in {<<>>, request[current]}
      BY <2>3 DEF Streams
    <3>2. sent \o todo # <<>>
      BY <1>1, <2>2, <2>5, NoneRead
    <3> QED
      BY <2>4, <2>5, <3>1, <3>2 DEF Joined
  <2>7. /\ Len(sent \o p) = Len(sent) + k
        /\ Between(m, Len(sent)) => Packet(m, Len(sent), Len(sent) + k, p)
        /\ sent \o p = m <=> Len(sent) + k = Len(m)
        /\ ~(EndsWith(p, "cr") /\ rest # <<>> /\ Head(rest) = "lf") => Between(m, Len(sent) + k)
    <3>1. k \in 1..Len(todo) /\ CutOff(todo, k, p, rest)
      BY <2>2, <2>5
    <3>2. PICK got \in Seq(Byte) : got = sent
      BY <1>1
    <3>3. Joined(got, todo, m) /\ m \in Seq(Byte)
      BY <2>4, <2>6, <3>2
    <3>4. /\ Len(got \o p) = Len(got) + k
          /\ Between(m, Len(got)) => Packet(m, Len(got), Len(got) + k, p)
          /\ got \o p = m <=> Len(got) + k = Len(m)
          /\ ~(EndsWith(p, "cr") /\ rest # <<>> /\ Head(rest) = "lf") => Between(m, Len(got) + k)
      BY <3>1, <3>3, Relayed
    <3> QED
      BY <3>2, <3>4
  <2>8. packets'.crlf = (packets.crlf \/ (EndsWith(p, "cr") /\ rest # <<>> /\ Head(rest) = "lf"))
    BY <2>2 DEF Cut
  <2>9. CASE packets'.crlf
    BY <2>9 DEF Parsing
  <2>10. CASE ~packets'.crlf
    <3>1. /\ ~packets.crlf /\ ~(EndsWith(p, "cr") /\ rest # <<>> /\ Head(rest) = "lf")
      BY <2>8, <2>10
    <3>2. Between(m, Len(sent)) /\ Parsed(m, Len(sent), st, FALSE)
      BY <1>2, <2>2, <2>4, <3>1
    <3>3. PICK d \in Nat : d = Len(sent)
      BY <1>1
    <3>4. PICK e \in Nat : e = d + k
      BY <2>2, <3>3
    <3>5. Packet(m, d, e, p) /\ Between(m, e) /\ Len(sent') = e /\ (sent' = m <=> e = Len(m))
      BY <2>2, <2>7, <3>1, <3>2, <3>3, <3>4
    <3>6. Parsed(m, e, st', FALSE) /\ Verdict(m, e, st', FALSE)
      <4>1. /\ Parsed(m, e, StreamInHTTPMessage(p, st), FALSE)
            /\ Verdict(m, e, StreamInHTTPMessage(p, st), FALSE)
        BY <1>1, <2>4, <3>2, <3>3, <3>5, PacketParsed
      <4> QED
        BY <2>2, <4>1
    <3>7. st'.done <=> sent' = m
      BY <3>5, <3>6 DEF Verdict
    <3>8. CASE ~st'.done
      <4>1. pc' = "request" /\ sent' # m
        BY <2>2, <3>7, <3>8
      <4> QED
        BY <2>2, <2>4, <3>5, <3>6, <4>1 DEF Parsing
    <3>9. CASE st'.done
      <4>1. pc' = "response" /\ sent' = m /\ e = Len(m)
        BY <2>2, <3>5, <3>7, <3>9
      <4>2. toClient'[current] = <<>>
        BY <2>2, <2>3 DEF Streams
      <4>3. ~HasBody(m) => st'.line = <<>> /\ st'.cl = 0 /\ st'.rcl = 0
        <5>1. st' \in Parser
          BY DEF Types
        <5>2. PICK s \in Parser : s = st'
          BY <5>1
        <5>3. Parsed(m, Len(m), s, FALSE)
          BY <3>6, <4>1, <5>2
        <5>4. ~HasBody(m) => s.line = <<>> /\ s.cl = 0 /\ s.rcl = 0
          BY <2>4, <5>3, Bodyless
        <5> QED
          BY <5>2, <5>4
      <4> QED
        BY <2>2, <2>4, <4>1, <4>2, <4>3 DEF Parsing
    <3> QED
      BY <3>8, <3>9
  <2> QED
    BY <2>9, <2>10
<1>11. CASE RequestEnds
  <2>1. CASE Fatal
    BY <1>8, <2>1
  <2>2. CASE ~Fatal
    <3>1. /\ pc = "request" /\ cstate[current] = "gone" /\ pc' = "response"
          /\ UNCHANGED <<current, cstate, request, sent, packets>>
      BY <1>11, <2>2 DEF RequestEnds, connection
    <3>2. ~packets.crlf => sent # request[current]
      BY <1>2, <3>1
    <3> QED
      BY <3>1, <3>2 DEF Parsing
  <2> QED
    BY <2>1, <2>2
<1>12. ASSUME NEW done, FinishOrGoOn(done)
       PROVE  pc' = "accept" \/ (~done /\ UNCHANGED <<pc, current, cstate>>)
  BY <1>12 DEF FinishOrGoOn
<1>13. CASE RelayResponse
  <2>1. PICK k, p, rest : ResponseRound(k, p, rest) /\ FinishOrGoOn(st'.done)
    BY <1>13, ResponseRounds
  <2>2. CASE pc' = "accept"
    BY <1>3, <2>2
  <2>3. CASE pc' # "accept"
    <3>1. pc = "response" /\ ~st'.done /\ UNCHANGED <<pc, current, cstate, request, sent, answered>>
      BY <1>12, <1>13, <2>1, <2>3 DEF RelayResponse
    <3>2. packets.crlf => packets'.crlf
      BY <2>1 DEF ResponseRound, Cut
    <3>3. ~packets'.crlf => sent = request[current] \/ cstate[current] = "gone"
      BY <1>2, <3>1, <3>2
    <3>4. ASSUME ~packets'.crlf, ~packets'.first, sent = request[current], ~HasBody(sent)
          PROVE  LET got == toClient'[current]
                 IN  /\ got # <<>> /\ got # answered /\ (sIn' # <<>> => Between(answered, Len(got)))
                     /\ LineStart(answered, Len(got)) # 0 /\ Parsed(answered, Len(got), st', TRUE)
      BY <1>13, <3>1, <3>4, ResponseParsed
    <3> QED
      BY <3>1, <3>3, <3>4 DEF Parsing
  <2> QED
    BY <2>2, <2>3
<1>14. CASE RelayNothing
  <2>1. /\ pc = "response" /\ sIn = <<>> /\ st' = StreamInHTTPMessage(<<>>, st) /\ FinishOrGoOn(st'.done)
        /\ UNCHANGED <<request, sent, answered, toClient, packets>>
    BY <1>14 DEF RelayNothing
  <2>2. CASE pc' = "accept"
    BY <1>3, <2>2
  <2>3. CASE pc' # "accept"
    <3>1. UNCHANGED <<pc, current, cstate>>
      BY <1>12, <2>1, <2>3
    <3>2. current \in Client /\ current # None
      BY <1>1, <2>1
    <3>3. ASSUME ~packets.crlf, ~packets.first, sent = request[current], ~HasBody(sent), toClient[current] = <<>>
          PROVE  st'.line = <<>> /\ st'.cl = 0 /\ st'.rcl = 0
      <4>1. st.line = <<>> /\ st.cl = 0 /\ st.rcl = 0
        BY <1>2, <2>1, <3>3
      <4> QED
        BY <1>1, <2>1, <4>1, EmptyPacket
    <3>4. ASSUME ~packets.crlf, ~packets.first, sent = request[current], ~HasBody(sent), toClient[current] # <<>>
          PROVE  Parsed(answered, Len(toClient[current]), st', TRUE)
      BY <1>14, <3>4, CutShortParsed
    <3> QED
      BY <1>2, <1>14, <2>1, <3>1, <3>3, <3>4 DEF Parsing, RelayNothing
  <2> QED
    BY <2>2, <2>3
<1> QED
  BY <1>5, <1>6, <1>7, <1>8, <1>9, <1>10, <1>11, <1>13, <1>14
     DEF Next, Proxy, ConnectRefused, RequestFails, ResponseFails

-----------------------------------------------------------------------------
(* The theorems.                                                           *)

LEMMA PInvHolds == Spec => []PInv
<1>1. PInv /\ [Next]_vars => PInv'
  <2> SUFFICES ASSUME PInv, [Next]_vars PROVE PInv'
    OBVIOUS
  <2>1. Types /\ Waiting /\ Streams /\ LastRead /\ Parsing /\ FatalCauses
    BY DEF PInv
  <2>2. Types'
    BY <2>1, TypesStep
  <2>3. Waiting'
    BY <2>1, WaitingStep
  <2>4. Streams'
    BY <2>1, <2>2, StreamsStep
  <2>5. LastRead'
    BY <2>1, <2>2, LastReadStep
  <2>6. Parsing'
    BY <2>1, <2>2, ParsingStep
  <2>7. FatalCauses'
    BY <2>1, FatalStep
  <2> QED
    BY <2>2, <2>3, <2>4, <2>5, <2>6, <2>7 DEF PInv
<1> QED
  BY <1>1, InitIsRight, PTL DEF Spec

\* However the bytes of a request are cut into packets, as long as no boundary
\* falls inside a CRLF, runHTTPProxyLoop leaves the request loop exactly when it
\* has relayed the whole request.
THEOREM RequestEndIsFound == Spec => []RequestEndDetected
<1>1. PInv => RequestEndDetected
  BY DEF PInv, Types, Parsing, RequestEndDetected
<1> QED
  BY <1>1, PInvHolds, PTL

\* The process ends only for the causes FatalCauses names: in particular the empty
\* packet of a server that closed before, within or after its response does not make
\* streamInHTTPMessage read packet[0], unless what came ends in half a CRLF.
THEOREM FatalHasCause == Spec => []FatalCauses
<1>1. PInv => FatalCauses
  BY DEF PInv
<1> QED
  BY <1>1, PInvHolds, PTL

\* Although the response loop goes on with the parser state of the request, a
\* client whose request has no body has the whole response when its connection is
\* closed, or nothing if the server hung up, wherever the server stopped, if the
\* first packet holds a line and no CRLF is split.
THEOREM BodylessGetsWholeResponse == Spec => WholeResponseForBodyless
<1> DEFINE Whole == pc = "response" /\ pc' = "accept" /\ ~HasBody(request[current])
                      /\ ~packets'.crlf /\ ~packets'.first /\ answered # <<>>
                    => toClient'[current] = answered \/ (toClient'[current] = <<>> /\ server # "open")
<1>1. PInv /\ [Next]_vars => [Whole]_vars
  <2> SUFFICES ASSUME PInv, Next, pc = "response", pc' = "accept", ~HasBody(request[current]),
                      ~packets'.crlf, ~packets'.first, answered # <<>>
               PROVE  toClient'[current] = answered \/ (toClient'[current] = <<>> /\ server # "open")
    OBVIOUS
  <2>1. Types /\ Streams /\ Parsing
    BY DEF PInv
  <2>2. current \in Client /\ current # None
    BY <2>1, NoneAssumption DEF Types, TypeOK
  <2>3. sent = request[current]
    BY <2>1, <2>2 DEF Streams
  <2>4. CASE RelayResponse
    <3>1. ~HasBody(sent)
      BY <2>3
    <3>2. st'.done <=> toClient'[current] = answered
      BY <2>1, <2>3, <2>4, <3>1, ResponseParsed
    <3>3. st'.done
      <4>1. PICK k, p, rest : ResponseRound(k, p, rest) /\ FinishOrGoOn(st'.done)
        BY <2>1, <2>4, ResponseRounds
      <4> QED
        BY <4>1 DEF FinishOrGoOn
    <3> QED
      BY <3>2, <3>3
  <2>5. CASE RelayNothing
    <3>1. UNCHANGED <<toClient, packets>> /\ server = "closed" /\ FinishOrGoOn(st'.done)
      BY <2>5 DEF RelayNothing
    <3>2. st'.done
      BY <3>1 DEF FinishOrGoOn
    <3>3. toClient[current] # <<>> => ~st'.done
      BY <2>1, <2>3, <2>5, <3>1, CutShortParsed
    <3> QED
      BY <3>1, <3>2, <3>3
  <2>6. RelayResponse \/ RelayNothing
    BY DEF Next, Connect, SendRequest, Disappear, Respond, HangUp, Proxy, Accept, ConnectRefused, RelayRequest,
           RequestEnds, RequestFails, ResponseFails, Fatal
  <2> QED
    BY <2>4, <2>5, <2>6
<1> QED
  BY <1>1, PInvHolds, PTL DEF Spec, WholeResponseForBodyless
=============================================================================
