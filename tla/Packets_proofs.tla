---------------------------- MODULE Packets_proofs ----------------------------
(***************************************************************************)
(* What the programs under networks/ take from packets.                    *)
(*                                                                         *)
(* Reassembly, for every number of connections, length of streams and      *)
(* packets, and every modulus of sequence numbers: no byte is written      *)
(* twice unless segments overlap, and what is missing has one of the       *)
(* causes named.                                                           *)
(*                                                                         *)
(* DNSClient, for every zone of well written replies and any number of     *)
(* runs: what is printed is what the reply says, and a reply to another    *)
(* question is late.                                                       *)
(***************************************************************************)
EXTENDS Reassembly, DNSClient, FiniteSetTheorems, SequenceTheorems, WellFoundedInduction, TLAPS

Node == [sequenceNumber : 0..(Modulus - 1), data : Seq(Bytes)]

\* The data of a node: consecutive bytes of one connection, then zeros; or those
\* of another protocol.
Stretch(n) ==
    \/ n.data = <<Foreign>>
    \/ \E c \in Conn, first, last, end \in 1..StreamLen :
          /\ first <= end /\ end <= last
          /\ n.data = [i \in 1..(last - first + 1) |->
                         IF first + i - 1 <= end THEN <<c, first + i - 1>> ELSE Zero]

Taken == DOMAIN nodes \ pending

\* The payloads taken come before the others, and prevSequenceNumber is the
\* highest number among them (or 0).
Sorting ==
    /\ \A t \in Taken, p \in pending :
          nodes[t].sequenceNumber <= nodes[p].sequenceNumber
    /\ \A t \in Taken : nodes[t].sequenceNumber <= prevSequenceNumber
    /\ \/ prevSequenceNumber = 0
       \/ \E t \in Taken : nodes[t].sequenceNumber = prevSequenceNumber

FromTaken ==
    \A i \in DOMAIN image :
       image[i] \notin {Zero, Foreign} => \E t \in Taken : In(image[i], nodes[t])

RInv == /\ TypeOK
        /\ \A k \in DOMAIN nodes : Stretch(nodes[k])
        /\ pc = "read" => pending = {} /\ image = <<>> /\ prevSequenceNumber = 0
        /\ pc \in {"write", "done"} => Sorting /\ FromTaken
        /\ pc \notin {"write", "done"} => image = <<>>
        /\ pc = "done" => pending = {}
        /\ TwiceOnlyFromOverlap

\* A segment of the stream is a node.
LEMMA SegmentIsNode ==
    ASSUME NEW c \in Conn, NEW first \in 1..StreamLen, NEW last \in 1..StreamLen,
           NEW end \in 1..StreamLen, first <= end, end <= last, isn \in Isns
    PROVE  Segment(c, first, last, end) \in Node /\ Stretch(Segment(c, first, last, end))
<1> DEFINE data == [i \in 1..(last - first + 1) |->
                      IF first + i - 1 <= end THEN <<c, first + i - 1>> ELSE Zero]
<1>1. data \in Seq(Bytes)
  <2>1. \A i \in 1..(last - first + 1) :
           (IF first + i - 1 <= end THEN <<c, first + i - 1>> ELSE Zero) \in Bytes
    BY SizeAssumption DEF Bytes
  <2> QED
    BY <2>1, SizeAssumption
<1>2. SequenceNumber(c, first) \in 0..(Modulus - 1)
  BY SizeAssumption DEF SequenceNumber
<1> QED
  BY <1>1, <1>2 DEF Segment, Node, Stretch

\* A byte of a stream has one place in a node.
LEMMA StretchInjective ==
    ASSUME NEW n \in Node, Stretch(n), NEW i \in DOMAIN n.data, NEW j \in DOMAIN n.data,
           n.data[i] = n.data[j], n.data[i] # Zero
    PROVE  i = j
<1>1. CASE n.data = <<Foreign>>
  BY <1>1
<1>2. CASE n.data # <<Foreign>>
  <2>1. PICK c \in Conn, first, last, end \in 1..StreamLen :
           /\ first <= end /\ end <= last
           /\ n.data = [q \in 1..(last - first + 1) |->
                          IF first + q - 1 <= end THEN <<c, first + q - 1>> ELSE Zero]
    BY <1>2, Zenon DEF Stretch
  <2>2. /\ i \in 1..(last - first + 1) /\ j \in 1..(last - first + 1)
        /\ n.data[i] = <<c, first + i - 1>> /\ n.data[j] = <<c, first + j - 1>>
    <3>1. DOMAIN n.data = 1..(last - first + 1)
      BY <2>1
    <3>2. \A q \in 1..(last - first + 1) :
             n.data[q] = IF first + q - 1 <= end THEN <<c, first + q - 1>> ELSE Zero
      BY <2>1, Zenon
    <3>3. n.data[i] # Zero /\ n.data[j] # Zero
      OBVIOUS
    <3> QED
      BY <3>1, <3>2, <3>3, Zenon
  <2>3. <<c, first + i - 1>> = <<c, first + j - 1>>
    BY <2>2, Zenon
  <2>4. first + i - 1 = first + j - 1
    BY <2>3, Zenon
  <2>5. /\ first \in Int /\ last \in Int
        /\ i \in 1..(last - first + 1) /\ j \in 1..(last - first + 1)
    BY <2>2, SizeAssumption
  <2> QED
    BY <2>4, <2>5
<1> QED
  BY <1>1, <1>2

\* What is written of a node is the end of its data, from a on.
LEMMA ContentIsTail ==
    ASSUME NEW n \in Node
    PROVE  \E a \in 0..Len(n.data) :
              /\ Content(n) \in Seq(Bytes)
              /\ Len(Content(n)) = Len(n.data) - a
              /\ \A i \in 1..Len(Content(n)) : Content(n)[i] = n.data[a + i]
<1>1. n.data \in Seq(Bytes) /\ Len(n.data) \in Nat /\ DOMAIN n.data = 1..Len(n.data)
  BY DEF Node
<1>2. \/ Content(n) = n.data
      \/ Content(n) = <<>>
      \/ \E at \in DOMAIN n.data : Content(n) = SubSeq(n.data, at + 1, Len(n.data))
  <2>1. ASSUME NEW i \in DOMAIN n.data, Found(n, i)
        PROVE  (CHOOSE j \in DOMAIN n.data : Found(n, j)) \in DOMAIN n.data
    BY <2>1
  <2> QED
    BY <2>1, Zenon DEF Content
<1>3. CASE Content(n) = n.data
  <2>1. /\ Len(Content(n)) = Len(n.data) - 0
        /\ \A i \in 1..Len(Content(n)) : Content(n)[i] = n.data[0 + i]
    BY <1>1, <1>3
  <2> QED
    BY <1>1, <1>3, <2>1
<1>4. CASE Content(n) = <<>>
  BY <1>1, <1>4
<1>5. ASSUME NEW at \in DOMAIN n.data, Content(n) = SubSeq(n.data, at + 1, Len(n.data))
      PROVE  /\ Content(n) \in Seq(Bytes)
             /\ Len(Content(n)) = Len(n.data) - at
             /\ \A i \in 1..Len(Content(n)) : Content(n)[i] = n.data[at + i]
  <2>1. \A s \in Seq(Bytes) : \A k \in 1..Len(s) :
           LET tail == SubSeq(s, k + 1, Len(s))
           IN  /\ tail \in Seq(Bytes) /\ Len(tail) = Len(s) - k
               /\ \A i \in 1..Len(tail) : tail[i] = s[k + i]
    OBVIOUS
  <2>2. at \in 1..Len(n.data)
    BY <1>1, <1>5
  <2>3. LET tail == SubSeq(n.data, at + 1, Len(n.data))
        IN  /\ tail \in Seq(Bytes) /\ Len(tail) = Len(n.data) - at
            /\ \A i \in 1..Len(tail) : tail[i] = n.data[at + i]
    BY <1>1, <2>1, <2>2, Zenon
  <2> QED
    BY <1>5, <2>3, Zenon
<1>6. CASE \E at \in DOMAIN n.data : Content(n) = SubSeq(n.data, at + 1, Len(n.data))
  <2>1. PICK at \in DOMAIN n.data : Content(n) = SubSeq(n.data, at + 1, Len(n.data))
    BY <1>6
  <2>2. at \in 0..Len(n.data)
    BY <1>1
  <2> QED
    BY <1>5, <2>1, <2>2
<1> QED
  BY <1>2, <1>3, <1>4, <1>6

LEMMA Concatenation ==
    ASSUME NEW s \in Seq(Bytes), NEW t \in Seq(Bytes)
    PROVE  /\ s \o t \in Seq(Bytes)
           /\ Len(s \o t) = Len(s) + Len(t)
           /\ \A i \in 1..Len(s \o t) :
                 (s \o t)[i] = IF i <= Len(s) THEN s[i] ELSE t[i - Len(s)]
  OBVIOUS

\* One payload is taken.
LEMMA WriteKeeps ==
    ASSUME RInv, NEW k \in pending, Write(k)
    PROVE  RInv'
<1> DEFINE n == nodes[k]
<1>1. /\ k \in DOMAIN nodes /\ n \in Node /\ Stretch(n)
      /\ \A j \in DOMAIN nodes : nodes[j] \in Node
      /\ pending' = pending \ {k} /\ pending \subseteq DOMAIN nodes
      /\ UNCHANGED <<pc, isn, format, ended, nodes>>
      /\ pc = "write"
  <2>1. /\ pending' = pending \ {k} /\ UNCHANGED <<pc, isn, format, ended, nodes>>
        /\ pc = "write"
    BY DEF Write
  <2>2. pending \subseteq DOMAIN nodes /\ nodes \in Seq(Node)
    BY DEF RInv, TypeOK, Node
  <2>3. \A j \in DOMAIN nodes : nodes[j] \in Node /\ Stretch(nodes[j])
    BY <2>2 DEF RInv
  <2> QED
    BY <2>1, <2>2, <2>3
<1>2. Taken' = Taken \cup {k}
  BY <1>1 DEF Taken
<1>3. prevSequenceNumber \in Nat /\ \A j \in DOMAIN nodes : nodes[j].sequenceNumber \in Nat
  BY <1>1, SizeAssumption DEF RInv, TypeOK, Node
<1>4. /\ \A p \in pending : n.sequenceNumber <= nodes[p].sequenceNumber
      /\ prevSequenceNumber <= n.sequenceNumber
  <2>1. \A p \in pending : n.sequenceNumber <= nodes[p].sequenceNumber
    BY DEF Write, Before
  <2>2. prevSequenceNumber <= n.sequenceNumber
    BY <1>1, <1>3 DEF RInv, Sorting
  <2> QED
    BY <2>1, <2>2
<1>5. prevSequenceNumber' = n.sequenceNumber
  BY <1>1 DEF Write, Repeated
<1>6. Sorting'
  BY <1>1, <1>2, <1>3, <1>4, <1>5 DEF RInv, Sorting, Taken
<1> DEFINE new == IF Repeated(n) THEN <<>> ELSE Content(n)
<1>7. PICK a \in 0..Len(n.data) :
          /\ Content(n) \in Seq(Bytes)
          /\ Len(Content(n)) = Len(n.data) - a
          /\ \A i \in 1..Len(Content(n)) : Content(n)[i] = n.data[a + i]
  BY <1>1, ContentIsTail
<1>8. /\ n.data \in Seq(Bytes) /\ image \in Seq(Bytes)
      /\ Len(image) \in Nat /\ DOMAIN image = 1..Len(image)
      /\ Len(n.data) \in Nat /\ DOMAIN n.data = 1..Len(n.data)
      /\ a \in Nat
  BY <1>1 DEF Node, RInv, TypeOK
<1>11. \A j \in DOMAIN nodes' : Stretch(nodes'[j])
  BY <1>1 DEF RInv
<1>9. CASE Repeated(n)
  <2>1. image' = image
    BY <1>9 DEF Write
  <2>2. FromTaken'
    BY <1>1, <1>2, <2>1 DEF RInv, FromTaken, In
  <2>3. TwiceOnlyFromOverlap'
    BY <1>1, <2>1 DEF RInv, TwiceOnlyFromOverlap, In
  <2>4. TypeOK'
    BY <1>1, <1>5, <2>1 DEF RInv, TypeOK, Node
  <2> QED
    BY <1>1, <1>6, <1>11, <2>2, <2>3, <2>4 DEF RInv
<1>10. CASE ~Repeated(n)
  <2>1. image' = image \o Content(n)
    BY <1>10 DEF Write
  <2>2. /\ image' \in Seq(Bytes)
        /\ Len(image') = Len(image) + Len(Content(n))
        /\ \A i \in 1..Len(image) : image'[i] = image[i]
        /\ \A i \in (Len(image) + 1)..Len(image') :
              /\ i - Len(image) \in 1..Len(Content(n))
              /\ image'[i] = n.data[a + i - Len(image)]
              /\ a + i - Len(image) \in DOMAIN n.data
    <3>1. /\ image' \in Seq(Bytes)
          /\ Len(image') = Len(image) + Len(Content(n))
          /\ \A i \in 1..Len(image') :
                image'[i] = IF i <= Len(image) THEN image[i] ELSE Content(n)[i - Len(image)]
      BY <1>7, <1>8, <2>1, Concatenation
    <3>2. Len(Content(n)) \in Nat
      BY <1>7
    <3>3. ASSUME NEW i \in (Len(image) + 1)..Len(image')
          PROVE  /\ i - Len(image) \in 1..Len(Content(n))
                 /\ image'[i] = n.data[a + i - Len(image)]
                 /\ a + i - Len(image) \in DOMAIN n.data
      <4>1. i - Len(image) \in 1..Len(Content(n)) /\ i \in 1..Len(image') /\ ~(i <= Len(image))
        BY <1>8, <3>1, <3>2
      <4>2. a + (i - Len(image)) = a + i - Len(image)
        BY <1>8, <3>1, <3>2
      <4>3. Content(n)[i - Len(image)] = n.data[a + (i - Len(image))]
        BY <1>7, <4>1
      <4>4. image'[i] = Content(n)[i - Len(image)]
        BY <3>1, <4>1
      <4>5. a + i - Len(image) \in DOMAIN n.data
        <5>1. a \in Nat /\ Len(Content(n)) = Len(n.data) - a /\ DOMAIN n.data = 1..Len(n.data) /\ Len(n.data) \in Nat
          BY <1>7, <1>8
        <5>2. \A j \in 1..Len(Content(n)) : a + j \in 1..Len(n.data)
          BY <5>1
        <5> QED
          BY <4>1, <4>2, <5>1, <5>2
      <4> QED
        BY <4>1, <4>2, <4>3, <4>4, <4>5
    <3>4. \A i \in 1..Len(image) : image'[i] = image[i]
      <4>1. \A i \in 1..Len(image) : i \in 1..Len(image') /\ i <= Len(image)
        BY <1>8, <3>1, <3>2
      <4> QED
        BY <3>1, <4>1
    <3> QED
      BY <3>1, <3>3, <3>4
  <2>3. FromTaken'
    <3>1. ASSUME NEW i \in DOMAIN image', image'[i] \notin {Zero, Foreign}
          PROVE  \E t \in Taken' : In(image'[i], nodes'[t])
      <4>1. CASE i \in 1..Len(image)
        BY <1>1, <1>2, <1>8, <2>2, <3>1, <4>1 DEF RInv, FromTaken
      <4>2. CASE i \in (Len(image) + 1)..Len(image')
        BY <1>1, <1>2, <2>2, <4>2 DEF In
      <4> QED
        BY <1>8, <2>2, <4>1, <4>2
    <3> QED
      BY <3>1 DEF FromTaken
  <2>4. TwiceOnlyFromOverlap'
    <3>1. ASSUME NEW i \in DOMAIN image', NEW j \in DOMAIN image', i < j,
                 image'[i] = image'[j], image'[i] \notin {Zero, Foreign}
          PROVE  \E m, l \in DOMAIN nodes' :
                    /\ nodes'[m].sequenceNumber # nodes'[l].sequenceNumber
                    /\ In(image'[i], nodes'[m]) /\ In(image'[i], nodes'[l])
      <4>1. CASE j \in 1..Len(image)
        <5>1. i \in 1..Len(image) /\ i \in DOMAIN image /\ j \in DOMAIN image
          BY <1>8, <2>2, <3>1, <4>1
        <5>2. image'[i] = image[i] /\ image'[j] = image[j]
          BY <2>2, <4>1, <5>1
        <5>3. TwiceOnlyFromOverlap
          BY DEF RInv
        <5>4. \E m, l \in DOMAIN nodes :
                 /\ nodes[m].sequenceNumber # nodes[l].sequenceNumber
                 /\ In(image[i], nodes[m]) /\ In(image[i], nodes[l])
          <6>1. i # j
            BY <1>8, <3>1, <5>1
          <6>2. image[i] = image[j] /\ image[i] \notin {Zero, Foreign}
            BY <3>1, <5>2
          <6> QED
            BY <5>1, <5>3, <6>1, <6>2, Zenon DEF TwiceOnlyFromOverlap
        <5> QED
          BY <1>1, <5>2, <5>4
      <4>2. CASE i \in 1..Len(image) /\ j \in (Len(image) + 1)..Len(image')
        <5>1. PICK t \in Taken : In(image[i], nodes[t])
          BY <1>1, <1>8, <2>2, <3>1, <4>2 DEF RInv, FromTaken
        <5>2. nodes[t].sequenceNumber < n.sequenceNumber
          BY <1>1, <1>3, <1>4, <1>10, <5>1 DEF RInv, Sorting, Repeated, Taken
        <5>3. In(image'[j], n)
          BY <2>2, <4>2 DEF In
        <5>4. t \in DOMAIN nodes
          BY <5>1 DEF Taken
        <5>5. nodes[t].sequenceNumber # nodes[k].sequenceNumber
          BY <1>1, <1>3, <5>2, <5>4
        <5>6. image'[i] = image[i]
          BY <2>2, <4>2
        <5> QED
          BY <1>1, <3>1, <5>1, <5>3, <5>4, <5>5, <5>6
      <4>3. CASE i \in (Len(image) + 1)..Len(image') /\ j \in (Len(image) + 1)..Len(image')
        <5>1. a + i - Len(image) = a + j - Len(image)
          BY <1>1, <2>2, <3>1, <4>3, StretchInjective
        <5> QED
          BY <1>8, <3>1, <4>3, <5>1
      <4> QED
        BY <1>8, <2>2, <3>1, <4>1, <4>2, <4>3
    <3>2. \A i, j \in DOMAIN image' : i # j => i < j \/ j < i
      BY <2>2
    <3> QED
      BY <3>1, <3>2 DEF TwiceOnlyFromOverlap
  <2>5. TypeOK'
    BY <1>1, <1>5, <2>2 DEF RInv, TypeOK, Node
  <2> QED
    BY <1>1, <1>6, <1>11, <2>3, <2>4, <2>5 DEF RInv
<1> QED
  BY <1>9, <1>10

LEMMA Initial == Init => RInv
<1> SUFFICES ASSUME Init PROVE RInv
  OBVIOUS
<1>1. 0 \in 0..(Modulus - 1)
  BY SizeAssumption
<1>2. nodes \in Seq(Node) /\ image \in Seq(Bytes) /\ pending \subseteq DOMAIN nodes
  BY DEF Init
<1>3. TypeOK
  BY <1>1, <1>2 DEF Init, TypeOK, Node
<1> QED
  BY <1>3 DEF Init, RInv, TwiceOnlyFromOverlap

\* Reading and writing keep the invariant.
LEMMA Inductive == RInv /\ [Next]_vars => RInv'
<1> SUFFICES ASSUME RInv, [Next]_vars PROVE RInv'
  OBVIOUS
<1>1. CASE UNCHANGED vars
  <2>1. UNCHANGED <<pc, isn, format, ended, nodes, pending, prevSequenceNumber, image>>
    BY <1>1 DEF vars
  <2>2. pc \in {"write", "done"} => Sorting' /\ FromTaken'
    BY <2>1 DEF RInv, Sorting, Taken, FromTaken, In
  <2>3. TwiceOnlyFromOverlap'
    BY <2>1 DEF RInv, TwiceOnlyFromOverlap, In
  <2>4. TypeOK' /\ \A k \in DOMAIN nodes' : Stretch(nodes'[k])
    BY <2>1 DEF RInv, TypeOK
  <2> QED
    BY <2>1, <2>2, <2>3, <2>4 DEF RInv
<1>2. CASE Truncated \/ \E f \in Formats : Mismatch(f)
  <2>1. /\ pc = "read" /\ pc' \in {"CAPTURE_TRUNCATED", "CAPTURE_INVALID"}
        /\ UNCHANGED <<isn, format, ended, nodes, pending, prevSequenceNumber, image>>
    BY <1>2 DEF Truncated, Mismatch
  <2>2. image = <<>>
    BY <2>1 DEF RInv
  <2>3. TypeOK' /\ \A k \in DOMAIN nodes' : Stretch(nodes'[k])
    BY <2>1 DEF RInv, TypeOK
  <2>4. TwiceOnlyFromOverlap'
    BY <2>1, <2>2 DEF TwiceOnlyFromOverlap
  <2> QED
    BY <2>1, <2>2, <2>3, <2>4 DEF RInv
<1>3. ASSUME NEW f \in Formats, OtherPacket(f) PROVE RInv'
  <2>1. /\ pc = "read" /\ format' = f
        /\ UNCHANGED <<pc, isn, ended, nodes, pending, prevSequenceNumber, image>>
    BY <1>3 DEF OtherPacket
  <2>2. image = <<>> /\ pending = {} /\ prevSequenceNumber = 0
    BY <2>1 DEF RInv
  <2>3. TypeOK'
    BY <1>3, <2>1 DEF RInv, TypeOK
  <2>4. \A k \in DOMAIN nodes' : Stretch(nodes'[k])
    BY <2>1 DEF RInv
  <2>5. TwiceOnlyFromOverlap'
    BY <2>1, <2>2 DEF TwiceOnlyFromOverlap
  <2> QED
    BY <2>1, <2>2, <2>3, <2>4, <2>5 DEF RInv
<1>4. ASSUME NEW c \in Conn, NEW first \in 1..StreamLen, NEW last \in 1..StreamLen,
             NEW end \in 1..StreamLen, first <= end, end <= last,
             Payload(c, first, last, end)
      PROVE RInv'
  <2> DEFINE n == Segment(c, first, last, end)
  <2>1. n \in Node /\ Stretch(n)
    BY <1>4, SegmentIsNode DEF RInv, TypeOK
  <2>2. /\ pc = "read" /\ format' = TCP /\ nodes' = Append(nodes, n) /\ ended' \in BOOLEAN
        /\ UNCHANGED <<pc, isn, pending, prevSequenceNumber, image>>
    BY <1>4 DEF Payload
  <2> HIDE DEF n
  <2>3. nodes \in Seq(Node)
    BY DEF RInv, TypeOK, Node
  <2>4. nodes' \in Seq(Node) /\ \A k \in DOMAIN nodes' : Stretch(nodes'[k])
    BY <2>1, <2>2, <2>3 DEF RInv
  <2>5. pending = {} /\ image = <<>> /\ prevSequenceNumber = 0
    BY <2>2 DEF RInv
  <2>6. TypeOK'
    BY <2>2, <2>4, <2>5 DEF RInv, TypeOK, Node, TCP, Formats
  <2> QED
    BY <2>2, <2>4, <2>5, <2>6 DEF RInv, TwiceOnlyFromOverlap
<1>8. ASSUME NEW f \in Formats, NEW number \in 0..(Modulus - 1), OtherPayload(f, number)
      PROVE  RInv'
  <2> DEFINE n == [sequenceNumber |-> number, data |-> <<Foreign>>]
  <2>1. n \in Node /\ Stretch(n)
    BY DEF Node, Stretch, Bytes
  <2>2. /\ pc = "read" /\ format' = f /\ nodes' = Append(nodes, n)
        /\ UNCHANGED <<pc, isn, ended, pending, prevSequenceNumber, image>>
    BY <1>8 DEF OtherPayload
  <2> HIDE DEF n
  <2>3. nodes \in Seq(Node)
    BY DEF RInv, TypeOK, Node
  <2>4. nodes' \in Seq(Node) /\ \A k \in DOMAIN nodes' : Stretch(nodes'[k])
    BY <2>1, <2>2, <2>3 DEF RInv
  <2>5. pending = {} /\ image = <<>> /\ prevSequenceNumber = 0
    BY <2>2 DEF RInv
  <2>6. TypeOK'
    BY <2>2, <2>4, <2>5 DEF RInv, TypeOK, Node
  <2> QED
    BY <2>2, <2>4, <2>5, <2>6 DEF RInv, TwiceOnlyFromOverlap
<1>5. CASE EndOfFile
  <2>1. /\ pc = "read" /\ pc' = "write" /\ pending' = DOMAIN nodes
        /\ UNCHANGED <<isn, format, ended, nodes, prevSequenceNumber, image>>
    BY <1>5 DEF EndOfFile
  <2>2. image = <<>> /\ prevSequenceNumber = 0
    BY <2>1 DEF RInv
  <2>3. Sorting' /\ FromTaken'
    BY <2>1, <2>2 DEF Sorting, Taken, FromTaken
  <2>4. TypeOK'
    BY <2>1 DEF RInv, TypeOK
  <2>5. \A k \in DOMAIN nodes' : Stretch(nodes'[k])
    BY <2>1 DEF RInv
  <2> QED
    BY <2>1, <2>2, <2>3, <2>4, <2>5 DEF RInv, TwiceOnlyFromOverlap
<1>6. CASE Return
  <2>1. /\ pc = "write" /\ pc' = "done" /\ pending = {}
        /\ UNCHANGED <<isn, format, ended, nodes, pending, prevSequenceNumber, image>>
    BY <1>6 DEF Return
  <2>2. Sorting' /\ FromTaken' /\ TwiceOnlyFromOverlap'
    BY <2>1 DEF RInv, Sorting, Taken, FromTaken, In, TwiceOnlyFromOverlap
  <2>3. TypeOK' /\ \A k \in DOMAIN nodes' : Stretch(nodes'[k])
    BY <2>1 DEF RInv, TypeOK
  <2> QED
    BY <2>1, <2>2, <2>3 DEF RInv
<1>7. ASSUME NEW k \in pending, Write(k) PROVE RInv'
  BY <1>7, WriteKeeps
<1> QED
  BY <1>1, <1>2, <1>3, <1>4, <1>5, <1>6, <1>7, <1>8 DEF Next

LEMMA Invariant == Spec => []RInv
  BY Initial, Inductive, PTL DEF Spec

\* The variables of parsecap.c keep their types; a sequence number fits its width.
THEOREM TypeCorrect == Spec => []TypeOK
<1>1. RInv => TypeOK
  BY DEF RInv
<1> QED
  BY <1>1, Invariant, PTL

\* Sorting and skipping equal numbers keep repeated segments out of the image: a
\* byte comes twice only if it came under two sequence numbers.
THEOREM NoByteTwice == Spec => []TwiceOnlyFromOverlap
<1>1. RInv => TwiceOnlyFromOverlap
  BY DEF RInv
<1> QED
  BY <1>1, Invariant, PTL

-----------------------------------------------------------------------------
InImage(b) == \E j \in DOMAIN image : image[j] = b

\* Why byte i of the stream of c may be missing although payload n has it.
Cause(n, c, i) ==
    \/ i <= HeaderLen
    \/ n.sequenceNumber = 0
    \/ \E m \in DOMAIN nodes : /\ nodes[m].sequenceNumber = n.sequenceNumber
                               /\ nodes[m] # n
    \/ /\ \A m \in DOMAIN nodes : Before(n, nodes[m])
       /\ \A j \in DOMAIN n.data :
             n.data[j] = <<c, i>> => \A h \in 1..(j - 1) : ~Found(n, h)

KeptOf(t) == \A i \in 1..StreamLen, c \in Conn :
                In(<<c, i>>, nodes[t]) => InImage(<<c, i>>) \/ Cause(nodes[t], c, i)

\* Already while it writes: what the payloads taken hold is written or has a cause.
Kept == pc \in {"write", "done"} => \A t \in Taken : KeptOf(t)

LEMMA TailOf ==
    ASSUME NEW s \in Seq(Bytes), NEW a \in DOMAIN s
    PROVE  /\ Len(SubSeq(s, a + 1, Len(s))) = Len(s) - a
           /\ DOMAIN SubSeq(s, a + 1, Len(s)) = 1..(Len(s) - a)
           /\ \A j \in 1..(Len(s) - a) : SubSeq(s, a + 1, Len(s))[j] = s[a + j]
  OBVIOUS

\* What Content leaves out is of the first payload, and has no delimiter before it
\* that strstr finds.
LEMMA ContentLeavesOut ==
    ASSUME RInv, NEW k \in pending, Write(k), NEW i \in 1..StreamLen, NEW c \in Conn,
           In(<<c, i>>, nodes[k])
    PROVE  Cause(nodes[k], c, i) \/ \E j \in DOMAIN Content(nodes[k]) : Content(nodes[k])[j] = <<c, i>>
<1> DEFINE n == nodes[k]
<1>1. k \in DOMAIN nodes /\ n \in Node /\ Stretch(n) /\ Len(nodes) \in Nat
      /\ DOMAIN nodes = 1..Len(nodes) /\ pending \subseteq DOMAIN nodes
  <2>1. pending \subseteq DOMAIN nodes /\ nodes \in Seq(Node)
    BY DEF RInv, TypeOK, Node
  <2> QED
    BY <2>1 DEF RInv
<1>2. CASE Cardinality(pending) < Len(nodes)
  BY <1>2 DEF Content, In
<1>3. CASE ~(Cardinality(pending) < Len(nodes))
  <2>1. pending = DOMAIN nodes
    <3>1. IsFiniteSet(DOMAIN nodes) /\ Cardinality(DOMAIN nodes) = Len(nodes)
      <4>1. /\ IsFiniteSet(1..Len(nodes))
            /\ Cardinality(1..Len(nodes)) = IF 1 > Len(nodes) THEN 0 ELSE Len(nodes) - 1 + 1
        BY <1>1, FS_Interval
      <4> QED
        BY <1>1, <4>1
    <3>2. /\ Cardinality(pending) <= Cardinality(DOMAIN nodes)
          /\ Cardinality(DOMAIN nodes) = Cardinality(pending) => DOMAIN nodes = pending
          /\ IsFiniteSet(pending)
      BY <1>1, <3>1, FS_Subset
    <3>3. Cardinality(pending) \in Nat
      BY <3>2, FS_CardinalityType
    <3> QED
      BY <1>1, <1>3, <3>1, <3>2, <3>3
  <2>2. \A m \in DOMAIN nodes : Before(n, nodes[m])
    BY <2>1 DEF Write
  <2>3. CASE \A j \in DOMAIN n.data : ~Found(n, j)
    BY <2>2, <2>3 DEF Cause, Found
  <2>4. CASE \E j \in DOMAIN n.data : Found(n, j)
    <3> DEFINE at == CHOOSE j \in DOMAIN n.data : Found(n, j)
    <3>1. at \in DOMAIN n.data /\ Found(n, at)
      BY <2>4
    <3>2. Content(n) = SubSeq(n.data, at + 1, Len(n.data))
      BY <1>3, <2>4, Zenon DEF Content
    <3> HIDE DEF at
    <3>3. PICK p \in DOMAIN n.data : n.data[p] = <<c, i>>
      BY DEF In
    <3>4. n.data \in Seq(Bytes) /\ Len(n.data) \in Nat /\ DOMAIN n.data = 1..Len(n.data)
      BY <1>1 DEF Node
    <3>5. CASE p > at
      <4>1. /\ DOMAIN Content(n) = 1..(Len(n.data) - at)
            /\ \A j \in 1..(Len(n.data) - at) : Content(n)[j] = n.data[at + j]
        BY <3>1, <3>2, <3>4, TailOf
      <4>2. p - at \in 1..(Len(n.data) - at) /\ at + (p - at) = p
        BY <3>1, <3>3, <3>4, <3>5
      <4> QED
        BY <3>3, <4>1, <4>2
    <3>6. CASE p <= at
      <4>1. \A j \in DOMAIN n.data : n.data[j] = <<c, i>> => j = p
        <5>1. <<c, i>> # Zero
          BY DEF Zero
        <5> QED
          BY <1>1, <3>3, <5>1, StretchInjective
      <4>2. \A h \in 1..(p - 1) : ~Found(n, h)
        <5>1. \A h \in 1..(p - 1) : h \in 1..(at - 1)
          BY <3>1, <3>3, <3>4, <3>6
        <5> QED
          BY <3>1, <5>1 DEF Found
      <4> QED
        BY <2>2, <4>1, <4>2 DEF Cause
    <3> QED
      BY <3>1, <3>3, <3>4, <3>5, <3>6
  <2> QED
    BY <2>3, <2>4
<1> QED
  BY <1>2, <1>3

\* One payload is taken: it is written or has a cause, and so have those before.
LEMMA WriteKeepsKept ==
    ASSUME RInv, Kept, NEW k \in pending, Write(k)
    PROVE  Kept'
<1>1. /\ k \in DOMAIN nodes /\ pending' = pending \ {k}
      /\ UNCHANGED <<pc, nodes>> /\ pc = "write"
      /\ image \in Seq(Bytes) /\ nodes[k] \in Node
  <2>1. nodes \in Seq(Node) /\ pending \subseteq DOMAIN nodes
    BY DEF RInv, TypeOK, Node
  <2> QED
    BY <2>1 DEF Write, RInv, TypeOK
<1>2. Taken' = Taken \cup {k}
  BY <1>1 DEF Taken
<1>3. \A b : InImage(b) => InImage(b)'
  <2>1. CASE Repeated(nodes[k])
    BY <2>1 DEF Write, InImage
  <2>2. CASE ~Repeated(nodes[k])
    <3>1. image' = image \o Content(nodes[k])
      BY <2>2 DEF Write
    <3>2. Content(nodes[k]) \in Seq(Bytes)
      BY <1>1, ContentIsTail
    <3>3. \A j \in DOMAIN image : j \in DOMAIN image' /\ image'[j] = image[j]
      BY <1>1, <3>1, <3>2
    <3> QED
      BY <3>3 DEF InImage
  <2> QED
    BY <2>1, <2>2
<1>4. \A m \in DOMAIN nodes, i \in 1..StreamLen, c \in Conn :
         Cause(nodes[m], c, i) => Cause(nodes[m], c, i)'
  BY <1>1 DEF Cause, Before, Found, IsDelimiter, IsNul
<1>5. \A t \in Taken : KeptOf(t)'
  <2>1. ASSUME NEW t \in Taken, NEW i \in 1..StreamLen, NEW c \in Conn, In(<<c, i>>, nodes[t])
        PROVE  InImage(<<c, i>>)' \/ Cause(nodes[t], c, i)'
    <3>1. InImage(<<c, i>>) \/ Cause(nodes[t], c, i)
      BY <1>1, <2>1 DEF Kept, KeptOf
    <3> QED
      BY <1>3, <1>4, <3>1 DEF Taken
  <2> QED
    BY <1>1, <2>1 DEF KeptOf, In
<1>6. KeptOf(k)'
  <2>1. ASSUME NEW i \in 1..StreamLen, NEW c \in Conn, In(<<c, i>>, nodes[k])
        PROVE  InImage(<<c, i>>)' \/ Cause(nodes[k], c, i)'
    <3>1. CASE ~Repeated(nodes[k])
      <4>1. image' = image \o Content(nodes[k])
        BY <3>1 DEF Write
      <4>2. CASE Cause(nodes[k], c, i)
        BY <1>1, <1>4, <4>2
      <4>3. CASE \E j \in DOMAIN Content(nodes[k]) : Content(nodes[k])[j] = <<c, i>>
        <5>1. PICK j \in DOMAIN Content(nodes[k]) : Content(nodes[k])[j] = <<c, i>>
          BY <4>3
        <5>2. Content(nodes[k]) \in Seq(Bytes)
          BY <1>1, ContentIsTail
        <5>3. Len(image) + j \in DOMAIN image' /\ image'[Len(image) + j] = <<c, i>>
          BY <1>1, <4>1, <5>1, <5>2
        <5> QED
          BY <5>3 DEF InImage
      <4> QED
        BY <2>1, <4>2, <4>3, ContentLeavesOut
    <3>2. CASE Repeated(nodes[k])
      <4>1. prevSequenceNumber = nodes[k].sequenceNumber
        BY <3>2 DEF Repeated
      <4>2. CASE nodes[k].sequenceNumber = 0
        <5>1. Cause(nodes[k], c, i)
          BY <4>2 DEF Cause
        <5> QED
          BY <1>1, <1>4, <5>1
      <4>3. ASSUME NEW t \in Taken, nodes[t].sequenceNumber = prevSequenceNumber
            PROVE  InImage(<<c, i>>)' \/ Cause(nodes[k], c, i)'
        <5>1. CASE nodes[t] = nodes[k]
          BY <1>5, <1>1, <2>1, <5>1 DEF KeptOf, In
        <5>2. CASE nodes[t] # nodes[k]
          <6>1. Cause(nodes[k], c, i)
            BY <4>1, <4>3, <5>2 DEF Cause, Taken
          <6> QED
            BY <1>1, <1>4, <6>1
        <5> QED
          BY <5>1, <5>2
      <4> QED
        BY <1>1, <4>1, <4>2, <4>3 DEF RInv, Sorting
    <3> QED
      BY <3>1, <3>2
  <2> QED
    BY <1>1, <2>1 DEF KeptOf, In
<1> QED
  BY <1>1, <1>2, <1>5, <1>6 DEF Kept

LEMMA KeptInductive == RInv /\ Kept /\ [Next]_vars => Kept'
<1> SUFFICES ASSUME RInv, Kept, [Next]_vars PROVE Kept'
  OBVIOUS
<1>1. CASE Return \/ UNCHANGED vars
  <2>1. UNCHANGED <<nodes, pending, image>> /\ (pc' \in {"write", "done"} => pc \in {"write", "done"})
    BY <1>1 DEF Return, vars
  <2> QED
    BY <2>1 DEF Kept, KeptOf, Taken, In, InImage, Cause, Before, Found, IsDelimiter, IsNul
<1>2. CASE EndOfFile
  BY <1>2 DEF EndOfFile, Kept, Taken
<1>3. ASSUME NEW k \in pending, Write(k) PROVE Kept'
  BY <1>3, WriteKeepsKept
<1>4. CASE Truncated \/ \E f \in Formats : Mismatch(f) \/ OtherPacket(f)
  <2>1. pc' \notin {"write", "done"}
    BY <1>4 DEF Truncated, Mismatch, OtherPacket
  <2> QED
    BY <2>1 DEF Kept
<1>5. CASE \/ \E c \in Conn, first, last, end \in 1..StreamLen : Payload(c, first, last, end)
           \/ \E f \in Formats, number \in 0..(Modulus - 1) : OtherPayload(f, number)
  <2>1. pc' \notin {"write", "done"}
    BY <1>5 DEF Payload, OtherPayload
  <2> QED
    BY <2>1 DEF Kept
<1> QED
  BY <1>1, <1>2, <1>3, <1>4, <1>5 DEF Next

\* Every byte captured reaches the image or has a cause to be missing: the header,
\* the number 0, a number shared with another segment, or no header found before it.
THEOREM NothingElseMissing == Spec => []MissingCauses
<1>1. Init => Kept
  BY DEF Init, Kept
<1>2. RInv /\ Kept => MissingCauses
  <2> SUFFICES ASSUME RInv, Kept, pc = "done",
                      NEW k \in DOMAIN nodes, NEW i \in 1..StreamLen, NEW c \in Conn,
                      In(<<c, i>>, nodes[k]), ~InImage(<<c, i>>)
               PROVE  Cause(nodes[k], c, i)
    BY DEF MissingCauses, Cause, InImage
  <2>1. k \in Taken
    BY DEF RInv, Taken
  <2> QED
    BY <2>1 DEF Kept, KeptOf
<1> QED
  BY <1>1, <1>2, KeptInductive, Invariant, PTL DEF Spec
-----------------------------------------------------------------------------
(* A clean capture.                                                        *)

\* Each payload of a TCP capture is a segment, and whole unless the file ended
\* inside it.
Cut(k) == \E c \in Conn, first, last, end \in 1..StreamLen :
             /\ first <= end /\ end <= last
             /\ nodes[k] = Segment(c, first, last, end)
             /\ ended \/ end = last

Cuts == /\ format = None => nodes = <<>>
        /\ \A k \in DOMAIN nodes :
              IF format = TCP THEN Cut(k) ELSE nodes[k].data = <<Foreign>>

FirstOf(c, k) == nodes[k].sequenceNumber - isn[c]
LastOf(c, k)  == FirstOf(c, k) + Len(nodes[k].data) - 1

\* Payload k is bytes f to l of the stream of c.
Holds(c, k, f, l) ==
    /\ f \in 1..StreamLen /\ l \in f..StreamLen
    /\ nodes[k].sequenceNumber = isn[c] + f
    /\ nodes[k].data = [i \in 1..(l - f + 1) |-> <<c, f + i - 1>>]

LEMMA HoldsIn ==
    ASSUME NEW c, NEW k, NEW f, NEW l, Holds(c, k, f, l), isn[c] \in Nat, StreamLen \in Nat
    PROVE  /\ \A b : In(b, nodes[k]) <=> \E i \in f..l : b = <<c, i>>
           /\ FirstOf(c, k) = f /\ LastOf(c, k) = l
<1>1. /\ f \in Nat /\ l \in Nat /\ f <= l /\ nodes[k].sequenceNumber = isn[c] + f
      /\ nodes[k].data = [i \in 1..(l - f + 1) |-> <<c, f + i - 1>>]
  BY DEF Holds
<1>2. ASSUME NEW b, In(b, nodes[k]) PROVE \E i \in f..l : b = <<c, i>>
  <2>1. PICK i \in 1..(l - f + 1) : b = <<c, f + i - 1>>
    BY <1>1, <1>2 DEF In
  <2>2. f + i - 1 \in f..l
    BY <1>1
  <2> QED
    BY <2>1, <2>2
<1>3. ASSUME NEW b, NEW i \in f..l, b = <<c, i>> PROVE In(b, nodes[k])
  <2>1. i - f + 1 \in 1..(l - f + 1) /\ f + (i - f + 1) - 1 = i
    BY <1>1
  <2>2. i - f + 1 \in DOMAIN nodes[k].data /\ nodes[k].data[i - f + 1] = <<c, f + (i - f + 1) - 1>>
    BY <1>1, <2>1
  <2> QED
    BY <1>3, <2>1, <2>2 DEF In
<1>4. Len(nodes[k].data) = l - f + 1
  BY <1>1
<1>5. FirstOf(c, k) = f /\ LastOf(c, k) = l
  BY <1>1, <1>4 DEF FirstOf, LastOf
<1> QED
  BY <1>2, <1>3, <1>5

\* Every payload of a clean capture is a stretch of the connection, numbered in
\* order.
LEMMA CleanHolds ==
    ASSUME RInv, Cuts, NEW c \in Conn, Clean(c), NEW k \in DOMAIN nodes
    PROVE  \E f, l \in 1..StreamLen : Holds(c, k, f, l)
<1>10. format = TCP
  <2>1. PICK m \in DOMAIN nodes : In(<<c, HeaderLen>>, nodes[m])
    BY DEF Clean, HeaderFirst
  <2>2. <<c, HeaderLen>> # Foreign
    BY SizeAssumption DEF Foreign
  <2>3. nodes[m].data # <<Foreign>>
    BY <2>1, <2>2 DEF In
  <2> QED
    BY <2>3 DEF Cuts
<1>1. PICK d \in Conn, f \in 1..StreamLen, l \in 1..StreamLen :
        f <= l /\ nodes[k] = Segment(d, f, l, l)
  BY <1>10 DEF Cuts, Cut, Clean
<1>2. Modulus \in Nat \ {0} /\ StreamLen \in Nat /\ isn \in [Conn -> 0..(Modulus - 1)]
  BY SizeAssumption DEF RInv, TypeOK
<1>3. nodes[k].data = [i \in 1..(l - f + 1) |-> <<d, f + i - 1>>]
  <2>1. \A i \in 1..(l - f + 1) : f + i - 1 <= l
    BY <1>2
  <2> QED
    BY <1>1, <2>1 DEF Segment
<1>4. \A i \in f..l : Captured(<<d, i>>)
  <2> SUFFICES ASSUME NEW i \in f..l PROVE In(<<d, i>>, nodes[k])
    BY DEF Captured
  <2>1. i - f + 1 \in 1..(l - f + 1) /\ f + (i - f + 1) - 1 = i
    BY <1>2
  <2>2. i - f + 1 \in DOMAIN nodes[k].data /\ nodes[k].data[i - f + 1] = <<d, f + (i - f + 1) - 1>>
    BY <1>3, <2>1
  <2> QED
    BY <2>1, <2>2 DEF In
<1>5. f \in f..l
  BY <1>1, <1>2
<1>6. d = c
  BY <1>4, <1>5 DEF Clean
<1>7. isn[c] + f < Modulus
  <2>1. ~(isn[c] + f >= Modulus)
    BY <1>4, <1>5, <1>6 DEF Clean, Wrapped
  <2> QED
    BY <1>2, <2>1
<1>8. nodes[k].sequenceNumber = isn[c] + f
  <2>1. nodes[k].sequenceNumber = (isn[c] + f) % Modulus
    BY <1>1, <1>6 DEF Segment, SequenceNumber
  <2>2. isn[c] + f \in 0..(Modulus - 1)
    BY <1>2, <1>7
  <2> QED
    BY <1>2, <2>1, <2>2
<1>9. l \in f..StreamLen
  BY <1>1, <1>2
<1> QED
  BY <1>3, <1>6, <1>8, <1>9 DEF Holds

\* What a clean capture looks like: payloads are equal or apart, those with the same
\* number equal, and only the one with the header begins before its end.
CleanShape(c, h) ==
    /\ isn[c] \in Nat /\ StreamLen \in Nat /\ HeaderLen \in 1..StreamLen
    /\ \A k \in DOMAIN nodes : Holds(c, k, FirstOf(c, k), LastOf(c, k))
    /\ \A k, m \in DOMAIN nodes :
          nodes[k] = nodes[m] \/ LastOf(c, k) < FirstOf(c, m) \/ LastOf(c, m) < FirstOf(c, k)
    /\ h \in DOMAIN nodes /\ FirstOf(c, h) <= HeaderLen /\ HeaderLen <= LastOf(c, h)
    /\ \A k \in DOMAIN nodes : nodes[k] = nodes[h] \/ HeaderLen < FirstOf(c, k)

LEMMA CleanIs ==
    ASSUME RInv, Cuts, NEW c \in Conn, Clean(c)
    PROVE  \E h : CleanShape(c, h)
<1>1. isn[c] \in Nat /\ StreamLen \in Nat /\ HeaderLen \in 1..StreamLen
  <2>1. isn \in [Conn -> 0..(Modulus - 1)] /\ Modulus \in Nat \ {0}
    BY SizeAssumption DEF RInv, TypeOK
  <2> QED
    BY <2>1, SizeAssumption
<1>2. ASSUME NEW k \in DOMAIN nodes
      PROVE  /\ Holds(c, k, FirstOf(c, k), LastOf(c, k))
             /\ FirstOf(c, k) \in 1..StreamLen /\ LastOf(c, k) \in FirstOf(c, k)..StreamLen
             /\ \A b : In(b, nodes[k]) <=> \E i \in FirstOf(c, k)..LastOf(c, k) : b = <<c, i>>
  <2>1. PICK f, l \in 1..StreamLen : Holds(c, k, f, l)
    BY CleanHolds
  <2>2. FirstOf(c, k) = f /\ LastOf(c, k) = l /\ \A b : In(b, nodes[k]) <=> \E i \in f..l : b = <<c, i>>
    BY <1>1, <2>1, HoldsIn
  <2>3. f \in 1..StreamLen /\ l \in f..StreamLen
    BY <2>1 DEF Holds
  <2> QED
    BY <2>1, <2>2, <2>3, Zenon
<1>3. ASSUME NEW k \in DOMAIN nodes, NEW m \in DOMAIN nodes, NEW i \in Nat,
             FirstOf(c, k) <= i, i <= LastOf(c, k), FirstOf(c, m) <= i, i <= LastOf(c, m)
      PROVE  nodes[k] = nodes[m]
  <2>1. i \in FirstOf(c, k)..LastOf(c, k) /\ i \in FirstOf(c, m)..LastOf(c, m) /\ i \in 1..StreamLen
    BY <1>1, <1>2, <1>3
  <2>2. In(<<c, i>>, nodes[k]) /\ In(<<c, i>>, nodes[m])
    BY <1>2, <2>1
  <2>3. <<c, i>> \in Bytes
    BY <2>1 DEF Bytes
  <2> QED
    BY <2>2, <2>3 DEF Clean, Overlap
<1>4. ASSUME NEW k \in DOMAIN nodes, NEW m \in DOMAIN nodes, nodes[k] # nodes[m]
      PROVE  LastOf(c, k) < FirstOf(c, m) \/ LastOf(c, m) < FirstOf(c, k)
  <2>1. /\ FirstOf(c, k) \in Nat /\ LastOf(c, k) \in Nat /\ FirstOf(c, k) <= LastOf(c, k)
        /\ FirstOf(c, m) \in Nat /\ LastOf(c, m) \in Nat /\ FirstOf(c, m) <= LastOf(c, m)
    BY <1>1, <1>2
  <2>2. ~(FirstOf(c, k) <= FirstOf(c, m) /\ FirstOf(c, m) <= LastOf(c, k))
    BY <1>3, <1>4, <2>1
  <2>3. ~(FirstOf(c, m) <= FirstOf(c, k) /\ FirstOf(c, k) <= LastOf(c, m))
    BY <1>3, <1>4, <2>1
  <2> QED
    BY <2>1, <2>2, <2>3
<1>5. PICK h \in DOMAIN nodes : /\ In(<<c, HeaderLen>>, nodes[h])
                                /\ \A j \in 1..(HeaderLen - 1) : Captured(<<c, j>>) => In(<<c, j>>, nodes[h])
  BY DEF Clean, HeaderFirst
<1>6. \A i \in Nat : In(<<c, i>>, nodes[h]) => FirstOf(c, h) <= i /\ i <= LastOf(c, h)
  <2> SUFFICES ASSUME NEW i \in Nat, In(<<c, i>>, nodes[h])
               PROVE  FirstOf(c, h) <= i /\ i <= LastOf(c, h)
    OBVIOUS
  <2>1. PICK j \in FirstOf(c, h)..LastOf(c, h) : <<c, i>> = <<c, j>>
    BY <1>2
  <2>2. i = j
    BY <2>1
  <2> QED
    BY <1>1, <1>2, <2>2
<1>7. FirstOf(c, h) <= HeaderLen /\ HeaderLen <= LastOf(c, h)
  BY <1>1, <1>5, <1>6
<1>8. ASSUME NEW k \in DOMAIN nodes, nodes[k] # nodes[h] PROVE HeaderLen < FirstOf(c, k)
  <2>1. /\ FirstOf(c, k) \in 1..StreamLen /\ LastOf(c, k) \in Nat /\ FirstOf(c, k) <= LastOf(c, k)
        /\ FirstOf(c, h) \in Nat /\ LastOf(c, h) \in Nat
    BY <1>1, <1>2
  <2>2. CASE LastOf(c, h) < FirstOf(c, k)
    BY <1>1, <1>7, <2>1, <2>2
  <2>3. CASE LastOf(c, k) < FirstOf(c, h)
    <3>1. FirstOf(c, k) \in 1..(HeaderLen - 1) /\ FirstOf(c, k) < FirstOf(c, h)
      BY <1>1, <1>7, <2>1, <2>3
    <3>2. FirstOf(c, k) \in FirstOf(c, k)..LastOf(c, k)
      BY <2>1
    <3>3. Captured(<<c, FirstOf(c, k)>>)
      BY <1>2, <3>2 DEF Captured
    <3>4. FirstOf(c, h) <= FirstOf(c, k)
      BY <1>5, <1>6, <2>1, <3>1, <3>3
    <3> QED
      BY <2>1, <3>1, <3>4
  <2> QED
    BY <1>4, <1>8, <2>2, <2>3
<1>9. CleanShape(c, h)
  BY <1>1, <1>2, <1>4, <1>7, <1>8 DEF CleanShape
<1> QED
  BY <1>9

\* The image while it is written: in order, and what the payloads taken hold of the
\* stream after the header.
Restored(c) ==
    /\ \A j, k \in DOMAIN image : j < k => image[j][2] < image[k][2]
    /\ \A b : InImage(b) <=>
                \E i \in (HeaderLen + 1)..StreamLen :
                   b = <<c, i>> /\ \E t \in Taken : In(b, nodes[t])
    /\ Taken # {} => \E t \in Taken : In(<<c, HeaderLen>>, nodes[t])

Restoring == \A c \in Conn : pc \in {"write", "done"} /\ Clean(c) => Restored(c)

\* Content is all of the data but for the first payload.
LEMMA ContentIs ==
    ASSUME RInv, NEW k \in pending
    PROVE  /\ Taken # {} => Content(nodes[k]) = nodes[k].data
           /\ Taken = {} /\ (\E i \in DOMAIN nodes[k].data : Found(nodes[k], i)) =>
                \E at \in DOMAIN nodes[k].data :
                   /\ Found(nodes[k], at)
                   /\ Content(nodes[k]) = SubSeq(nodes[k].data, at + 1, Len(nodes[k].data))
<1>1. nodes \in Seq(Node) /\ Len(nodes) \in Nat /\ DOMAIN nodes = 1..Len(nodes) /\ pending \subseteq DOMAIN nodes
  <2>1. nodes \in Seq(Node) /\ pending \subseteq DOMAIN nodes
    <3>1. nodes \in Seq(Node)
      BY DEF RInv, TypeOK, Node
    <3> QED
      BY <3>1 DEF RInv, TypeOK
  <2>2. \A S : \A s \in Seq(S) : Len(s) \in Nat /\ DOMAIN s = 1..Len(s)
    OBVIOUS
  <2> QED
    BY <2>1, <2>2
<1>2. IsFiniteSet(DOMAIN nodes) /\ Cardinality(DOMAIN nodes) = Len(nodes)
  <2>1. /\ IsFiniteSet(1..Len(nodes))
        /\ Cardinality(1..Len(nodes)) = IF 1 > Len(nodes) THEN 0 ELSE Len(nodes) - 1 + 1
    BY <1>1, FS_Interval
  <2> QED
    BY <1>1, <2>1
<1>3. /\ Cardinality(pending) <= Cardinality(DOMAIN nodes)
      /\ Cardinality(DOMAIN nodes) = Cardinality(pending) => DOMAIN nodes = pending
      /\ IsFiniteSet(pending)
  BY <1>1, <1>2, FS_Subset
<1>4. Cardinality(pending) \in Nat
  BY <1>3, FS_CardinalityType
<1>5. CASE Taken # {}
  <2>1. Cardinality(pending) < Len(nodes)
    BY <1>1, <1>2, <1>3, <1>4, <1>5 DEF Taken
  <2> QED
    BY <1>5, <2>1 DEF Content
<1>6. CASE Taken = {}
  <2>1. pending = DOMAIN nodes
    BY <1>1, <1>6 DEF Taken
  <2>2. ~(Cardinality(pending) < Len(nodes))
    BY <1>1, <1>2, <2>1
  <2>3. ASSUME NEW i \in DOMAIN nodes[k].data, Found(nodes[k], i)
        PROVE  \E at \in DOMAIN nodes[k].data :
                  /\ Found(nodes[k], at)
                  /\ Content(nodes[k]) = SubSeq(nodes[k].data, at + 1, Len(nodes[k].data))
    <3> DEFINE at == CHOOSE j \in DOMAIN nodes[k].data : Found(nodes[k], j)
    <3>1. at \in DOMAIN nodes[k].data /\ Found(nodes[k], at)
      BY <2>3
    <3>2. Content(nodes[k]) = SubSeq(nodes[k].data, at + 1, Len(nodes[k].data))
      BY <2>2, <2>3, Zenon DEF Content
    <3> QED
      BY <3>1, <3>2
  <2> QED
    BY <1>6, <2>3
<1> QED
  BY <1>5, <1>6

\* w is the bytes f to l of the stream of c; none if f is l + 1.
Run(c, f, l, w) ==
    /\ w \in Seq(Bytes) /\ Len(w) = l - f + 1
    /\ \A j \in 1..Len(w) : w[j] = <<c, f + j - 1>>

LEMMA RestOf ==
    ASSUME NEW s \in Seq(Bytes), NEW n, n = Len(s), NEW at \in 0..n
    PROVE  /\ SubSeq(s, at + 1, n) \in Seq(Bytes) /\ Len(SubSeq(s, at + 1, n)) = n - at
           /\ \A j \in 1..(n - at) : SubSeq(s, at + 1, n)[j] = s[at + j]
  OBVIOUS

LEMMA RunOf ==
    ASSUME NEW c \in Conn, StreamLen \in Nat, NEW f \in 1..StreamLen, NEW l \in f..StreamLen
    PROVE  Run(c, f, l, [i \in 1..(l - f + 1) |-> <<c, f + i - 1>>])
<1>1. \A i \in 1..(l - f + 1) : <<c, f + i - 1>> \in Bytes
  <2>1. \A i \in 1..(l - f + 1) : f + i - 1 \in 1..StreamLen
    OBVIOUS
  <2> QED
    BY <2>1 DEF Bytes
<1>2. l - f + 1 \in Nat
  OBVIOUS
<1> QED
  BY <1>1, <1>2 DEF Run

LEMMA RunTail ==
    ASSUME NEW c, NEW f \in Nat, NEW l \in Nat, NEW w, Run(c, f, l, w), NEW at \in 0..Len(w)
    PROVE  Run(c, f + at, l, SubSeq(w, at + 1, Len(w)))
<1>1. w \in Seq(Bytes) /\ Len(w) \in Nat /\ Len(w) = l - f + 1
      /\ \A j \in 1..Len(w) : w[j] = <<c, f + j - 1>>
  BY DEF Run
<1>2. PICK n \in Nat : n = Len(w)
  BY <1>1
<1>3. PICK t : t = SubSeq(w, at + 1, n)
  OBVIOUS
<1>4. t \in Seq(Bytes) /\ Len(t) = n - at /\ \A j \in 1..(n - at) : t[j] = w[at + j]
  <2>1. w \in Seq(Bytes) /\ at \in 0..n /\ n = Len(w)
    BY <1>1, <1>2
  <2>2. /\ SubSeq(w, at + 1, n) \in Seq(Bytes) /\ Len(SubSeq(w, at + 1, n)) = n - at
        /\ \A j \in 1..(n - at) : SubSeq(w, at + 1, n)[j] = w[at + j]
    BY <2>1, RestOf
  <2> QED
    BY <1>3, <2>2, Zenon
<1>5. ASSUME NEW j \in 1..(n - at) PROVE t[j] = <<c, (f + at) + j - 1>>
  <2>1. at + j \in 1..n /\ f + (at + j) - 1 = (f + at) + j - 1
    BY <1>2
  <2> QED
    BY <1>1, <1>2, <1>4, <2>1
<1>6. n - at = l - (f + at) + 1
  BY <1>1, <1>2
<1> QED
  BY <1>2, <1>3, <1>4, <1>5, <1>6 DEF Run

\* When payload k is taken: what was taken has lower numbers, and the image only
\* bytes before those of k, unless k is a repetition.
LEMMA TakenBefore ==
    ASSUME RInv, NEW c \in Conn, NEW h, CleanShape(c, h), Restored(c),
           NEW k \in pending, Write(k), ~Repeated(nodes[k])
    PROVE  /\ \A t \in Taken : FirstOf(c, t) < FirstOf(c, k) /\ LastOf(c, t) < FirstOf(c, k)
           /\ \A p \in pending : FirstOf(c, k) <= FirstOf(c, p)
           /\ \A j \in DOMAIN image : image[j][2] < FirstOf(c, k)
<1>1. /\ pending \subseteq DOMAIN nodes /\ k \in DOMAIN nodes /\ Taken \subseteq DOMAIN nodes
      /\ prevSequenceNumber \in Nat
  BY SizeAssumption DEF RInv, TypeOK, Taken
<1>2. isn[c] \in Nat /\ StreamLen \in Nat
  BY DEF CleanShape
<1>3. \A m \in DOMAIN nodes :
         /\ nodes[m].sequenceNumber = isn[c] + FirstOf(c, m)
         /\ FirstOf(c, m) \in Nat /\ LastOf(c, m) \in Nat /\ FirstOf(c, m) <= LastOf(c, m)
         /\ \A b : In(b, nodes[m]) <=> \E i \in FirstOf(c, m)..LastOf(c, m) : b = <<c, i>>
  <2> SUFFICES ASSUME NEW m \in DOMAIN nodes
               PROVE  /\ nodes[m].sequenceNumber = isn[c] + FirstOf(c, m)
                      /\ FirstOf(c, m) \in Nat /\ LastOf(c, m) \in Nat /\ FirstOf(c, m) <= LastOf(c, m)
                      /\ \A b : In(b, nodes[m]) <=> \E i \in FirstOf(c, m)..LastOf(c, m) : b = <<c, i>>
    OBVIOUS
  <2>1. Holds(c, m, FirstOf(c, m), LastOf(c, m))
    BY DEF CleanShape
  <2>2. /\ nodes[m].sequenceNumber = isn[c] + FirstOf(c, m)
        /\ FirstOf(c, m) \in 1..StreamLen /\ LastOf(c, m) \in FirstOf(c, m)..StreamLen
    BY <2>1 DEF Holds
  <2>3. \A b : In(b, nodes[m]) <=> \E i \in FirstOf(c, m)..LastOf(c, m) : b = <<c, i>>
    BY <1>2, <2>1, HoldsIn
  <2> QED
    BY <1>2, <2>2, <2>3
<1>4. \A p \in pending : FirstOf(c, k) <= FirstOf(c, p)
  <2>1. \A p \in pending : nodes[k].sequenceNumber <= nodes[p].sequenceNumber
    BY DEF Write, Before
  <2> QED
    BY <1>1, <1>2, <1>3, <2>1
<1>5. ASSUME NEW t \in Taken PROVE FirstOf(c, t) < FirstOf(c, k) /\ LastOf(c, t) < FirstOf(c, k)
  <2>1. Sorting
    BY DEF RInv, Write
  <2>2. prevSequenceNumber <= nodes[k].sequenceNumber
    BY <1>1, <1>2, <1>3, <2>1 DEF Sorting
  <2>3. nodes[t].sequenceNumber <= prevSequenceNumber /\ prevSequenceNumber # nodes[k].sequenceNumber
    BY <2>1 DEF Sorting, Repeated
  <2>4. FirstOf(c, t) < FirstOf(c, k)
    BY <1>1, <1>2, <1>3, <2>2, <2>3
  <2>5. nodes[t] = nodes[k] \/ LastOf(c, t) < FirstOf(c, k) \/ LastOf(c, k) < FirstOf(c, t)
    BY <1>1 DEF CleanShape
  <2>6. nodes[t] # nodes[k]
    BY <1>1, <1>3, <2>4 DEF FirstOf
  <2> QED
    BY <1>1, <1>3, <2>4, <2>5, <2>6
<1>6. ASSUME NEW j \in DOMAIN image PROVE image[j][2] < FirstOf(c, k)
  <2>1. InImage(image[j])
    BY DEF InImage
  <2>2. PICK i \in (HeaderLen + 1)..StreamLen, t \in Taken : image[j] = <<c, i>> /\ In(<<c, i>>, nodes[t])
    BY <2>1 DEF Restored
  <2>3. PICK e \in FirstOf(c, t)..LastOf(c, t) : <<c, i>> = <<c, e>>
    BY <1>1, <1>3, <2>2
  <2>4. image[j][2] = e
    BY <2>2, <2>3
  <2> QED
    BY <1>1, <1>3, <1>5, <2>4
<1> QED
  BY <1>4, <1>5, <1>6

\* What is written of payload k: all its bytes after the header, which begin at s.
Rest(c, k, s) ==
    /\ s \in Nat /\ HeaderLen < s /\ FirstOf(c, k) <= s
    /\ s = FirstOf(c, k) \/ s = HeaderLen + 1
    /\ s <= LastOf(c, k) + 1
    /\ Run(c, s, LastOf(c, k), Content(nodes[k]))
    /\ Taken = {} => In(<<c, HeaderLen>>, nodes[k])

LEMMA ContentIsRest ==
    ASSUME RInv, NEW c \in Conn, NEW h, CleanShape(c, h), Restored(c),
           NEW k \in pending, Write(k), ~Repeated(nodes[k])
    PROVE  \E s : Rest(c, k, s)
<1>1. /\ pending \subseteq DOMAIN nodes /\ k \in DOMAIN nodes /\ Taken \subseteq DOMAIN nodes
      /\ isn[c] \in Nat /\ StreamLen \in Nat /\ HeaderLen \in 1..StreamLen
  BY SizeAssumption DEF RInv, TypeOK, Taken, CleanShape
<1>2. PICK f, l : f = FirstOf(c, k) /\ l = LastOf(c, k)
  OBVIOUS
<1>3. Holds(c, k, f, l)
  BY <1>1, <1>2 DEF CleanShape
<1>4. f \in 1..StreamLen /\ l \in f..StreamLen
  BY <1>3 DEF Holds
<1>5. Run(c, f, l, nodes[k].data)
  <2>1. Run(c, f, l, [i \in 1..(l - f + 1) |-> <<c, f + i - 1>>])
    BY <1>1, <1>4, RunOf
  <2> QED
    BY <1>3, <2>1, Zenon DEF Holds
<1>6. CASE Taken = {}
  <2>1. f <= FirstOf(c, h) /\ FirstOf(c, h) <= HeaderLen /\ HeaderLen <= LastOf(c, h) /\ h \in DOMAIN nodes
    <3>1. h \in DOMAIN nodes /\ FirstOf(c, h) <= HeaderLen /\ HeaderLen <= LastOf(c, h)
      BY DEF CleanShape
    <3>2. h \in pending
      BY <1>6, <3>1 DEF Taken
    <3>3. FirstOf(c, k) <= FirstOf(c, h)
      BY <3>2, TakenBefore
    <3> QED
      BY <1>2, <3>1, <3>3
  <2>2. FirstOf(c, h) \in Nat
    <3>1. Holds(c, h, FirstOf(c, h), LastOf(c, h))
      BY <2>1 DEF CleanShape
    <3> QED
      BY <1>1, <3>1 DEF Holds
  <2>3. nodes[k] = nodes[h]
    BY <1>1, <1>2, <1>4, <2>1, <2>2 DEF CleanShape
  <2>4. f <= HeaderLen /\ HeaderLen <= l
    BY <1>1, <1>2, <2>1, <2>3 DEF FirstOf, LastOf
  <2>5. /\ nodes[k].data \in Seq(Bytes) /\ Len(nodes[k].data) = l - f + 1
        /\ \A j \in 1..Len(nodes[k].data) : nodes[k].data[j] = <<c, f + j - 1>>
        /\ DOMAIN nodes[k].data = 1..(l - f + 1)
    BY <1>5 DEF Run
  <2> DEFINE hd == HeaderLen - f + 1
  <2>6. hd \in DOMAIN nodes[k].data /\ IsDelimiter(nodes[k].data[hd]) /\ Found(nodes[k], hd)
    <3>1. hd \in 1..(l - f + 1) /\ f + hd - 1 = HeaderLen
      BY <1>1, <1>4, <2>4
    <3>2. nodes[k].data[hd] = <<c, HeaderLen>>
      BY <2>5, <3>1
    <3>3. ASSUME NEW j \in 1..(hd - 1)
          PROVE  ~IsDelimiter(nodes[k].data[j]) /\ ~IsNul(nodes[k].data[j])
      <4>1. nodes[k].data[j] = <<c, f + j - 1>> /\ f + j - 1 \in 1..(HeaderLen - 1)
        BY <1>1, <1>4, <2>5, <3>1, <3>3
      <4> QED
        BY <4>1, SizeAssumption DEF IsDelimiter, IsNul
    <3> QED
      BY <2>5, <3>1, <3>2, <3>3 DEF IsDelimiter, Found
  <2>7. PICK at \in DOMAIN nodes[k].data :
           /\ Found(nodes[k], at)
           /\ Content(nodes[k]) = SubSeq(nodes[k].data, at + 1, Len(nodes[k].data))
    BY <1>6, <2>6, ContentIs
  <2>8. nodes[k].data[at] = <<c, f + at - 1>> /\ at \in 1..(l - f + 1)
    BY <2>5, <2>7
  <2>9. f + at - 1 = HeaderLen
    <3>1. ~(hd \in 1..(at - 1))
      BY <2>6, <2>7 DEF Found
    <3>2. at <= hd
      BY <1>1, <1>4, <2>5, <2>6, <2>8, <3>1
    <3>3. f + at - 1 \in {HeaderLen} \cup InBody
      BY <2>7, <2>8 DEF Found, IsDelimiter
    <3>4. f + at - 1 >= HeaderLen
      BY <1>1, <3>3, SizeAssumption
    <3> QED
      BY <1>1, <1>4, <2>8, <3>2, <3>4
  <2>10. f + at = HeaderLen + 1 /\ at \in 0..Len(nodes[k].data)
    <3>1. f \in Nat /\ HeaderLen \in Nat /\ l \in Nat
      BY <1>1, <1>4
    <3>2. at \in Nat /\ at \in 0..(l - f + 1)
      BY <2>8, <3>1
    <3>3. f + at = HeaderLen + 1
      BY <2>9, <3>1, <3>2
    <3> QED
      BY <2>5, <3>2, <3>3
  <2>11. Run(c, f + at, l, SubSeq(nodes[k].data, at + 1, Len(nodes[k].data)))
    <3>1. f \in Nat /\ l \in Nat
      BY <1>1, <1>4
    <3> QED
      BY <1>5, <2>10, <3>1, RunTail
  <2>12. Run(c, HeaderLen + 1, l, Content(nodes[k]))
    BY <2>7, <2>10, <2>11, Zenon
  <2>13. In(<<c, HeaderLen>>, nodes[k])
    <3>1. nodes[k].data[at] = <<c, HeaderLen>>
      BY <2>8, <2>9
    <3> QED
      BY <2>7, <3>1 DEF In
  <2>14. /\ HeaderLen + 1 \in Nat /\ HeaderLen < HeaderLen + 1
         /\ f <= HeaderLen + 1 /\ HeaderLen + 1 <= l + 1
    BY <1>1, <1>4, <2>4
  <2>15. Rest(c, k, HeaderLen + 1)
    BY <1>2, <2>12, <2>13, <2>14 DEF Rest
  <2> QED
    BY <2>15
<1>7. CASE Taken # {}
  <2>1. PICK t \in Taken : In(<<c, HeaderLen>>, nodes[t])
    BY <1>7 DEF Restored
  <2>2. FirstOf(c, t) < f /\ t \in DOMAIN nodes
    BY <1>1, <1>2, TakenBefore
  <2>3. FirstOf(c, t) <= HeaderLen /\ FirstOf(c, t) \in Nat
    <3>1. Holds(c, t, FirstOf(c, t), LastOf(c, t))
      BY <2>2 DEF CleanShape
    <3>2. PICK e \in FirstOf(c, t)..LastOf(c, t) : <<c, HeaderLen>> = <<c, e>>
      BY <1>1, <2>1, <3>1, HoldsIn
    <3>3. FirstOf(c, t) \in Nat /\ HeaderLen = e
      BY <3>1, <3>2 DEF Holds
    <3> QED
      BY <3>2, <3>3
  <2>4. nodes[t] = nodes[h]
    BY <1>1, <2>2, <2>3 DEF CleanShape
  <2>5. nodes[k] # nodes[h]
    BY <1>2, <1>4, <2>2, <2>3, <2>4 DEF FirstOf
  <2>6. HeaderLen < f
    BY <1>1, <1>2, <2>5 DEF CleanShape
  <2>7. Content(nodes[k]) = nodes[k].data
    BY <1>7, ContentIs
  <2>8. f \in Nat /\ f <= f /\ f <= l + 1
    BY <1>1, <1>4
  <2>9. Run(c, f, l, Content(nodes[k]))
    BY <1>5, <2>7, Zenon
  <2>10. Rest(c, k, f)
    BY <1>2, <1>7, <2>6, <2>8, <2>9 DEF Rest
  <2> QED
    BY <2>10
<1> QED
  BY <1>6, <1>7

LEMMA RepeatedRestores ==
    ASSUME RInv, NEW c \in Conn, NEW h, CleanShape(c, h), Restored(c),
           NEW k \in pending, Write(k), Repeated(nodes[k])
    PROVE  Restored(c)'
<1>1. /\ pending \subseteq DOMAIN nodes /\ k \in DOMAIN nodes /\ Taken \subseteq DOMAIN nodes
      /\ isn[c] \in Nat /\ StreamLen \in Nat
  BY DEF RInv, TypeOK, Taken, CleanShape
<1>2. nodes' = nodes /\ image' = image /\ pending' = pending \ {k}
  BY DEF Write
<1>3. Taken' = Taken \cup {k}
  BY <1>1, <1>2 DEF Taken
<1>4. \A m \in DOMAIN nodes :
         /\ nodes[m].sequenceNumber = isn[c] + FirstOf(c, m)
         /\ FirstOf(c, m) \in 1..StreamLen /\ LastOf(c, m) \in FirstOf(c, m)..StreamLen
  BY DEF CleanShape, Holds
<1>5. PICK t \in Taken : nodes[t].sequenceNumber = nodes[k].sequenceNumber
  <2>1. nodes[k].sequenceNumber # 0
    BY <1>1, <1>4
  <2>2. Sorting
    BY DEF RInv, Write
  <2> QED
    BY <2>1, <2>2 DEF Sorting, Repeated
<1>6. nodes[t] = nodes[k]
  <2>1. FirstOf(c, t) = FirstOf(c, k)
    BY <1>5 DEF FirstOf
  <2>2. nodes[t] = nodes[k] \/ LastOf(c, t) < FirstOf(c, k) \/ LastOf(c, k) < FirstOf(c, t)
    BY <1>1 DEF CleanShape
  <2>3. /\ FirstOf(c, t) \in 1..StreamLen /\ LastOf(c, t) \in FirstOf(c, t)..StreamLen
        /\ FirstOf(c, k) \in 1..StreamLen /\ LastOf(c, k) \in FirstOf(c, k)..StreamLen
    BY <1>1, <1>4
  <2> QED
    BY <1>1, <2>1, <2>2, <2>3
<1>7. \A b : (\E m \in Taken' : In(b, nodes[m])) <=> \E m \in Taken : In(b, nodes[m])
  BY <1>3, <1>6
<1>8. \A b : InImage(b)' <=> InImage(b)
  BY <1>2 DEF InImage
<1>9. /\ \A j, m \in DOMAIN image' : j < m => image'[j][2] < image'[m][2]
      /\ Taken' # {} => \E m \in Taken' : In(<<c, HeaderLen>>, nodes'[m])
  BY <1>2, <1>3, <1>5 DEF Restored
<1>10. \A b : InImage(b)' <=> \E i \in (HeaderLen + 1)..StreamLen :
                                 b = <<c, i>> /\ \E m \in Taken' : In(b, nodes[m])
  BY <1>7, <1>8 DEF Restored
<1> QED
  BY <1>2, <1>9, <1>10 DEF Restored, In

LEMMA WriteRestores ==
    ASSUME RInv, NEW c \in Conn, NEW h, CleanShape(c, h), Restored(c),
           NEW k \in pending, Write(k), ~Repeated(nodes[k])
    PROVE  Restored(c)'
<1>1. /\ pending \subseteq DOMAIN nodes /\ k \in DOMAIN nodes
      /\ isn[c] \in Nat /\ StreamLen \in Nat /\ HeaderLen \in 1..StreamLen
      /\ image \in Seq(Bytes)
  BY DEF RInv, TypeOK, CleanShape
<1>2. nodes' = nodes /\ image' = image \o Content(nodes[k]) /\ pending' = pending \ {k}
  BY DEF Write
<1>3. Taken' = Taken \cup {k}
  BY <1>1, <1>2 DEF Taken
<1>4. PICK s : Rest(c, k, s)
  BY ContentIsRest
<1>5. PICK w : w = Content(nodes[k])
  OBVIOUS
<1>6. /\ s \in Nat /\ HeaderLen < s /\ FirstOf(c, k) <= s
      /\ s = FirstOf(c, k) \/ s = HeaderLen + 1
      /\ w \in Seq(Bytes) /\ Len(w) = LastOf(c, k) - s + 1
      /\ \A j \in 1..Len(w) : w[j] = <<c, s + j - 1>>
  BY <1>4, <1>5 DEF Rest, Run
<1>7. PICK l \in Nat : l = LastOf(c, k) /\ l <= StreamLen /\ FirstOf(c, k) \in 1..l
  <2>1. Holds(c, k, FirstOf(c, k), LastOf(c, k))
    BY <1>1 DEF CleanShape
  <2> QED
    BY <1>1, <2>1 DEF Holds
<1>8. \A b : In(b, nodes[k]) <=> \E i \in FirstOf(c, k)..l : b = <<c, i>>
  <2>1. Holds(c, k, FirstOf(c, k), LastOf(c, k))
    BY <1>1 DEF CleanShape
  <2> QED
    BY <1>1, <1>7, <2>1, HoldsIn
<1>9. /\ image' \in Seq(Bytes) /\ Len(image') = Len(image) + Len(w)
      /\ \A j \in 1..Len(image') :
            image'[j] = IF j <= Len(image) THEN image[j] ELSE w[j - Len(image)]
  BY <1>1, <1>2, <1>5, <1>6, Concatenation
<1>10. /\ Len(image) \in Nat /\ Len(w) \in Nat /\ Len(w) = l - s + 1
       /\ DOMAIN image = 1..Len(image) /\ DOMAIN image' = 1..Len(image')
  BY <1>1, <1>6, <1>7, <1>9
<1>11. \A j \in 1..Len(image) : j \in DOMAIN image' /\ image'[j] = image[j] /\ image[j][2] < s
  <2>1. \A j \in DOMAIN image : image[j][2] < FirstOf(c, k)
    BY TakenBefore
  <2>2. \A j \in DOMAIN image : image[j][2] \in Nat
    <3>1. \A j \in DOMAIN image : \E i \in (HeaderLen + 1)..StreamLen : image[j] = <<c, i>>
      BY DEF Restored, InImage
    <3> QED
      BY <1>1, <3>1
  <2>3. ASSUME NEW j \in 1..Len(image)
        PROVE  j \in DOMAIN image' /\ image'[j] = image[j] /\ image[j][2] < s
    <3>1. j \in DOMAIN image /\ j \in DOMAIN image' /\ j <= Len(image)
      BY <1>9, <1>10, <2>3
    <3>2. image[j][2] < FirstOf(c, k) /\ image[j][2] \in Nat
      BY <2>1, <2>2, <3>1
    <3>3. image[j][2] < s
      BY <1>6, <1>7, <3>2
    <3> QED
      BY <1>9, <1>10, <3>1, <3>3
  <2> QED
    BY <2>3
<1>12. \A j \in (Len(image) + 1)..Len(image') : image'[j] = <<c, s + (j - Len(image)) - 1>>
  <2> SUFFICES ASSUME NEW j \in (Len(image) + 1)..Len(image')
               PROVE  image'[j] = <<c, s + (j - Len(image)) - 1>>
    OBVIOUS
  <2>1. j - Len(image) \in 1..Len(w) /\ j \in 1..Len(image') /\ ~(j <= Len(image))
    BY <1>9, <1>10
  <2> QED
    BY <1>6, <1>9, <2>1
<1>13. \A j, m \in DOMAIN image' : j < m => image'[j][2] < image'[m][2]
  <2> SUFFICES ASSUME NEW j \in DOMAIN image', NEW m \in DOMAIN image', j < m
               PROVE  image'[j][2] < image'[m][2]
    OBVIOUS
  <2>1. CASE m \in 1..Len(image)
    <3>1. j \in DOMAIN image /\ m \in DOMAIN image
      BY <1>10, <2>1
    <3>2. image[j][2] < image[m][2]
      BY <3>1 DEF Restored
    <3> QED
      BY <1>10, <1>11, <3>1, <3>2
  <2>2. CASE j \in 1..Len(image) /\ m \in (Len(image) + 1)..Len(image')
    <3>1. image'[j][2] < s
      BY <1>11, <2>2
    <3>2. image'[m][2] = s + (m - Len(image)) - 1
      BY <1>12, <2>2
    <3>3. image'[j][2] \in Nat
      <4>1. InImage(image[j])
        BY <1>10, <2>2 DEF InImage
      <4>2. PICK i \in (HeaderLen + 1)..StreamLen : image[j] = <<c, i>>
        BY <4>1 DEF Restored
      <4> QED
        BY <1>1, <1>11, <2>2, <4>2
    <3> QED
      BY <1>6, <1>10, <2>2, <3>1, <3>2, <3>3
  <2>3. CASE j \in (Len(image) + 1)..Len(image') /\ m \in (Len(image) + 1)..Len(image')
    <3>1. image'[j][2] = s + (j - Len(image)) - 1 /\ image'[m][2] = s + (m - Len(image)) - 1
      BY <1>12, <2>3
    <3> QED
      BY <1>6, <1>10, <2>3, <3>1
  <2> QED
    BY <1>9, <1>10, <2>1, <2>2, <2>3
<1>14. \A b : InImage(b)' <=> InImage(b) \/ \E i \in s..l : b = <<c, i>>
  <2>1. ASSUME NEW b, InImage(b)' PROVE InImage(b) \/ \E i \in s..l : b = <<c, i>>
    <3>1. PICK j \in 1..Len(image') : image'[j] = b
      BY <1>10, <2>1 DEF InImage
    <3>2. CASE j \in 1..Len(image)
      BY <1>10, <1>11, <3>1, <3>2 DEF InImage
    <3>3. CASE j \in (Len(image) + 1)..Len(image')
      <4>1. s + (j - Len(image)) - 1 \in s..l
        BY <1>6, <1>9, <1>10, <3>3
      <4> QED
        BY <1>12, <3>1, <3>3, <4>1
    <3> QED
      BY <1>9, <1>10, <3>1, <3>2, <3>3
  <2>2. ASSUME NEW b, InImage(b) PROVE InImage(b)'
    BY <1>10, <1>11, <2>2 DEF InImage
  <2>3. ASSUME NEW i \in s..l PROVE InImage(<<c, i>>)'
    <3>1. /\ Len(image) + (i - s + 1) \in (Len(image) + 1)..Len(image')
          /\ s + ((Len(image) + (i - s + 1)) - Len(image)) - 1 = i
          /\ Len(image) + (i - s + 1) \in 1..Len(image')
      BY <1>6, <1>9, <1>10, <2>3
    <3>2. image'[Len(image) + (i - s + 1)] = <<c, i>>
      BY <1>12, <3>1
    <3> QED
      BY <1>10, <3>1, <3>2 DEF InImage
  <2> QED
    BY <2>1, <2>2, <2>3
<1>15. \A i \in (HeaderLen + 1)..StreamLen : i \in s..l <=> i \in FirstOf(c, k)..l
  BY <1>1, <1>6, <1>7
<1>16. \A i \in s..l : i \in (HeaderLen + 1)..StreamLen
  BY <1>1, <1>6, <1>7
<1>17. \A b : InImage(b)' <=> \E i \in (HeaderLen + 1)..StreamLen :
                                 b = <<c, i>> /\ \E t \in Taken' : In(b, nodes[t])
  <2>1. \A b : (\E i \in s..l : b = <<c, i>>) <=>
                  \E i \in (HeaderLen + 1)..StreamLen : b = <<c, i>> /\ In(b, nodes[k])
    BY <1>8, <1>15, <1>16
  <2>2. \A b : InImage(b) <=> \E i \in (HeaderLen + 1)..StreamLen :
                                 b = <<c, i>> /\ \E t \in Taken : In(b, nodes[t])
    BY DEF Restored
  <2>3. \A b : (\E t \in Taken' : In(b, nodes[t])) <=>
                  (\E t \in Taken : In(b, nodes[t])) \/ In(b, nodes[k])
    BY <1>3
  <2> QED
    BY <1>14, <2>1, <2>2, <2>3
<1>18. \E t \in Taken' : In(<<c, HeaderLen>>, nodes[t])
  <2>1. CASE Taken = {}
    BY <1>3, <1>4, <2>1 DEF Rest
  <2>2. CASE Taken # {}
    BY <1>3, <2>2 DEF Restored
  <2> QED
    BY <2>1, <2>2
<1> QED
  BY <1>2, <1>13, <1>17, <1>18 DEF Restored, In

LEMMA CutsInductive == Cuts /\ TypeOK /\ [Next]_vars => Cuts'
<1> SUFFICES ASSUME Cuts, TypeOK, [Next]_vars PROVE Cuts'
  OBVIOUS
<1>1. CASE UNCHANGED <<isn, format, ended, nodes>>
  <2>1. \A d \in Conn, f, l, e \in 1..StreamLen : Segment(d, f, l, e)' = Segment(d, f, l, e)
    BY <1>1 DEF Segment, SequenceNumber
  <2>2. \A k : Cut(k)' <=> Cut(k)
    BY <1>1, <2>1 DEF Cut
  <2> QED
    BY <1>1, <2>2 DEF Cuts
<1>2. ASSUME NEW c \in Conn, NEW first \in 1..StreamLen, NEW last \in 1..StreamLen,
             NEW end \in 1..StreamLen, first <= end, end <= last,
             Payload(c, first, last, end)
      PROVE Cuts'
  <2>1. /\ ~ended /\ isn' = isn /\ ended' = (end < last)
        /\ nodes' = Append(nodes, Segment(c, first, last, end))
        /\ format \in {None, TCP} /\ format' = TCP
    BY <1>2 DEF Payload, Accepts
  <2>2. nodes \in Seq(Node)
    BY DEF TypeOK, Node
  <2>3. ended' \/ end = last
    <3>1. end < last \/ end = last
      BY <1>2, SizeAssumption
    <3> QED
      BY <2>1, <3>1, Zenon
  <2>4. \A d \in Conn, f, l, e \in 1..StreamLen : Segment(d, f, l, e)' = Segment(d, f, l, e)
    BY <2>1 DEF Segment, SequenceNumber
  <2>6. None # TCP
    BY FormatAssumption DEF Formats, TCP
  <2>5. ASSUME NEW k \in DOMAIN nodes'
        PROVE  \E d \in Conn, f, l, e \in 1..StreamLen :
                  /\ f <= e /\ e <= l
                  /\ nodes'[k] = Segment(d, f, l, e)
                  /\ ended' \/ e = l
    <3>1. \/ k \in DOMAIN nodes /\ nodes'[k] = nodes[k]
          \/ nodes'[k] = Segment(c, first, last, end)
      <4>1. PICK n : n = Segment(c, first, last, end)
        OBVIOUS
      <4>2. nodes' = Append(nodes, n)
        BY <2>1, <4>1
      <4>3. k \in 1..(Len(nodes) + 1) /\ DOMAIN nodes = 1..Len(nodes)
        BY <2>2, <4>2
      <4> QED
        BY <2>2, <4>1, <4>2, <4>3
    <3>2. CASE k \in DOMAIN nodes /\ nodes'[k] = nodes[k]
      <4>1. format = TCP
        BY <2>1, <3>2 DEF Cuts
      <4> QED
        BY <2>1, <3>2, <4>1 DEF Cuts, Cut
    <3>3. CASE nodes'[k] = Segment(c, first, last, end)
      BY <1>2, <2>3, <3>3
    <3> QED
      BY <3>1, <3>2, <3>3
  <2>7. \A k \in DOMAIN nodes' : Cut(k)'
    BY <2>4, <2>5 DEF Cut
  <2> QED
    BY <2>1, <2>6, <2>7 DEF Cuts
<1>3. CASE \/ Truncated \/ EndOfFile \/ Return
           \/ \E f \in Formats : Mismatch(f)
           \/ \E k \in pending : Write(k)
           \/ UNCHANGED vars
  <2>1. UNCHANGED <<isn, format, ended, nodes>>
    BY <1>3 DEF Truncated, EndOfFile, Return, Mismatch, Write, vars
  <2> QED
    BY <1>1, <2>1
<1>4. ASSUME NEW f \in Formats, OtherPacket(f) PROVE Cuts'
  <2>1. format \in {None, f} /\ format' = f /\ UNCHANGED <<isn, ended, nodes>>
    BY <1>4 DEF OtherPacket, Accepts
  <2>2. CASE format = None
    <3>1. nodes' = <<>>
      BY <2>1, <2>2 DEF Cuts
    <3> QED
      BY <3>1 DEF Cuts
  <2>3. CASE format = f
    BY <1>1, <2>1, <2>3
  <2> QED
    BY <2>1, <2>2, <2>3
<1>5. ASSUME NEW f \in Formats, NEW number \in 0..(Modulus - 1), OtherPayload(f, number)
      PROVE  Cuts'
  <2>1. /\ f # TCP /\ format \in {None, f} /\ format' = f
        /\ nodes' = Append(nodes, [sequenceNumber |-> number, data |-> <<Foreign>>])
    BY <1>5 DEF OtherPayload, Accepts
  <2>2. nodes \in Seq(Node)
    BY DEF TypeOK, Node
  <2>3. \A k \in DOMAIN nodes : nodes[k].data = <<Foreign>>
    BY <2>1 DEF Cuts
  <2>4. \A k \in DOMAIN nodes' : nodes'[k].data = <<Foreign>>
    BY <2>1, <2>2, <2>3
  <2>5. format' # None
    BY <2>1, FormatAssumption
  <2> QED
    BY <2>1, <2>4, <2>5 DEF Cuts
<1> QED
  BY <1>2, <1>3, <1>4, <1>5 DEF Next

\* Whether a capture is clean does not change while it is written.
LEMMA CleanStays ==
    ASSUME UNCHANGED <<isn, ended, nodes>>, NEW c \in Conn
    PROVE  Clean(c)' <=> Clean(c)
<1>1. /\ \A b : Captured(b)' <=> Captured(b)
      /\ \A b, k : In(b, nodes[k])' <=> In(b, nodes[k])
  BY DEF Captured, In
<1>2. (Overlap' <=> Overlap) /\ (Wrapped' <=> Wrapped) /\ (HeaderFirst(c)' <=> HeaderFirst(c))
  BY <1>1 DEF Overlap, Wrapped, HeaderFirst
<1> QED
  BY <1>1, <1>2 DEF Clean

LEMMA RestoringInductive == RInv /\ Cuts /\ Restoring /\ [Next]_vars => Restoring'
<1> SUFFICES ASSUME RInv, Cuts, Restoring, [Next]_vars,
                    NEW c \in Conn, pc' \in {"write", "done"}, Clean(c)'
             PROVE  Restored(c)'
  BY DEF Restoring
<1>1. CASE Return \/ UNCHANGED vars
  <2>1. UNCHANGED <<isn, ended, nodes, pending, image>> /\ pc \in {"write", "done"}
    BY <1>1 DEF Return, vars
  <2>2. Clean(c)
    BY <2>1, CleanStays
  <2>3. Restored(c)
    BY <2>1, <2>2 DEF Restoring
  <2> QED
    BY <2>1, <2>3 DEF Restored, InImage, In, Taken
<1>2. CASE EndOfFile
  <2>1. image' = <<>> /\ Taken' = {}
    BY <1>2 DEF EndOfFile, RInv, Taken
  <2> QED
    BY <2>1 DEF Restored, InImage
<1>3. ASSUME NEW k \in pending, Write(k) PROVE Restored(c)'
  <2>1. UNCHANGED <<isn, ended, nodes>> /\ pc = "write"
    BY <1>3 DEF Write
  <2>2. Clean(c)
    BY <2>1, CleanStays
  <2>3. Restored(c)
    BY <2>1, <2>2 DEF Restoring
  <2>4. PICK h : CleanShape(c, h)
    BY <2>2, CleanIs
  <2> QED
    BY <1>3, <2>3, <2>4, RepeatedRestores, WriteRestores
<1>4. CASE \/ Truncated \/ (\E f \in Formats : Mismatch(f) \/ OtherPacket(f))
           \/ \E d \in Conn, first, last, end \in 1..StreamLen : Payload(d, first, last, end)
           \/ \E f \in Formats, number \in 0..(Modulus - 1) : OtherPayload(f, number)
  BY <1>4 DEF Truncated, Mismatch, OtherPacket, OtherPayload, Payload
<1> QED
  BY <1>1, <1>2, <1>3, <1>4 DEF Next

\* A clean capture gives the stream after the header: all that was captured of it,
\* nothing else, in order, in whatever order its segments came and however often.
THEOREM StreamIsRestored == Spec => []StreamRestored
<1>1. Init => Cuts /\ Restoring
  BY DEF Init, Cuts, Restoring
<1>2. RInv /\ Restoring => StreamRestored
  <2> SUFFICES ASSUME RInv, Restoring, NEW c \in Conn, pc = "done", Clean(c)
               PROVE  /\ {image[j] : j \in DOMAIN image} =
                           {b \in {c} \X ((HeaderLen + 1)..StreamLen) : Captured(b)}
                      /\ \A j, k \in DOMAIN image : j < k => image[j][2] < image[k][2]
    BY DEF StreamRestored
  <2>1. Restored(c)
    BY DEF Restoring
  <2>2. Taken = DOMAIN nodes
    BY DEF RInv, Taken
  <2>3. \A b : InImage(b) <=> \E i \in (HeaderLen + 1)..StreamLen : b = <<c, i>> /\ Captured(b)
    BY <2>1, <2>2 DEF Restored, Captured
  <2>4. \A b : b \in {image[j] : j \in DOMAIN image} <=> InImage(b)
    BY DEF InImage
  <2>5. \A b : b \in {c} \X ((HeaderLen + 1)..StreamLen) <=>
                  \E i \in (HeaderLen + 1)..StreamLen : b = <<c, i>>
    OBVIOUS
  <2>6. {image[j] : j \in DOMAIN image} =
          {b \in {c} \X ((HeaderLen + 1)..StreamLen) : Captured(b)}
    BY <2>3, <2>4, <2>5
  <2> QED
    BY <2>1, <2>6 DEF Restored
<1>3. RInv => TypeOK
  BY DEF RInv
<1> QED
  BY <1>1, <1>2, <1>3, CutsInductive, RestoringInductive, Invariant, PTL DEF Spec

-----------------------------------------------------------------------------
(* DNSClient *)

LEMMA Induction ==
    ASSUME NEW S, 0 \in S, \A n \in Nat : n \in S => n + 1 \in S
    PROVE  Nat \subseteq S
<1> SUFFICES ASSUME Nat \ S # {} PROVE FALSE
  OBVIOUS
<1>1. IsWellFoundedOn(OpToRel(<, Nat), Nat)
  BY NatLessThanWellFounded
<1>2. PICK n \in Nat \ S : \A m \in Nat \ S : <<m, n>> \notin OpToRel(<, Nat)
  <2>1. Nat \ S \subseteq Nat /\ Nat \ S # {}
    OBVIOUS
  <2> QED
    BY <1>1, <2>1, WFMin
<1>3. n - 1 \in Nat /\ n - 1 < n /\ (n - 1) + 1 = n
  <2>1. n # 0 /\ n \in Nat
    OBVIOUS
  <2> QED
    BY <2>1
<1>4. n - 1 \in S
  BY <1>2, <1>3 DEF OpToRel
<1> QED
  BY <1>3, <1>4

\* What is given one value after another is a function.
Given(f, X, a, next, n) ==
    /\ f \in [0..n -> X] /\ f[0] = a
    /\ \A i \in 0..n : i # 0 => f[i] = next[i][f[i - 1]]

LEMMA Recursion ==
    ASSUME NEW X, NEW a \in X, NEW next \in [Nat -> [X -> X]], NEW n \in Nat
    PROVE  \E f : Given(f, X, a, next, n)
<1> DEFINE Is(f, j) == f[0] = a /\ \A i \in 0..j : i # 0 => f[i] = next[i][f[i - 1]]
           S == {j \in Nat : \E f \in [0..j -> X] : Is(f, j)}
<1>1. 0 \in S
  <2> DEFINE f == [i \in 0..0 |-> a]
  <2>1. f \in [0..0 -> X] /\ Is(f, 0)
    OBVIOUS
  <2> HIDE DEF f, Is
  <2> QED
    BY <2>1
<1>2. ASSUME NEW j \in Nat, j \in S PROVE j + 1 \in S
  <2>1. PICK f \in [0..j -> X] : Is(f, j)
    BY <1>2
  <2> DEFINE g == [i \in 0..(j + 1) |-> IF i = j + 1 THEN next[j + 1][f[j]] ELSE f[i]]
  <2>2. g \in [0..(j + 1) -> X]
    <3>1. f[j] \in X /\ next[j + 1] \in [X -> X]
      OBVIOUS
    <3>2. \A i \in 0..(j + 1) : i = j + 1 \/ i \in 0..j
      OBVIOUS
    <3> QED
      BY <3>1, <3>2
  <2>3. g[j + 1] = next[j + 1][f[j]] /\ \A i \in 0..j : g[i] = f[i]
    OBVIOUS
  <2>4. \A i \in 0..(j + 1) : i # 0 => (i = j + 1 /\ i - 1 = j) \/ (i \in 0..j /\ i - 1 \in 0..j)
    OBVIOUS
  <2>5. 0 \in 0..j /\ j \in 0..j
    OBVIOUS
  <2> HIDE DEF g
  <2>6. Is(g, j + 1)
    <3>1. f[0] = a /\ \A i \in 0..j : i # 0 => f[i] = next[i][f[i - 1]]
      BY <2>1
    <3> QED
      BY <2>3, <2>4, <2>5, <3>1
  <2> HIDE DEF Is
  <2>7. \E h \in [0..(j + 1) -> X] : Is(h, j + 1)
    BY <2>2, <2>6, Zenon
  <2>8. j + 1 \in Nat
    OBVIOUS
  <2> QED
    BY <2>7, <2>8
<1> HIDE DEF S
<1>3. n \in S
  BY <1>1, <1>2, Induction
<1> QED
  BY <1>3 DEF S, Given

-----------------------------------------------------------------------------
(* Bytes.                                                                  *)

Octets == 0..255

LEMMA Bytes1 ==
    ASSUME NEW msg \in Seq(Octets), NEW p \in Nat
    PROVE  /\ Len(msg) \in Nat /\ Byte(msg, p) \in Octets
           /\ Byte(msg, p) \in Nat /\ Byte(msg, p) <= 255
           /\ Byte(msg, p) # 0 => p < Len(msg)
<1>1. Len(msg) \in Nat /\ \A i \in 1..Len(msg) : msg[i] \in Octets
  OBVIOUS
<1>2. 0 \in Octets /\ \A x \in Octets : x \in Nat /\ x <= 255
  BY DEF Octets
<1>3. p < Len(msg) => p + 1 \in 1..Len(msg)
  BY <1>1
<1>4. Byte(msg, p) \in Octets /\ (Byte(msg, p) # 0 => p < Len(msg))
  BY <1>1, <1>2, <1>3 DEF Byte
<1> QED
  BY <1>1, <1>2, <1>4

LEMMA Words ==
    ASSUME NEW msg \in Seq(Octets), NEW p \in Nat
    PROVE  /\ Word(msg, p) \in Nat /\ Word(msg, p) <= MaxWord
           /\ Word(msg, p) # 0 => p < Len(msg)
           /\ IsPointer(Byte(msg, p)) => Offset(msg, p) \in Nat
<1>1. /\ Byte(msg, p) \in Nat /\ Byte(msg, p) <= 255 /\ Len(msg) \in Nat
      /\ Byte(msg, p) # 0 => p < Len(msg)
  BY Bytes1
<1>2. /\ Byte(msg, p + 1) \in Nat /\ Byte(msg, p + 1) <= 255
      /\ Byte(msg, p + 1) # 0 => p + 1 < Len(msg)
  BY Bytes1
<1>3. /\ Word(msg, p) \in Nat /\ Word(msg, p) <= MaxWord
      /\ Word(msg, p) # 0 => Byte(msg, p) # 0 \/ Byte(msg, p + 1) # 0
  BY <1>1, <1>2 DEF Word, MaxWord
<1>4. IsPointer(Byte(msg, p)) => Offset(msg, p) \in Nat
  BY <1>1, <1>2 DEF Word, IsPointer, Offset
<1>5. p + 1 < Len(msg) => p < Len(msg)
  BY <1>1
<1> QED
  BY <1>1, <1>2, <1>3, <1>4, <1>5

-----------------------------------------------------------------------------
(* The trail of a name.                                                    *)

After(msg, q) == IF IsPointer(Byte(msg, q)) THEN Offset(msg, q) ELSE q + 1 + Byte(msg, q)

LEMMA AfterIsNat ==
    ASSUME NEW msg \in Seq(Octets), NEW q \in Nat
    PROVE  After(msg, q) \in Nat
<1>1. Byte(msg, q) \in Nat
  BY Bytes1
<1>2. IsPointer(Byte(msg, q)) => Offset(msg, q) \in Nat
  BY Words, Zenon
<1> QED
  BY <1>1, <1>2 DEF After

TrailTo(msg, p, t) == t = [i \in 0..Len(msg) |-> IF i = 0 THEN p ELSE After(msg, t[i - 1])]

LEMMA TrailIs ==
    ASSUME NEW msg \in Seq(Octets), NEW p \in Nat
    PROVE  /\ Trail(msg, p) \in [0..Len(msg) -> Nat] /\ Trail(msg, p)[0] = p
           /\ \A i \in 0..(Len(msg) - 1) : Trail(msg, p)[i + 1] = After(msg, Trail(msg, p)[i])
<1> DEFINE next == [i \in Nat |-> [q \in Nat |-> After(msg, q)]]
           n == Len(msg)
<1>1. n \in Nat
  OBVIOUS
<1>2. next \in [Nat -> [Nat -> Nat]]
  BY AfterIsNat
<1> HIDE DEF n, next
<1>0. PICK f : Given(f, Nat, p, next, n)
  BY <1>1, <1>2, Recursion, Zenon
<1>3. f \in [0..n -> Nat] /\ f[0] = p /\ \A i \in 0..n : i # 0 => f[i] = next[i][f[i - 1]]
  BY <1>0 DEF Given
<1>4. \A i \in 0..n : i # 0 => f[i - 1] \in Nat /\ i \in Nat /\ f[i] = After(msg, f[i - 1])
  <2>1. \A i \in 0..n : i # 0 => i - 1 \in 0..n /\ i \in Nat
    BY <1>1
  <2>2. \A i \in 0..n : i # 0 => f[i - 1] \in Nat /\ i \in Nat
    BY <1>3, <2>1
  <2> QED
    BY <1>3, <2>2 DEF next
<1>5. TrailTo(msg, p, f)
  <2>1. f = [i \in 0..n |-> f[i]]
    BY <1>3
  <2>2. \A i \in 0..n : f[i] = IF i = 0 THEN p ELSE After(msg, f[i - 1])
    BY <1>3, <1>4
  <2>3. f = [i \in 0..n |-> IF i = 0 THEN p ELSE After(msg, f[i - 1])]
    BY <2>1, <2>2, Zenon
  <2> QED
    BY <2>3 DEF TrailTo, n
<1>6. Trail(msg, p) = CHOOSE t : TrailTo(msg, p, t)
  BY Zenon DEF Trail, TrailTo, After
<1>7. TrailTo(msg, p, Trail(msg, p))
  BY <1>5, <1>6
<1> DEFINE t == Trail(msg, p)
<1>8. t = [i \in 0..n |-> IF i = 0 THEN p ELSE After(msg, t[i - 1])]
  BY <1>7, Zenon DEF TrailTo, n
<1> HIDE DEF t
<1>9. DOMAIN t = 0..n /\ \A i \in 0..n : t[i] = IF i = 0 THEN p ELSE After(msg, t[i - 1])
  <2> DEFINE g == [i \in 0..n |-> IF i = 0 THEN p ELSE After(msg, t[i - 1])]
  <2>1. DOMAIN g = 0..n /\ \A i \in 0..n : g[i] = IF i = 0 THEN p ELSE After(msg, t[i - 1])
    OBVIOUS
  <2>2. t = g
    BY <1>8
  <2> HIDE DEF g
  <2> QED
    BY <2>1, <2>2
<1>10. t[0] = p /\ \A i \in 0..(n - 1) : t[i + 1] = After(msg, t[i])
  <2>1. 0 \in 0..n /\ \A i \in 0..(n - 1) : i + 1 \in 0..n /\ i + 1 # 0 /\ (i + 1) - 1 = i
    BY <1>1
  <2> QED
    BY <1>9, <2>1
<1> DEFINE S == {j \in Nat : j <= n => t[j] \in Nat}
<1>11. 0 \in S
  BY <1>10
<1>12. ASSUME NEW j \in Nat, j \in S PROVE j + 1 \in S
  <2>1. CASE j + 1 <= n
    <3>1. j \in 0..(n - 1) /\ j <= n
      BY <1>1, <2>1
    <3>2. t[j + 1] = After(msg, t[j]) /\ t[j] \in Nat
      BY <1>10, <1>12, <3>1
    <3>3. t[j + 1] \in Nat
      BY <3>2, AfterIsNat, Zenon
    <3> QED
      BY <3>3
  <2> QED
    BY <2>1
<1>13. \A j \in 0..n : t[j] \in Nat
  <2> HIDE DEF S
  <2>1. Nat \subseteq S
    BY <1>11, <1>12, Induction
  <2> QED
    BY <1>1, <2>1 DEF S
<1>14. t \in [0..n -> Nat]
  <2>1. t = [i \in 0..n |-> t[i]]
    BY <1>8, <1>9
  <2> QED
    BY <1>13, <2>1
<1> QED
  BY <1>10, <1>14 DEF t, n

\* A name has one end and one position after it.
LEMMA EndIs ==
    ASSUME NEW msg \in Seq(Octets), NEW p \in Nat, NEW n \in 0..Len(msg), EndsAfter(msg, p, n)
    PROVE  EndOf(msg, p) = n
<1>1. \A m \in 0..Len(msg) : EndsAfter(msg, p, m) => m = n
  <2> SUFFICES ASSUME NEW m \in 0..Len(msg), EndsAfter(msg, p, m) PROVE m = n
    OBVIOUS
  <2>1. m \in Nat /\ n \in Nat
    OBVIOUS
  <2>2. CASE m < n
    <3>1. m \in 0..(n - 1)
      BY <2>1, <2>2
    <3> QED
      BY <3>1 DEF EndsAfter
  <2>3. CASE n < m
    <3>1. n \in 0..(m - 1)
      BY <2>1, <2>3
    <3> QED
      BY <3>1 DEF EndsAfter
  <2> QED
    BY <2>1, <2>2, <2>3
<1> QED
  BY <1>1 DEF EndOf

Stop(msg, q) == Byte(msg, q) = 0 \/ IsPointer(Byte(msg, q))

LEMMA StopIs ==
    ASSUME NEW msg \in Seq(Octets), NEW p \in Nat, NEW n \in 0..Len(msg),
           Stop(msg, Trail(msg, p)[n]), \A i \in 0..(n - 1) : ~Stop(msg, Trail(msg, p)[i])
    PROVE  AfterName(msg, p) =
              IF Byte(msg, Trail(msg, p)[n]) = 0 THEN Trail(msg, p)[n] + 1 ELSE Trail(msg, p)[n] + 2
<1>1. StopsAfter(msg, p, n)
  BY DEF StopsAfter, Stop
<1>2. \A m \in 0..Len(msg) : StopsAfter(msg, p, m) => m = n
  <2> SUFFICES ASSUME NEW m \in 0..Len(msg), StopsAfter(msg, p, m) PROVE m = n
    OBVIOUS
  <2>0. Stop(msg, Trail(msg, p)[m]) /\ \A i \in 0..(m - 1) : ~Stop(msg, Trail(msg, p)[i])
    BY DEF StopsAfter, Stop
  <2>1. m \in Nat /\ n \in Nat
    OBVIOUS
  <2>2. CASE m < n
    <3>1. m \in 0..(n - 1)
      BY <2>1, <2>2
    <3> QED
      BY <2>0, <3>1
  <2>3. CASE n < m
    <3>1. n \in 0..(m - 1)
      BY <2>1, <2>3
    <3> QED
      BY <2>0, <3>1
  <2> QED
    BY <2>1, <2>2, <2>3
<1>3. (CHOOSE m \in 0..Len(msg) : StopsAfter(msg, p, m)) = n
  BY <1>1, <1>2
<1>4. AfterName(msg, p) =
         LET q == Trail(msg, p)[CHOOSE m \in 0..Len(msg) : StopsAfter(msg, p, m)]
         IN  IF Byte(msg, q) = 0 THEN q + 1 ELSE q + 2
  BY Zenon DEF AfterName
<1> QED
  BY <1>3, <1>4

-----------------------------------------------------------------------------
(* The labels of a name and its text.                                      *)

LEMMA LabelIs ==
    ASSUME NEW msg \in Seq(Octets), NEW q \in Nat
    PROVE  /\ LabelAt(msg, q) \in Seq(Octets) /\ Len(LabelAt(msg, q)) = Byte(msg, q)
           /\ \A i \in 1..Byte(msg, q) : LabelAt(msg, q)[i] = Byte(msg, q + i)
<1> DEFINE b == Byte(msg, q)
<1>1. b \in Nat
  BY Bytes1
<1>2. \A i \in 1..b : Byte(msg, q + i) \in Octets
  <2> SUFFICES ASSUME NEW i \in 1..b PROVE Byte(msg, q + i) \in Octets
    OBVIOUS
  <2>1. q + i \in Nat
    BY <1>1
  <2> QED
    BY <2>1, Bytes1
<1> HIDE DEF b
<1>3. LabelAt(msg, q) = [i \in 1..b |-> Byte(msg, q + i)]
  BY DEF LabelAt, b
<1>4. LabelAt(msg, q) \in Seq(Octets) /\ Len(LabelAt(msg, q)) = b
  BY <1>1, <1>2, <1>3
<1>5. \A i \in 1..b : LabelAt(msg, q)[i] = Byte(msg, q + i)
  BY <1>3
<1> QED
  BY <1>4, <1>5 DEF b

\* A list of labels with what is at the i-th position of a trail.
Labelled(msg, p, i, s) ==
    IF IsPointer(Byte(msg, Trail(msg, p)[i])) THEN s
    ELSE Append(s, LabelAt(msg, Trail(msg, p)[i]))

AllLabels(msg, p, f) ==
    f = [i \in 0..Len(msg) |-> IF i = 0 THEN <<>> ELSE Labelled(msg, p, i - 1, f[i - 1])]

LEMMA LabelsToIs ==
    ASSUME NEW msg \in Seq(Octets), NEW p \in Nat
    PROVE  /\ LabelsTo(msg, p) \in [0..Len(msg) -> Seq(Seq(Octets))]
           /\ LabelsTo(msg, p)[0] = <<>>
           /\ \A i \in 0..(Len(msg) - 1) :
                 LabelsTo(msg, p)[i + 1] = Labelled(msg, p, i, LabelsTo(msg, p)[i])
<1> DEFINE X == Seq(Seq(Octets))
           n == Len(msg)
           next == [i \in Nat |-> [s \in X |-> IF i \in 1..n THEN Labelled(msg, p, i - 1, s) ELSE s]]
<1>1. n \in Nat /\ <<>> \in X
  OBVIOUS
<1>2. \A i \in 0..n, s \in X : Labelled(msg, p, i, s) \in X
  <2> SUFFICES ASSUME NEW i \in 0..n, NEW s \in X PROVE Labelled(msg, p, i, s) \in X
    OBVIOUS
  <2>1. Trail(msg, p)[i] \in Nat
    BY TrailIs
  <2>2. LabelAt(msg, Trail(msg, p)[i]) \in Seq(Octets)
    BY <2>1, LabelIs, Zenon
  <2>3. Append(s, LabelAt(msg, Trail(msg, p)[i])) \in X
    BY <2>2
  <2> QED
    BY <2>3 DEF Labelled
<1>3. \A i \in 1..n : i - 1 \in 0..n /\ i \in Nat
  BY <1>1
<1> HIDE DEF X, n
<1>4. next \in [Nat -> [X -> X]]
  BY <1>2, <1>3
<1> HIDE DEF next
<1>5. PICK f : Given(f, X, <<>>, next, n)
  BY <1>1, <1>4, Recursion, Zenon
<1>6. f \in [0..n -> X] /\ f[0] = <<>> /\ \A i \in 0..n : i # 0 => f[i] = next[i][f[i - 1]]
  BY <1>5 DEF Given
<1>7. \A i \in 0..n : i # 0 => f[i] = Labelled(msg, p, i - 1, f[i - 1])
  <2>1. \A i \in 0..n : i # 0 => i \in 1..n
    BY <1>1
  <2>2. \A i \in 1..n : f[i - 1] \in X
    BY <1>3, <1>6
  <2> QED
    BY <1>3, <1>6, <2>1, <2>2 DEF next
<1>8. AllLabels(msg, p, f)
  <2>1. f = [i \in 0..n |-> f[i]]
    BY <1>6
  <2>2. \A i \in 0..n : f[i] = IF i = 0 THEN <<>> ELSE Labelled(msg, p, i - 1, f[i - 1])
    BY <1>6, <1>7
  <2>3. f = [i \in 0..n |-> IF i = 0 THEN <<>> ELSE Labelled(msg, p, i - 1, f[i - 1])]
    BY <2>1, <2>2, Zenon
  <2> QED
    BY <2>3 DEF AllLabels, n
<1>9. LabelsTo(msg, p) = CHOOSE g : AllLabels(msg, p, g)
  BY Zenon DEF LabelsTo, AllLabels, Labelled
<1>10. AllLabels(msg, p, LabelsTo(msg, p))
  BY <1>8, <1>9
<1> DEFINE t == LabelsTo(msg, p)
<1>11. t = [i \in 0..n |-> IF i = 0 THEN <<>> ELSE Labelled(msg, p, i - 1, t[i - 1])]
  BY <1>10, Zenon DEF AllLabels, n
<1> HIDE DEF t
<1>12. DOMAIN t = 0..n /\ \A i \in 0..n : t[i] = IF i = 0 THEN <<>> ELSE Labelled(msg, p, i - 1, t[i - 1])
  <2> DEFINE g == [i \in 0..n |-> IF i = 0 THEN <<>> ELSE Labelled(msg, p, i - 1, t[i - 1])]
  <2>1. DOMAIN g = 0..n /\ \A i \in 0..n : g[i] = IF i = 0 THEN <<>> ELSE Labelled(msg, p, i - 1, t[i - 1])
    OBVIOUS
  <2>2. t = g
    BY <1>11
  <2> HIDE DEF g
  <2> QED
    BY <2>1, <2>2
<1>13. t[0] = <<>> /\ \A i \in 0..(n - 1) : t[i + 1] = Labelled(msg, p, i, t[i])
  <2>1. 0 \in 0..n /\ \A i \in 0..(n - 1) : i + 1 \in 0..n /\ i + 1 # 0 /\ (i + 1) - 1 = i
    BY <1>1
  <2> QED
    BY <1>12, <2>1
<1> DEFINE S == {j \in Nat : j <= n => t[j] \in X}
<1>14. 0 \in S
  BY <1>1, <1>13
<1>15. ASSUME NEW j \in Nat, j \in S PROVE j + 1 \in S
  <2>1. CASE j + 1 <= n
    <3>1. j \in 0..(n - 1) /\ j <= n /\ j \in 0..n
      BY <1>1, <2>1
    <3>2. t[j + 1] = Labelled(msg, p, j, t[j]) /\ t[j] \in X
      BY <1>13, <1>15, <3>1
    <3>3. t[j + 1] \in X
      BY <1>2, <3>1, <3>2
    <3> QED
      BY <3>3
  <2> QED
    BY <2>1
<1>16. \A j \in 0..n : t[j] \in X
  <2> HIDE DEF S
  <2>1. Nat \subseteq S
    BY <1>14, <1>15, Induction
  <2> QED
    BY <1>1, <2>1 DEF S
<1>17. t \in [0..n -> X]
  <2>1. t = [i \in 0..n |-> t[i]]
    BY <1>11, <1>12
  <2> QED
    BY <1>16, <2>1
<1> QED
  BY <1>13, <1>17 DEF t, n, X

\* A text with a dot and a label.
WithLabel(text, i, label) == text \o (IF i = 1 THEN <<>> ELSE <<46>>) \o label

AllTexts(name, f) ==
    f = [i \in 0..Len(name) |-> IF i = 0 THEN <<>> ELSE WithLabel(f[i - 1], i, name[i])]

LEMMA DottedToIs ==
    ASSUME NEW name \in Seq(Seq(Octets))
    PROVE  /\ DottedTo(name) \in [0..Len(name) -> Seq(Octets)] /\ DottedTo(name)[0] = <<>>
           /\ \A i \in 0..(Len(name) - 1) :
                 DottedTo(name)[i + 1] = WithLabel(DottedTo(name)[i], i + 1, name[i + 1])
<1> DEFINE X == Seq(Octets)
           n == Len(name)
           next == [i \in Nat |-> [s \in X |-> IF i \in 1..n THEN WithLabel(s, i, name[i]) ELSE s]]
<1>1. n \in Nat /\ <<>> \in X /\ <<46>> \in X
  BY DEF Octets
<1>2. \A i \in 1..n, s \in X : WithLabel(s, i, name[i]) \in X
  <2> SUFFICES ASSUME NEW i \in 1..n, NEW s \in X PROVE WithLabel(s, i, name[i]) \in X
    OBVIOUS
  <2>1. name[i] \in X
    OBVIOUS
  <2>2. \A a, b, c \in X : (a \o b) \o c \in X
    OBVIOUS
  <2> HIDE DEF X
  <2> QED
    BY <1>1, <2>1, <2>2 DEF WithLabel
<1>3. \A i \in 1..n : i - 1 \in 0..n /\ i \in Nat
  BY <1>1
<1> HIDE DEF X, n
<1>4. next \in [Nat -> [X -> X]]
  BY <1>2, <1>3
<1> HIDE DEF next
<1>5. PICK f : Given(f, X, <<>>, next, n)
  BY <1>1, <1>4, Recursion, Zenon
<1>6. f \in [0..n -> X] /\ f[0] = <<>> /\ \A i \in 0..n : i # 0 => f[i] = next[i][f[i - 1]]
  BY <1>5 DEF Given
<1>7. \A i \in 0..n : i # 0 => f[i] = WithLabel(f[i - 1], i, name[i])
  <2>1. \A i \in 0..n : i # 0 => i \in 1..n
    BY <1>1
  <2>2. \A i \in 1..n : f[i - 1] \in X
    BY <1>3, <1>6
  <2> QED
    BY <1>3, <1>6, <2>1, <2>2 DEF next
<1>8. AllTexts(name, f)
  <2>1. f = [i \in 0..n |-> f[i]]
    BY <1>6
  <2>2. \A i \in 0..n : f[i] = IF i = 0 THEN <<>> ELSE WithLabel(f[i - 1], i, name[i])
    BY <1>6, <1>7
  <2>3. f = [i \in 0..n |-> IF i = 0 THEN <<>> ELSE WithLabel(f[i - 1], i, name[i])]
    BY <2>1, <2>2, Zenon
  <2> QED
    BY <2>3 DEF AllTexts, n
<1>9. DottedTo(name) = CHOOSE g : AllTexts(name, g)
  BY Zenon DEF DottedTo, AllTexts, WithLabel
<1>10. AllTexts(name, DottedTo(name))
  BY <1>8, <1>9
<1> DEFINE t == DottedTo(name)
<1>11. t = [i \in 0..n |-> IF i = 0 THEN <<>> ELSE WithLabel(t[i - 1], i, name[i])]
  BY <1>10, Zenon DEF AllTexts, n
<1> HIDE DEF t
<1>12. DOMAIN t = 0..n /\ \A i \in 0..n : t[i] = IF i = 0 THEN <<>> ELSE WithLabel(t[i - 1], i, name[i])
  <2> DEFINE g == [i \in 0..n |-> IF i = 0 THEN <<>> ELSE WithLabel(t[i - 1], i, name[i])]
  <2>1. DOMAIN g = 0..n /\ \A i \in 0..n : g[i] = IF i = 0 THEN <<>> ELSE WithLabel(t[i - 1], i, name[i])
    OBVIOUS
  <2>2. t = g
    BY <1>11
  <2> HIDE DEF g
  <2> QED
    BY <2>1, <2>2
<1>13. t[0] = <<>> /\ \A i \in 0..(n - 1) : t[i + 1] = WithLabel(t[i], i + 1, name[i + 1])
  <2>1. 0 \in 0..n /\ \A i \in 0..(n - 1) : i + 1 \in 0..n /\ i + 1 # 0 /\ (i + 1) - 1 = i
    BY <1>1
  <2> QED
    BY <1>12, <2>1
<1> DEFINE S == {j \in Nat : j <= n => t[j] \in X}
<1>14. 0 \in S
  BY <1>1, <1>13
<1>15. ASSUME NEW j \in Nat, j \in S PROVE j + 1 \in S
  <2>1. CASE j + 1 <= n
    <3>1. j \in 0..(n - 1) /\ j <= n /\ j + 1 \in 1..n
      BY <1>1, <2>1
    <3>2. t[j + 1] = WithLabel(t[j], j + 1, name[j + 1]) /\ t[j] \in X
      BY <1>13, <1>15, <3>1
    <3>3. t[j + 1] \in X
      BY <1>2, <3>1, <3>2
    <3> QED
      BY <3>3
  <2> QED
    BY <2>1
<1>16. \A j \in 0..n : t[j] \in X
  <2> HIDE DEF S
  <2>1. Nat \subseteq S
    BY <1>14, <1>15, Induction
  <2> QED
    BY <1>1, <2>1 DEF S
<1>17. t \in [0..n -> X]
  <2>1. t = [i \in 0..n |-> t[i]]
    BY <1>11, <1>12
  <2> QED
    BY <1>16, <2>1
<1> QED
  BY <1>13, <1>17 DEF t, n, X

\* The text of a name grows by a dot and a label.
LEMMA DottedAppend ==
    ASSUME NEW name \in Seq(Seq(Octets)), NEW label \in Seq(Octets)
    PROVE  /\ Dotted(<<>>) = <<>>
           /\ Dotted(name) \in Seq(Octets)
           /\ Dotted(Append(name, label)) = WithLabel(Dotted(name), Len(name) + 1, label)
<1> DEFINE longer == Append(name, label)
           t == DottedTo(name)
           u == DottedTo(longer)
           n == Len(name)
<1>0. Dotted(<<>>) = <<>>
  <2>1. <<>> \in Seq(Seq(Octets)) /\ Len(<<>>) = 0
    OBVIOUS
  <2>2. DottedTo(<<>>)[0] = <<>>
    BY <2>1, DottedToIs, Zenon
  <2> QED
    BY <2>1, <2>2 DEF Dotted
<1>1. /\ n \in Nat /\ longer \in Seq(Seq(Octets)) /\ Len(longer) = n + 1
      /\ longer[n + 1] = label /\ \A i \in 1..n : longer[i] = name[i]
  OBVIOUS
<1>2. /\ t \in [0..n -> Seq(Octets)] /\ t[0] = <<>>
      /\ \A i \in 0..(n - 1) : t[i + 1] = WithLabel(t[i], i + 1, name[i + 1])
  BY DottedToIs, Zenon
<1> HIDE DEF longer
<1>3. /\ u[0] = <<>> /\ \A i \in 0..((n + 1) - 1) : u[i + 1] = WithLabel(u[i], i + 1, longer[i + 1])
  <2>1. /\ u[0] = <<>> /\ \A i \in 0..(Len(longer) - 1) : u[i + 1] = WithLabel(u[i], i + 1, longer[i + 1])
    BY <1>1, DottedToIs, Zenon
  <2> QED
    BY <1>1, <2>1
<1> HIDE DEF t, u, n
<1> DEFINE S == {j \in Nat : j <= n => u[j] = t[j]}
<1>4. 0 \in S
  BY <1>2, <1>3
<1>5. ASSUME NEW j \in Nat, j \in S PROVE j + 1 \in S
  <2>1. CASE j + 1 <= n
    <3>1. j \in 0..(n - 1) /\ j <= n /\ j + 1 \in 1..n /\ j \in 0..((n + 1) - 1)
      BY <1>1, <2>1
    <3>2. u[j + 1] = WithLabel(u[j], j + 1, longer[j + 1])
      BY <1>3, <3>1
    <3>3. t[j + 1] = WithLabel(t[j], j + 1, name[j + 1])
      BY <1>2, <3>1
    <3>4. longer[j + 1] = name[j + 1] /\ u[j] = t[j]
      BY <1>1, <1>5, <3>1
    <3>5. u[j + 1] = t[j + 1]
      BY <3>2, <3>3, <3>4
    <3> QED
      BY <3>5
  <2> QED
    BY <2>1
<1>6. u[n] = t[n]
  <2> HIDE DEF S
  <2>1. Nat \subseteq S
    BY <1>4, <1>5, Induction
  <2> QED
    BY <1>1, <2>1 DEF S
<1>7. u[n + 1] = WithLabel(t[n], n + 1, label)
  <2>1. n \in 0..((n + 1) - 1)
    BY <1>1
  <2> QED
    BY <1>1, <1>3, <1>6, <2>1
<1>8. Dotted(name) = t[n] /\ Dotted(longer) = u[n + 1]
  BY <1>1 DEF Dotted, t, u, n
<1>9. t[n] \in Seq(Octets)
  BY <1>1, <1>2
<1> QED
  BY <1>0, <1>7, <1>8, <1>9 DEF longer, n

-----------------------------------------------------------------------------
(* Parts of a message one after the other.                                 *)

AllParts(s, f) == f = [i \in 1..Len(s) |-> IF i = 1 THEN s[i] ELSE f[i - 1] \o s[i]]

LEMMA FlattenIs ==
    ASSUME NEW s \in Seq(Seq(Octets)), s # <<>>
    PROVE  \E f \in [1..Len(s) -> Seq(Octets)] :
              /\ f[1] = s[1] /\ FlattenSeq(s) = f[Len(s)]
              /\ \A i \in 1..(Len(s) - 1) : f[i + 1] = f[i] \o s[i + 1]
<1> DEFINE X == Seq(Octets)
           n == Len(s)
           next == [i \in Nat |-> [t \in X |-> IF i + 1 \in 1..n THEN t \o s[i + 1] ELSE t]]
<1>1. n \in Nat /\ n # 0 /\ s[1] \in X /\ (n - 1) \in Nat
  OBVIOUS
<1>2. \A i \in 1..n, t \in X : s[i] \in X /\ t \o s[i] \in X
  OBVIOUS
<1> HIDE DEF X, n
<1>3. next \in [Nat -> [X -> X]]
  BY <1>2
<1> HIDE DEF next
<1>4. PICK g : Given(g, X, s[1], next, n - 1)
  BY <1>1, <1>3, Recursion, Zenon
<1>5. g \in [0..(n - 1) -> X] /\ g[0] = s[1] /\ \A i \in 0..(n - 1) : i # 0 => g[i] = next[i][g[i - 1]]
  BY <1>4 DEF Given
<1> DEFINE f == [i \in 1..n |-> g[i - 1]]
<1>6. \A i \in 1..n : i - 1 \in 0..(n - 1) /\ f[i] = g[i - 1] /\ f[i] \in X
  <2>1. \A i \in 1..n : i - 1 \in 0..(n - 1)
    BY <1>1
  <2> QED
    BY <1>5, <2>1
<1>7. f[1] = s[1]
  <2>1. 1 \in 1..n /\ 1 - 1 = 0
    BY <1>1
  <2> QED
    BY <1>5, <1>6, <2>1
<1>8. \A i \in 1..n : i # 1 => f[i] = f[i - 1] \o s[i]
  <2> SUFFICES ASSUME NEW i \in 1..n, i # 1 PROVE f[i] = f[i - 1] \o s[i]
    OBVIOUS
  <2>1. /\ i - 1 \in 1..n /\ i - 1 \in 0..(n - 1) /\ i - 1 # 0 /\ i - 1 \in Nat
        /\ (i - 1) - 1 \in 0..(n - 1) /\ (i - 1) + 1 = i
    BY <1>1
  <2>2. f[i] = g[i - 1] /\ f[i - 1] = g[(i - 1) - 1]
    BY <1>6, <2>1
  <2>3. g[i - 1] = next[i - 1][g[(i - 1) - 1]] /\ g[(i - 1) - 1] \in X
    BY <1>5, <2>1
  <2> QED
    BY <2>1, <2>2, <2>3 DEF next
<1>9. f = [i \in 1..n |-> f[i]]
  OBVIOUS
<1> HIDE DEF f
<1>10. AllParts(s, f)
  <2>1. \A i \in 1..n : f[i] = IF i = 1 THEN s[i] ELSE f[i - 1] \o s[i]
    BY <1>7, <1>8
  <2>2. f = [i \in 1..n |-> IF i = 1 THEN s[i] ELSE f[i - 1] \o s[i]]
    BY <1>9, <2>1, Zenon
  <2> QED
    BY <2>2 DEF AllParts, n
<1> DEFINE h == CHOOSE k : AllParts(s, k)
<1>11. AllParts(s, h)
  BY <1>10
<1>12. FlattenSeq(s) = h[n]
  BY <1>1, Zenon DEF FlattenSeq, AllParts, n
<1> HIDE DEF h
<1>13. h = [i \in 1..n |-> IF i = 1 THEN s[i] ELSE h[i - 1] \o s[i]]
  BY <1>11, Zenon DEF AllParts, n
<1>14. DOMAIN h = 1..n /\ \A i \in 1..n : h[i] = IF i = 1 THEN s[i] ELSE h[i - 1] \o s[i]
  <2> DEFINE k == [i \in 1..n |-> IF i = 1 THEN s[i] ELSE h[i - 1] \o s[i]]
  <2>1. DOMAIN k = 1..n /\ \A i \in 1..n : k[i] = IF i = 1 THEN s[i] ELSE h[i - 1] \o s[i]
    OBVIOUS
  <2>2. h = k
    BY <1>13
  <2> HIDE DEF k
  <2> QED
    BY <2>1, <2>2
<1>15. h[1] = s[1] /\ \A i \in 1..(n - 1) : h[i + 1] = h[i] \o s[i + 1]
  <2>1. 1 \in 1..n /\ \A i \in 1..(n - 1) : i + 1 \in 1..n /\ i + 1 # 1 /\ (i + 1) - 1 = i
    BY <1>1
  <2> QED
    BY <1>14, <2>1
<1> DEFINE S == {j \in Nat : j + 1 <= n => h[j + 1] \in X}
<1>16. 0 \in S
  BY <1>1, <1>15
<1>17. ASSUME NEW j \in Nat, j \in S PROVE j + 1 \in S
  <2>1. CASE (j + 1) + 1 <= n
    <3>1. j + 1 \in 1..(n - 1) /\ j + 1 <= n /\ (j + 1) + 1 \in 1..n
      BY <1>1, <2>1
    <3>2. h[(j + 1) + 1] = h[j + 1] \o s[(j + 1) + 1] /\ h[j + 1] \in X
      BY <1>15, <1>17, <3>1
    <3>3. h[(j + 1) + 1] \in X
      BY <1>2, <3>1, <3>2
    <3> QED
      BY <3>3
  <2> QED
    BY <2>1
<1>18. \A i \in 1..n : h[i] \in X
  <2> HIDE DEF S
  <2>1. Nat \subseteq S
    BY <1>16, <1>17, Induction
  <2>2. \A i \in 1..n : i - 1 \in Nat /\ (i - 1) + 1 = i /\ i <= n
    BY <1>1
  <2>3. \A i \in 1..n : i - 1 \in S
    BY <2>1, <2>2
  <2> QED
    BY <2>2, <2>3 DEF S
<1>19. h \in [1..n -> X]
  <2>1. h = [i \in 1..n |-> h[i]]
    BY <1>13, <1>14
  <2> QED
    BY <1>18, <2>1
<1> QED
  BY <1>12, <1>15, <1>19 DEF n, X

\* The parts of s start at off in t.
PartsAt(s, t, off) ==
    /\ off \in [1..(Len(s) + 1) -> Nat] /\ off[1] = 0 /\ off[Len(s) + 1] = Len(t)
    /\ \A i \in 1..Len(s) : off[i + 1] = off[i] + Len(s[i]) /\ off[i + 1] <= Len(t)
    /\ \A i \in 1..Len(s) : \A j \in 1..Len(s[i]) : t[off[i] + j] = s[i][j]

LEMMA FlattenPlaces ==
    ASSUME NEW s \in Seq(Seq(Octets)), s # <<>>
    PROVE  FlattenSeq(s) \in Seq(Octets) /\ \E off : PartsAt(s, FlattenSeq(s), off)
<1> DEFINE n == Len(s)
<1>1. n \in Nat /\ n >= 1 /\ \A i \in 1..n : s[i] \in Seq(Octets) /\ Len(s[i]) \in Nat
  OBVIOUS
<1>2. PICK f \in [1..n -> Seq(Octets)] :
         /\ f[1] = s[1] /\ FlattenSeq(s) = f[n]
         /\ \A i \in 1..(n - 1) : f[i + 1] = f[i] \o s[i + 1]
  BY FlattenIs, Zenon
<1> HIDE DEF n
<1> DEFINE off == [i \in 1..(n + 1) |-> IF i = 1 THEN 0 ELSE Len(f[i - 1])]
<1>3. \A i \in 1..n : f[i] \in Seq(Octets) /\ Len(f[i]) \in Nat
  <2>1. \A i \in 1..n : f[i] \in Seq(Octets)
    BY <1>2, Zenon
  <2>2. \A a \in Seq(Octets) : Len(a) \in Nat
    OBVIOUS
  <2> QED
    BY <2>1, <2>2, Zenon
<1>4. off[1] = 0 /\ \A i \in 1..n : off[i + 1] = Len(f[i])
  <2>1. 1 \in 1..(n + 1) /\ \A i \in 1..n : i + 1 \in 1..(n + 1) /\ i + 1 # 1 /\ (i + 1) - 1 = i
    BY <1>1
  <2> QED
    BY <2>1
<1>5. off \in [1..(n + 1) -> Nat]
  <2>1. \A i \in 1..(n + 1) : i # 1 => i - 1 \in 1..n
    BY <1>1
  <2>2. \A i \in 1..(n + 1) : i # 1 => Len(f[i - 1]) \in Nat
    BY <1>3, <2>1
  <2> QED
    BY <2>2
<1> HIDE DEF off
<1>6. \A i \in 1..n : off[i] \in Nat /\ off[i + 1] \in Nat /\ off[i + 1] = off[i] + Len(s[i])
  <2> SUFFICES ASSUME NEW i \in 1..n PROVE off[i] \in Nat /\ off[i + 1] \in Nat /\ off[i + 1] = off[i] + Len(s[i])
    OBVIOUS
  <2>1. i \in 1..(n + 1) /\ i + 1 \in 1..(n + 1)
    BY <1>1
  <2>2. off[i] \in Nat /\ off[i + 1] \in Nat
    BY <1>5, <2>1
  <2>3. CASE i = 1
    <3>1. 1 \in 1..n
      BY <1>1
    <3>2. off[1 + 1] = Len(f[1])
      BY <1>4, <3>1
    <3> QED
      BY <1>1, <1>2, <1>4, <2>2, <2>3, <3>2
  <2>4. CASE i # 1
    <3>1. i - 1 \in 1..(n - 1) /\ i - 1 \in 1..n /\ (i - 1) + 1 = i
      BY <1>1, <2>4
    <3>2. f[i] = f[i - 1] \o s[i] /\ off[i + 1] = Len(f[i]) /\ off[i] = Len(f[i - 1])
      BY <1>2, <1>4, <3>1
    <3>3. \A a, b \in Seq(Octets) : Len(a \o b) = Len(a) + Len(b)
      OBVIOUS
    <3>4. Len(f[i]) = Len(f[i - 1]) + Len(s[i])
      BY <1>1, <1>3, <3>1, <3>2, <3>3
    <3> QED
      BY <2>2, <3>2, <3>4
  <2> QED
    BY <2>3, <2>4
<1> DEFINE P(m) == \A i \in 1..m : /\ off[i + 1] <= Len(f[m])
                                   /\ \A j \in 1..Len(s[i]) : f[m][off[i] + j] = s[i][j]
           S == {m \in Nat : m + 1 <= n => P(m + 1)}
<1>7. P(1)
  <2>1. 1 \in 1..n /\ \A i \in 1..1 : i = 1
    BY <1>1
  <2>2. off[1 + 1] = Len(f[1]) /\ Len(f[1]) \in Nat
    BY <1>3, <1>4, <2>1
  <2>3. \A j \in 1..Len(s[1]) : off[1] + j = j
    BY <1>1, <1>4, <2>1
  <2> QED
    BY <1>2, <2>1, <2>2, <2>3
<1>8. ASSUME NEW m \in 1..n, m + 1 <= n, P(m) PROVE P(m + 1)
  <2>1. m \in 1..(n - 1) /\ m + 1 \in 1..n /\ m \in Nat
    BY <1>1, <1>8
  <2>2. f[m + 1] = f[m] \o s[m + 1] /\ off[m + 1] = Len(f[m])
    BY <1>2, <1>4, <2>1
  <2>3. /\ Len(f[m + 1]) = Len(f[m]) + Len(s[m + 1])
        /\ \A l \in 1..Len(f[m]) : f[m + 1][l] = f[m][l]
        /\ \A l \in 1..Len(s[m + 1]) : f[m + 1][Len(f[m]) + l] = s[m + 1][l]
    <3>1. \A a, b \in Seq(Octets) :
             /\ Len(a \o b) = Len(a) + Len(b)
             /\ \A l \in 1..Len(a) : (a \o b)[l] = a[l]
             /\ \A l \in 1..Len(b) : (a \o b)[Len(a) + l] = b[l]
      OBVIOUS
    <3>2. f[m] \in Seq(Octets) /\ s[m + 1] \in Seq(Octets)
      BY <1>1, <1>3, <2>1
    <3>3. LET g == f[m] \o s[m + 1]
          IN  /\ Len(g) = Len(f[m]) + Len(s[m + 1])
              /\ \A l \in 1..Len(f[m]) : g[l] = f[m][l]
              /\ \A l \in 1..Len(s[m + 1]) : g[Len(f[m]) + l] = s[m + 1][l]
      BY <3>1, <3>2, Zenon
    <3> QED
      BY <2>2, <3>3, Zenon
  <2> SUFFICES ASSUME NEW i \in 1..(m + 1)
               PROVE  /\ off[i + 1] <= Len(f[m + 1])
                      /\ \A j \in 1..Len(s[i]) : f[m + 1][off[i] + j] = s[i][j]
    OBVIOUS
  <2>4. CASE i = m + 1
    <3>1. off[i + 1] = Len(f[m + 1]) /\ Len(f[m + 1]) \in Nat
      BY <1>3, <1>4, <2>1, <2>4
    <3>2. off[i + 1] <= Len(f[m + 1])
      BY <3>1
    <3>3. \A j \in 1..Len(s[i]) : f[m + 1][off[i] + j] = s[i][j]
      BY <2>2, <2>3, <2>4, Zenon
    <3> QED
      BY <3>2, <3>3
  <2>5. CASE i # m + 1
    <3>1. i \in 1..m /\ i \in 1..n
      BY <1>1, <2>1, <2>5
    <3>2. off[i + 1] <= Len(f[m]) /\ \A j \in 1..Len(s[i]) : f[m][off[i] + j] = s[i][j]
      BY <1>8, <3>1
    <3>3. off[i] \in Nat /\ off[i + 1] \in Nat /\ off[i + 1] = off[i] + Len(s[i]) /\ Len(s[i]) \in Nat
      BY <1>1, <1>6, <3>1
    <3>4. Len(f[m]) \in Nat /\ Len(s[m + 1]) \in Nat
      BY <1>1, <1>3, <2>1
    <3>5. \A j \in 1..Len(s[i]) : off[i] + j \in 1..Len(f[m])
      <4>1. \A a, b, k, z \in Nat : b = a + k /\ b <= z => \A j \in 1..k : a + j \in 1..z
        OBVIOUS
      <4> QED
        BY <3>2, <3>3, <3>4, <4>1
    <3>6. off[i + 1] <= Len(f[m + 1])
      BY <2>3, <3>2, <3>3, <3>4
    <3> QED
      BY <2>3, <3>2, <3>5, <3>6
  <2> QED
    BY <2>4, <2>5
<1> HIDE DEF P
<1>9. 0 \in S
  BY <1>7
<1>10. ASSUME NEW j \in Nat, j \in S PROVE j + 1 \in S
  <2>1. CASE (j + 1) + 1 <= n
    <3>1. j + 1 \in 1..n /\ j + 1 <= n
      BY <1>1, <2>1
    <3>2. P((j + 1) + 1)
      BY <1>8, <1>10, <2>1, <3>1
    <3> QED
      BY <3>2
  <2> QED
    BY <2>1
<1>11. P(n)
  <2> HIDE DEF S
  <2>1. n - 1 \in Nat /\ (n - 1) + 1 = n
    BY <1>1
  <2>2. n - 1 \in S
    BY <1>9, <1>10, <2>1, Induction
  <2> QED
    BY <1>1, <2>1, <2>2 DEF S
<1>12. n \in 1..n /\ f[n] \in Seq(Octets) /\ off[n + 1] = Len(f[n])
  BY <1>1, <1>3, <1>4
<1>13. PartsAt(s, f[n], off)
  BY <1>4, <1>5, <1>6, <1>11, <1>12 DEF PartsAt, P, n
<1> QED
  BY <1>2, <1>12, <1>13

LEMMA SameSequence ==
    ASSUME NEW S, NEW T, NEW s \in Seq(S), NEW t \in Seq(T), Len(s) = Len(t),
           \A i \in 1..Len(s) : s[i] = t[i]
    PROVE  s = t
<1>1. s = [i \in 1..Len(s) |-> s[i]]
  OBVIOUS
<1>2. t = [i \in 1..Len(t) |-> t[i]]
  OBVIOUS
<1> QED
  BY <1>1, <1>2

-----------------------------------------------------------------------------
(* What the client asks is the name it was given.                          *)

LEMMA NameFacts ==
    ASSUME NEW name, IsName(name)
    PROVE  /\ name \in Seq(Seq(Octets)) /\ Len(name) \in Nat /\ Len(name) # 0
           /\ DOMAIN name = 1..Len(name)
           /\ \A i \in 1..Len(name) :
                 /\ name[i] \in Seq(Octets) /\ Len(name[i]) \in Nat
                 /\ 1 <= Len(name[i]) /\ Len(name[i]) <= 63
<1>1. name \in Seq(Seq(1..255)) /\ name # <<>> /\ \A i \in DOMAIN name : Len(name[i]) \in 1..63
  BY DEF IsName
<1>2. 1..255 \subseteq Octets
  BY DEF Octets
<1>3. \A S : S \subseteq Octets /\ name \in Seq(Seq(S)) =>
         name \in Seq(Seq(Octets)) /\ \A i \in 1..Len(name) : name[i] \in Seq(Octets)
  <2> SUFFICES ASSUME NEW S, S \subseteq Octets, name \in Seq(Seq(S))
               PROVE  name \in Seq(Seq(Octets)) /\ \A i \in 1..Len(name) : name[i] \in Seq(Octets)
    OBVIOUS
  <2>1. \A l \in Seq(S) : l \in Seq(Octets)
    OBVIOUS
  <2>2. \A i \in 1..Len(name) : name[i] \in Seq(Octets)
    BY <2>1
  <2> QED
    BY <2>2
<1>4. name \in Seq(Seq(Octets)) /\ \A i \in 1..Len(name) : name[i] \in Seq(Octets)
  BY <1>1, <1>2, <1>3
<1>5. DOMAIN name = 1..Len(name) /\ Len(name) \in Nat /\ Len(name) # 0
  BY <1>1, <1>4
<1>6. \A k \in 1..63 : k \in Nat /\ 1 <= k /\ k <= 63
  OBVIOUS
<1> QED
  BY <1>1, <1>4, <1>5, <1>6

Part(label) == <<Len(label) % 256>> \o label

LEMMA PartIs ==
    ASSUME NEW label \in Seq(Octets), Len(label) <= 63
    PROVE  /\ Part(label) \in Seq(Octets) /\ Len(Part(label)) = Len(label) + 1
           /\ Part(label)[1] = Len(label)
           /\ \A j \in 1..Len(label) : Part(label)[1 + j] = label[j]
<1>1. \A k \in Nat : k <= 63 => k % 256 = k /\ k \in Octets
  BY DEF Octets
<1>2. Len(label) \in Nat
  OBVIOUS
<1>3. Part(label) = <<Len(label)>> \o label /\ Len(label) \in Octets
  BY <1>1, <1>2 DEF Part
<1> QED
  BY <1>2, <1>3

\* A name and its end stand at position p of a message.
Stands(msg, p, name, off) ==
    /\ off \in [1..(Len(name) + 1) -> Nat] /\ off[1] = 0
    /\ Byte(msg, p + off[Len(name) + 1]) = 0 /\ off[Len(name) + 1] < Len(msg)
    /\ \A i \in 1..Len(name) :
          /\ off[i + 1] = off[i] + 1 + Len(name[i])
          /\ Byte(msg, p + off[i]) = Len(name[i])
          /\ \A j \in 1..Len(name[i]) : Byte(msg, p + off[i] + j) = name[i][j]

LEMMA StandingName ==
    ASSUME NEW msg \in Seq(Octets), NEW p \in Nat, NEW name, IsName(name), NEW off,
           Stands(msg, p, name, off)
    PROVE  NameAt(msg, p) = name
<1> DEFINE n == Len(name)
           t == Trail(msg, p)
           l == LabelsTo(msg, p)
<1>1. /\ n \in Nat /\ name \in Seq(Seq(Octets)) /\ Len(msg) \in Nat
      /\ \A i \in 1..n : /\ name[i] \in Seq(Octets) /\ Len(name[i]) \in Nat
                         /\ 1 <= Len(name[i]) /\ Len(name[i]) <= 63
  BY NameFacts
<1>2. /\ off \in [1..(n + 1) -> Nat] /\ off[1] = 0
      /\ Byte(msg, p + off[n + 1]) = 0 /\ off[n + 1] < Len(msg)
  BY DEF Stands
<1>3. \A i \in 1..n :
          /\ off[i + 1] = off[i] + 1 + Len(name[i])
          /\ Byte(msg, p + off[i]) = Len(name[i])
          /\ \A j \in 1..Len(name[i]) : Byte(msg, p + off[i] + j) = name[i][j]
  BY DEF Stands
<1>4. /\ t[0] = p /\ \A i \in 0..(Len(msg) - 1) : t[i + 1] = After(msg, t[i])
  BY TrailIs
<1>5. /\ l \in [0..Len(msg) -> Seq(Seq(Octets))] /\ l[0] = <<>>
      /\ \A i \in 0..(Len(msg) - 1) : l[i + 1] = Labelled(msg, p, i, l[i])
  BY LabelsToIs, Zenon
<1> HIDE DEF n, t, l
<1>6. \A i \in 1..n : /\ off[i] \in Nat /\ off[i + 1] \in Nat /\ Len(name[i]) \in Nat
                      /\ off[i] < off[i + 1]
  <2>1. \A i \in 1..n : i \in 1..(n + 1) /\ i + 1 \in 1..(n + 1)
    BY <1>1
  <2>2. \A i \in 1..n : off[i] \in Nat /\ off[i + 1] \in Nat
    BY <1>2, <2>1
  <2>3. \A a, b, k \in Nat : b = a + 1 + k => a < b
    OBVIOUS
  <2>4. \A i \in 1..n : off[i] < off[i + 1]
    BY <1>1, <1>3, <2>2, <2>3
  <2> QED
    BY <1>1, <2>2, <2>4
<1> DEFINE R == {k \in Nat : k <= n => k <= off[k + 1]}
<1>7. n <= off[n + 1]
  <2>1. 0 \in R
    BY <1>2
  <2>2. ASSUME NEW k \in Nat, k \in R PROVE k + 1 \in R
    <3>1. CASE k + 1 <= n
      <4>1. k + 1 \in 1..n /\ k <= n
        BY <1>1, <3>1
      <4>2. off[k + 1] \in Nat /\ off[(k + 1) + 1] \in Nat /\ off[k + 1] < off[(k + 1) + 1]
        BY <1>6, <4>1
      <4> QED
        BY <2>2, <4>1, <4>2
    <3> QED
      BY <3>1
  <2> HIDE DEF R
  <2>3. n \in R
    BY <1>1, <2>1, <2>2, Induction
  <2> QED
    BY <1>1, <2>3 DEF R
<1>8. n < Len(msg) /\ n + 1 \in 1..(n + 1)
  <2>1. n + 1 \in 1..(n + 1) /\ off[n + 1] \in Nat
    BY <1>1, <1>2
  <2> QED
    BY <1>1, <1>2, <1>7, <2>1
<1>9. \A i \in 1..n : /\ Byte(msg, p + off[i]) # 0 /\ ~IsPointer(Byte(msg, p + off[i]))
                      /\ After(msg, p + off[i]) = p + off[i + 1]
                      /\ LabelAt(msg, p + off[i]) = name[i]
  <2> SUFFICES ASSUME NEW i \in 1..n
               PROVE  /\ Byte(msg, p + off[i]) # 0 /\ ~IsPointer(Byte(msg, p + off[i]))
                      /\ After(msg, p + off[i]) = p + off[i + 1]
                      /\ LabelAt(msg, p + off[i]) = name[i]
    OBVIOUS
  <2>1. /\ Byte(msg, p + off[i]) = Len(name[i]) /\ Len(name[i]) \in Nat
        /\ 1 <= Len(name[i]) /\ Len(name[i]) <= 63
    BY <1>1, <1>3
  <2>0. \A k \in Nat : 1 <= k /\ k <= 63 => k # 0 /\ ~IsPointer(k)
    BY DEF IsPointer
  <2>2. Byte(msg, p + off[i]) # 0 /\ ~IsPointer(Byte(msg, p + off[i]))
    BY <2>0, <2>1
  <2>3. After(msg, p + off[i]) = p + off[i + 1]
    <3>1. After(msg, p + off[i]) = p + off[i] + 1 + Len(name[i])
      BY <2>1, <2>2 DEF After
    <3>2. off[i + 1] = off[i] + 1 + Len(name[i]) /\ off[i] \in Nat
      BY <1>3, <1>6
    <3>3. \A a, b, k \in Nat : a + b + 1 + k = a + (b + 1 + k)
      OBVIOUS
    <3>4. p + off[i] + 1 + Len(name[i]) = p + (off[i] + 1 + Len(name[i]))
      BY <2>1, <3>2, <3>3
    <3> QED
      BY <3>1, <3>2, <3>4, Zenon
  <2>4. p + off[i] \in Nat
    BY <1>6
  <2>5. /\ LabelAt(msg, p + off[i]) \in Seq(Octets)
        /\ Len(LabelAt(msg, p + off[i])) = Byte(msg, p + off[i])
        /\ \A j \in 1..Byte(msg, p + off[i]) :
              LabelAt(msg, p + off[i])[j] = Byte(msg, p + off[i] + j)
    BY <2>4, LabelIs, Zenon
  <2>6. \A j \in 1..Len(name[i]) : LabelAt(msg, p + off[i])[j] = name[i][j]
    BY <1>3, <2>1, <2>5
  <2>7. LabelAt(msg, p + off[i]) = name[i]
    <3>1. name[i] \in Seq(Octets) /\ Len(LabelAt(msg, p + off[i])) = Len(name[i])
      BY <1>1, <2>1, <2>5
    <3>2. \A j \in 1..Len(LabelAt(msg, p + off[i])) : LabelAt(msg, p + off[i])[j] = name[i][j]
      BY <2>6, <3>1
    <3> QED
      BY <2>5, <3>1, <3>2, SameSequence, Zenon
  <2> QED
    BY <2>2, <2>3, <2>7
<1> DEFINE P(k) == /\ t[k] = p + off[k + 1]
                   /\ l[k] \in Seq(Seq(Octets)) /\ Len(l[k]) = k
                   /\ \A i \in 1..k : l[k][i] = name[i]
           S == {k \in Nat : k <= n => P(k)}
<1>10. \A k \in 0..n : P(k)
  <2>1. 0 \in S
    <3>1. t[0] = p + off[0 + 1]
      BY <1>2, <1>4
    <3>2. <<>> \in Seq(Seq(Octets)) /\ Len(<<>>) = 0 /\ \A i \in 1..0 : FALSE
      OBVIOUS
    <3> QED
      BY <1>5, <3>1, <3>2
  <2>2. ASSUME NEW k \in Nat, k \in S PROVE k + 1 \in S
    <3>1. CASE k + 1 <= n
      <4>1. k + 1 \in 1..n /\ k <= n /\ k \in 0..(Len(msg) - 1)
        BY <1>1, <1>8, <3>1
      <4>2. P(k)
        BY <2>2, <4>1
      <4>3. t[k + 1] = p + off[(k + 1) + 1]
        BY <1>4, <1>9, <4>1, <4>2
      <4>4. l[k + 1] = Append(l[k], name[k + 1])
        BY <1>5, <1>9, <4>1, <4>2 DEF Labelled, t
      <4>5. name[k + 1] \in Seq(Octets)
        BY <1>1, <4>1
      <4>6. /\ l[k + 1] \in Seq(Seq(Octets)) /\ Len(l[k + 1]) = k + 1
            /\ l[k + 1][k + 1] = name[k + 1] /\ \A i \in 1..k : l[k + 1][i] = l[k][i]
        BY <4>2, <4>4, <4>5
      <4>7. \A i \in 1..(k + 1) : i = k + 1 \/ i \in 1..k
        OBVIOUS
      <4>8. \A i \in 1..(k + 1) : l[k + 1][i] = name[i]
        BY <4>2, <4>6, <4>7
      <4> QED
        BY <4>3, <4>6, <4>8
    <3> QED
      BY <3>1
  <2> HIDE DEF S
  <2>3. Nat \subseteq S
    BY <2>1, <2>2, Induction
  <2> QED
    BY <1>1, <2>3 DEF S
<1>11. EndsAfter(msg, p, n)
  <2>1. n \in 0..n /\ \A i \in 0..(n - 1) : i \in 0..n /\ i + 1 \in 1..n
    BY <1>1
  <2>2. Byte(msg, t[n]) = 0
    BY <1>2, <1>10, <2>1
  <2>3. \A i \in 0..(n - 1) : Byte(msg, t[i]) # 0
    BY <1>9, <1>10, <2>1
  <2> QED
    BY <2>2, <2>3 DEF EndsAfter, t
<1>12. EndOf(msg, p) = n
  <2>1. n \in 0..Len(msg)
    BY <1>1, <1>8
  <2> QED
    BY <1>11, <2>1, EndIs
<1>13. NameAt(msg, p) = l[n]
  BY <1>12 DEF NameAt, l
<1>14. n \in 0..n
  BY <1>1
<1>15. l[n] = name
  <2>1. l[n] \in Seq(Seq(Octets)) /\ Len(l[n]) = Len(name) /\ \A i \in 1..Len(l[n]) : l[n][i] = name[i]
    BY <1>10, <1>14 DEF n
  <2> QED
    BY <1>1, <2>1, SameSequence, Zenon
<1> QED
  BY <1>13, <1>15

Parts(m, h, a, b, c) ==
    /\ m \in Seq(Octets) /\ Len(m) = Len(h) + Len(a) + Len(b) + Len(c) + Len(c)
    /\ \A i \in 1..Len(a) : m[Len(h) + i] = a[i]
    /\ \A i \in 1..Len(b) : m[Len(h) + Len(a) + i] = b[i]

LEMMA PartsAre ==
    ASSUME NEW h \in Seq(Octets), NEW a \in Seq(Octets), NEW b \in Seq(Octets), NEW c \in Seq(Octets)
    PROVE  Parts(((h \o (a \o b)) \o c) \o c, h, a, b, c)
<1>1. \A x, y \in Seq(Octets) :
         /\ x \o y \in Seq(Octets) /\ Len(x \o y) = Len(x) + Len(y) /\ Len(x) \in Nat
         /\ \A i \in 1..Len(x) : (x \o y)[i] = x[i]
         /\ \A i \in 1..Len(y) : (x \o y)[Len(x) + i] = y[i]
  OBVIOUS
<1> DEFINE ab == a \o b
           hab == h \o ab
           habc == hab \o c
<1>2. /\ ab \in Seq(Octets) /\ Len(ab) = Len(a) + Len(b)
      /\ Len(a) \in Nat /\ Len(b) \in Nat /\ Len(h) \in Nat /\ Len(c) \in Nat
      /\ \A i \in 1..Len(a) : ab[i] = a[i] 
      /\ \A i \in 1..Len(b) : ab[Len(a) + i] = b[i]
  BY <1>1
<1> HIDE DEF ab
<1>3. /\ hab \in Seq(Octets) /\ Len(hab) = Len(h) + Len(ab)
      /\ \A i \in 1..Len(ab) : hab[Len(h) + i] = ab[i]
  BY <1>1, <1>2
<1> HIDE DEF hab
<1>4. /\ habc \in Seq(Octets) /\ Len(habc) = Len(hab) + Len(c)
      /\ \A i \in 1..Len(hab) : habc[i] = hab[i]
  BY <1>1, <1>3
<1> HIDE DEF habc
<1>5. /\ habc \o c \in Seq(Octets) /\ Len(habc \o c) = Len(habc) + Len(c)
      /\ \A i \in 1..Len(habc) : (habc \o c)[i] = habc[i]
  BY <1>1, <1>4
<1>6. \A i \in 1..Len(a) : /\ i \in 1..Len(ab) /\ Len(h) + i \in 1..Len(hab)
                           /\ Len(h) + i \in 1..Len(habc)
  BY <1>2, <1>3, <1>4
<1>7. \A i \in 1..Len(b) : /\ Len(a) + i \in 1..Len(ab) /\ Len(h) + (Len(a) + i) \in 1..Len(hab)
                           /\ Len(h) + (Len(a) + i) \in 1..Len(habc)
                           /\ Len(h) + (Len(a) + i) = Len(h) + Len(a) + i
  BY <1>2, <1>3, <1>4
<1>8. \A i \in 1..Len(a) : (habc \o c)[Len(h) + i] = a[i]
  BY <1>2, <1>3, <1>4, <1>5, <1>6
<1>9. \A i \in 1..Len(b) : (habc \o c)[Len(h) + (Len(a) + i)] = b[i]
  BY <1>2, <1>3, <1>4, <1>5, <1>7
<1>10. Len(habc \o c) = Len(h) + Len(a) + Len(b) + Len(c) + Len(c)
  BY <1>2, <1>3, <1>4, <1>5
<1> QED
  BY <1>5, <1>7, <1>8, <1>9, <1>10 DEF habc, hab, ab, Parts

LEMMA QueryIs ==
    ASSUME NEW name, IsName(name)
    PROVE  Query(name) \in Seq(Octets) /\ NameAt(Query(name), 12) = name
<1> DEFINE n == Len(name)
           s == [i \in DOMAIN name |-> Part(name[i])]
           e == FlattenSeq(s)
           zero == <<0>>
           word == ToWord(1)
           msg == Query(name)
<1>1. /\ n \in Nat /\ n # 0 /\ DOMAIN name = 1..n
      /\ \A i \in 1..n : /\ name[i] \in Seq(Octets) /\ Len(name[i]) \in Nat
                         /\ 1 <= Len(name[i]) /\ Len(name[i]) <= 63
  BY NameFacts
<1>2. /\ s \in Seq(Seq(Octets)) /\ Len(s) = n /\ s # <<>>
      /\ \A i \in 1..n : s[i] = Part(name[i])
  <2>1. \A i \in 1..n : Part(name[i]) \in Seq(Octets)
    BY <1>1, PartIs
  <2>2. s = [i \in 1..n |-> Part(name[i])]
    BY <1>1
  <2> HIDE DEF n, s
  <2>3. s \in Seq(Seq(Octets)) /\ Len(s) = n
    BY <1>1, <2>1, <2>2
  <2>4. \A i \in 1..n : s[i] = Part(name[i])
    BY <2>2
  <2>5. s # <<>>
    BY <1>1, <2>3
  <2> QED
    BY <2>3, <2>4, <2>5
<1>3. \A i \in 1..n : /\ Len(s[i]) = Len(name[i]) + 1 /\ s[i][1] = Len(name[i])
                      /\ \A j \in 1..Len(name[i]) : s[i][1 + j] = name[i][j]
  BY <1>1, <1>2, PartIs
<1> HIDE DEF n, s
<1>4. e \in Seq(Octets) /\ \E off : PartsAt(s, e, off)
  BY <1>2, FlattenPlaces
<1>5. PICK off : PartsAt(s, e, off)
  BY <1>4
<1>6. /\ QueryHeader \in Seq(Octets) /\ Len(QueryHeader) = 12
      /\ zero \in Seq(Octets) /\ Len(zero) = 1 /\ zero[1] = 0
      /\ word \in Seq(Octets) /\ Len(word) = 2
  BY DEF QueryHeader, Octets, ToWord
<1>7. EncodedName(name) = e \o zero
  BY DEF EncodedName, e, s, Part
<1>8. msg = ((QueryHeader \o (e \o zero)) \o word) \o word
  BY <1>7 DEF Query, TypeA
<1> HIDE DEF e, zero, word, msg
<1>10. /\ msg \in Seq(Octets) /\ Len(msg) = 12 + Len(e) + 1 + 2 + 2 /\ Len(e) \in Nat
       /\ \A i \in 1..Len(e) : msg[12 + i] = e[i]
       /\ msg[12 + Len(e) + 1] = 0
  <2>1. /\ msg \in Seq(Octets) /\ Len(msg) = Len(QueryHeader) + Len(e) + Len(zero) + Len(word) + Len(word)
        /\ \A i \in 1..Len(e) : msg[Len(QueryHeader) + i] = e[i]
        /\ \A i \in 1..Len(zero) : msg[Len(QueryHeader) + Len(e) + i] = zero[i]
    <3>1. QueryHeader \in Seq(Octets) /\ e \in Seq(Octets) /\ zero \in Seq(Octets) /\ word \in Seq(Octets)
      BY <1>4, <1>6
    <3>2. Parts(msg, QueryHeader, e, zero, word)
      BY <3>1, <1>8, PartsAre
    <3> QED
      BY <3>2 DEF Parts
  <2>2. Len(e) \in Nat
    BY <1>4
  <2> QED
    BY <1>6, <2>1, <2>2
<1>11. Stands(msg, 12, name, off)
  <2>1. /\ off \in [1..(n + 1) -> Nat] /\ off[1] = 0 /\ off[n + 1] = Len(e)
        /\ \A i \in 1..n : off[i + 1] = off[i] + Len(s[i]) /\ off[i + 1] <= Len(e)
        /\ \A i \in 1..n : \A j \in 1..Len(s[i]) : e[off[i] + j] = s[i][j]
    BY <1>2, <1>5 DEF PartsAt
  <2>2. \A i \in 1..n : off[i] \in Nat /\ Len(name[i]) \in Nat
    <3>1. \A i \in 1..n : i \in 1..(n + 1)
      BY <1>1
    <3> QED
      BY <1>1, <2>1, <3>1
  <2>3. ASSUME NEW i \in 1..n, NEW j \in 0..Len(name[i])
        PROVE  Byte(msg, 12 + off[i] + j) = s[i][1 + j]
    <3>1. 1 + j \in 1..Len(s[i]) /\ j \in Nat
      BY <1>3, <2>2
    <3>2. off[i] + (1 + j) \in 1..Len(e) /\ off[i] + (1 + j) <= Len(e)
      <4>1. off[i] + Len(s[i]) <= Len(e)
        BY <2>1
      <4>2. Len(s[i]) = Len(name[i]) + 1 /\ Len(name[i]) \in Nat /\ off[i] \in Nat /\ Len(e) \in Nat
        BY <1>3, <1>10, <2>2
      <4> QED
        BY <3>1, <4>1, <4>2
    <3>3. msg[12 + (off[i] + (1 + j))] = s[i][1 + j]
      BY <1>10, <2>1, <3>1, <3>2
    <3>4. 12 + off[i] + j < Len(msg) /\ (12 + off[i] + j) + 1 = 12 + (off[i] + (1 + j))
      <4>1. off[i] \in Nat /\ j \in Nat /\ Len(e) \in Nat /\ Len(msg) = 12 + Len(e) + 1 + 2 + 2
        BY <1>10, <2>2, <3>1
      <4>2. \A a, b, k \in Nat : /\ (12 + a + b) + 1 = 12 + (a + (1 + b))
                                 /\ a + (1 + b) <= k => 12 + a + b < 12 + k + 1 + 2 + 2
        OBVIOUS
      <4> QED
        BY <3>2, <4>1, <4>2
    <3> QED
      BY <3>3, <3>4 DEF Byte
  <2>4. \A i \in 1..n :
          /\ off[i + 1] = off[i] + 1 + Len(name[i])
          /\ Byte(msg, 12 + off[i]) = Len(name[i])
          /\ \A j \in 1..Len(name[i]) : Byte(msg, 12 + off[i] + j) = name[i][j]
    <3> SUFFICES ASSUME NEW i \in 1..n
                 PROVE  /\ off[i + 1] = off[i] + 1 + Len(name[i])
                        /\ Byte(msg, 12 + off[i]) = Len(name[i])
                        /\ \A j \in 1..Len(name[i]) : Byte(msg, 12 + off[i] + j) = name[i][j]
      OBVIOUS
    <3>1. off[i + 1] = off[i] + 1 + Len(name[i])
      <4>1. off[i + 1] = off[i] + Len(s[i]) /\ Len(s[i]) = Len(name[i]) + 1
        BY <1>3, <2>1
      <4>2. off[i] \in Nat /\ Len(name[i]) \in Nat
        BY <2>2
      <4> QED
        BY <4>1, <4>2
    <3>2. 0 \in 0..Len(name[i]) /\ 12 + off[i] + 0 = 12 + off[i] /\ 1 + 0 = 1
      BY <2>2
    <3>3. Byte(msg, 12 + off[i]) = Len(name[i])
      BY <1>3, <2>3, <3>2
    <3>4. \A j \in 1..Len(name[i]) : j \in 0..Len(name[i])
      BY <2>2
    <3>5. \A j \in 1..Len(name[i]) : Byte(msg, 12 + off[i] + j) = name[i][j]
      BY <1>3, <2>3, <3>4
    <3> QED
      BY <3>1, <3>3, <3>5
  <2>5. Byte(msg, 12 + off[n + 1]) = 0
    <3>1. 12 + Len(e) < Len(msg) /\ (12 + Len(e)) + 1 = 12 + Len(e) + 1
      BY <1>10
    <3> QED
      BY <1>10, <2>1, <3>1 DEF Byte
  <2>6. off[n + 1] < Len(msg)
    BY <1>10, <2>1
  <2> QED
    BY <2>1, <2>4, <2>5, <2>6 DEF Stands, n
<1>12. NameAt(msg, 12) = name
  BY <1>10, <1>11, StandingName
<1> QED
  BY <1>10, <1>12 DEF msg

-----------------------------------------------------------------------------
(* The network.  Its messages are for names given up, and for the name of  *)
(* this run until its reply is in.                                         *)

Asked(name)   == [to |-> "server", msg |-> Query(name)]
Replied(name) == [to |-> "client", msg |-> Zone[name]]

Heard == step # "wait" /\ NameAt(reply, 12) = domain
Awaited(name) == name \in abandoned \/ (step # "down" /\ name = domain /\ ~Heard)

NInv == /\ step \in {"down", "wait"} \cup Decoding
        /\ domain \in DOMAIN Zone \cup {<<>>}
        /\ step # "down" => domain \in DOMAIN Zone
        /\ abandoned \subseteq DOMAIN Zone
        /\ \A d \in network :
              \E name \in DOMAIN Zone : d \in {Asked(name), Replied(name)} /\ Awaited(name)
        /\ step = "wait" /\ domain \notin abandoned =>
              ~(Asked(domain) \in network /\ Replied(domain) \in network)
        /\ step \in Decoding => reply # <<>>
        /\ reply # <<>> =>
              \E name \in DOMAIN Zone : reply = Zone[name] /\ name \in {domain} \cup abandoned

LEMMA ZoneFacts ==
    ASSUME NEW name \in DOMAIN Zone
    PROVE  /\ IsName(name) /\ WrittenReply(Zone[name], name) /\ NameAt(Zone[name], 12) = name
           /\ Zone[name] \in Seq(Octets)
<1>1. IsName(name) /\ WrittenReply(Zone[name], name)
  BY ZoneAssumption
<1>2. NameAt(Zone[name], 12) = name /\ Zone[name] \in Seq(Octets)
  BY <1>1 DEF WrittenReply, Octets
<1> QED
  BY <1>1, <1>2

LEMMA MessagesDiffer ==
    ASSUME NEW name \in DOMAIN Zone, NEW other \in DOMAIN Zone
    PROVE  /\ Asked(name) # Replied(other)
           /\ Asked(name) = Asked(other) => name = other
           /\ Replied(name) = Replied(other) => name = other
           /\ Asked(name).to = "server" /\ Replied(name).to = "client"
           /\ Replied(name).msg = Zone[name]
           /\ Answers(Asked(name).msg) = {Replied(name)}
<1>1. /\ Asked(name).to = "server" /\ Replied(other).to = "client" /\ Replied(name).to = "client"
      /\ Asked(name).msg = Query(name) /\ Asked(other).msg = Query(other)
      /\ Replied(name).msg = Zone[name] /\ Replied(other).msg = Zone[other]
  BY DEF Asked, Replied
<1>2. NameAt(Query(name), 12) = name /\ NameAt(Query(other), 12) = other
  BY ZoneFacts, QueryIs
<1>3. NameAt(Zone[name], 12) = name /\ NameAt(Zone[other], 12) = other
  BY ZoneFacts
<1>4. "server" # "client"
  OBVIOUS
<1>5. Answers(Query(name)) = {Replied(name)}
  BY <1>2 DEF Answers, Replied
<1>6. Asked(name) # Replied(other)
  BY <1>1, <1>4
<1>7. Asked(name) = Asked(other) => name = other
  BY <1>1, <1>2
<1>8. Replied(name) = Replied(other) => name = other
  BY <1>1, <1>3
<1> QED
  BY <1>1, <1>5, <1>6, <1>7, <1>8

LEMMA NSend ==
    ASSUME NInv, NEW name \in DOMAIN Zone, Send(name)
    PROVE  NInv'
<1>1. /\ step = "down" /\ step' = "wait" /\ domain' = name /\ reply' = <<>>
      /\ network' = network \cup {Asked(name)} /\ abandoned' = abandoned
  BY DEF Send, Requests, Asked
<1>2. \A d \in network : \E m \in abandoned : d \in {Asked(m), Replied(m)}
  BY <1>1 DEF NInv, Awaited
<1>3. abandoned \subseteq DOMAIN Zone
  BY DEF NInv
<1>4. \A d \in network' : \E m \in DOMAIN Zone : d \in {Asked(m), Replied(m)} /\ Awaited(m)'
  <2>1. ASSUME NEW d \in network PROVE \E m \in DOMAIN Zone : d \in {Asked(m), Replied(m)} /\ Awaited(m)'
    BY <1>1, <1>2, <1>3 DEF Awaited
  <2>2. Awaited(name)'
    BY <1>1 DEF Awaited, Heard
  <2> QED
    BY <1>1, <2>1, <2>2
<1>5. step' = "wait" /\ domain' \notin abandoned' =>
         ~(Asked(domain') \in network' /\ Replied(domain') \in network')
  <2> SUFFICES ASSUME name \notin abandoned, Replied(name) \in network' PROVE FALSE
    BY <1>1
  <2>1. Replied(name) \in network
    BY <1>1, MessagesDiffer
  <2>2. PICK m \in abandoned : Replied(name) \in {Asked(m), Replied(m)}
    BY <1>2, <2>1
  <2>3. m = name
    BY <1>3, <2>2, MessagesDiffer
  <2> QED
    BY <2>2, <2>3
<1> QED
  BY <1>1, <1>3, <1>4, <1>5 DEF NInv, Decoding, Asked, Replied

LEMMA NServe ==
    ASSUME NInv, NEW q \in network, Serve(q)
    PROVE  NInv'
<1>1. /\ q.to = "server" /\ network' = (network \ {q}) \cup Answers(q.msg)
      /\ UNCHANGED <<step, domain, reply, abandoned>>
  BY DEF Serve
<1>2. PICK m \in DOMAIN Zone : q \in {Asked(m), Replied(m)} /\ Awaited(m)
  BY DEF NInv
<1>3. q = Asked(m)
  BY <1>1, <1>2, MessagesDiffer
<1>4. network' = (network \ {Asked(m)}) \cup {Replied(m)}
  BY <1>1, <1>3, MessagesDiffer
<1>5. \A x : Awaited(x)' <=> Awaited(x)
  BY <1>1 DEF Awaited, Heard
<1>6. \A d \in network' : \E x \in DOMAIN Zone : d \in {Asked(x), Replied(x)} /\ Awaited(x)'
  <2>1. ASSUME NEW d \in network PROVE \E x \in DOMAIN Zone : d \in {Asked(x), Replied(x)} /\ Awaited(x)'
    BY <1>5 DEF NInv
  <2>2. Awaited(m)'
    BY <1>2, <1>5
  <2> QED
    BY <1>4, <2>1, <2>2
<1>7. step' = "wait" /\ domain' \notin abandoned' =>
         ~(Asked(domain') \in network' /\ Replied(domain') \in network')
  <2> SUFFICES ASSUME step = "wait", domain \notin abandoned,
                      Asked(domain) \in network', Replied(domain) \in network'
               PROVE  FALSE
    BY <1>1
  <2>1. domain \in DOMAIN Zone
    BY DEF NInv
  <2>2. domain # m
    BY <1>4, <2>1, MessagesDiffer
  <2>3. Asked(domain) \in network /\ Replied(domain) \in network
    BY <1>4, <2>1, <2>2, MessagesDiffer
  <2> QED
    BY <2>3 DEF NInv
<1> QED
  BY <1>1, <1>6, <1>7 DEF NInv, Asked, Replied

LEMMA NLose ==
    ASSUME NInv, NEW d \in network, Lose(d)
    PROVE  NInv'
<1>1. network' = network \ {d} /\ UNCHANGED <<step, domain, reply, abandoned>>
  BY DEF Lose
<1>2. \A x : Awaited(x)' <=> Awaited(x)
  BY <1>1 DEF Awaited, Heard
<1>3. \A e \in network' : \E x \in DOMAIN Zone : e \in {Asked(x), Replied(x)} /\ Awaited(x)'
  BY <1>1, <1>2 DEF NInv
<1> QED
  BY <1>1, <1>3 DEF NInv, Asked, Replied

LEMMA NReceive ==
    ASSUME NInv, Receive
    PROVE  NInv'
<1>1. PICK d \in network : d.to = "client" /\ network' = network \ {d} /\ reply' = d.msg
  BY DEF Receive
<1>2. /\ step = "wait" /\ step' = "question" /\ UNCHANGED <<domain, abandoned>>
  BY DEF Receive
<1>3. PICK m \in DOMAIN Zone : d \in {Asked(m), Replied(m)} /\ Awaited(m)
  BY DEF NInv
<1>4. d = Replied(m) /\ reply' = Zone[m]
  <2>1. d = Replied(m)
    BY <1>1, <1>3, MessagesDiffer
  <2> QED
    BY <1>1, <2>1, MessagesDiffer
<1>5. m \in abandoned \/ m = domain
  BY <1>3 DEF Awaited
<1>6. NameAt(reply', 12) = m /\ Zone[m] # <<>>
  <2>1. NameAt(Zone[m], 12) = m /\ Word(Zone[m], 4) = 1
    BY ZoneFacts DEF WrittenReply
  <2>2. Word(<<>>, 4) = 0
    BY DEF Word, Byte
  <2> QED
    BY <1>4, <2>1, <2>2
<1>7. \A e \in network' : \E x \in DOMAIN Zone : e \in {Asked(x), Replied(x)} /\ Awaited(x)'
  <2> SUFFICES ASSUME NEW e \in network'
               PROVE  \E x \in DOMAIN Zone : e \in {Asked(x), Replied(x)} /\ Awaited(x)'
    OBVIOUS
  <2>1. e \in network /\ e # d
    BY <1>1
  <2>2. PICK x \in DOMAIN Zone : e \in {Asked(x), Replied(x)} /\ Awaited(x)
    BY <2>1 DEF NInv
  <2>3. CASE x \in abandoned
    BY <1>2, <2>2, <2>3 DEF Awaited
  <2>4. CASE x \notin abandoned
    <3>1. x = domain
      BY <2>2, <2>4 DEF Awaited
    <3>2. m # domain
      <4> SUFFICES ASSUME m = domain PROVE FALSE
        OBVIOUS
      <4>1. Replied(domain) \in network /\ e = Asked(domain)
        BY <1>4, <2>1, <2>2, <3>1
      <4> QED
        BY <1>2, <2>1, <2>4, <3>1, <4>1 DEF NInv
    <3>3. Awaited(x)'
      BY <1>2, <1>6, <3>1, <3>2 DEF Awaited, Heard
    <3> QED
      BY <2>2, <3>3
  <2> QED
    BY <2>3, <2>4
<1>8. /\ step' \in {"down", "wait"} \cup Decoding /\ step' # "wait"
      /\ domain' \in DOMAIN Zone /\ abandoned' \subseteq DOMAIN Zone
  BY <1>2 DEF NInv, Decoding
<1>9. reply' # <<>> /\ reply' = Zone[m] /\ m \in {domain'} \cup abandoned'
  BY <1>2, <1>4, <1>5, <1>6
<1> QED
  BY <1>7, <1>8, <1>9 DEF NInv, Asked, Replied

LEMMA NEnd ==
    ASSUME NInv, step # "down", End
    PROVE  NInv'
<1>1. /\ step' = "down" /\ UNCHANGED <<domain, network, reply>>
      /\ abandoned' = IF Heard THEN abandoned ELSE abandoned \cup {domain}
  BY DEF End, Heard
<1>2. \A x : Awaited(x) => Awaited(x)'
  BY <1>1 DEF Awaited
<1>3. \A e \in network' : \E x \in DOMAIN Zone : e \in {Asked(x), Replied(x)} /\ Awaited(x)'
  BY <1>1, <1>2 DEF NInv
<1>4. /\ step' \in {"down", "wait"} \cup Decoding /\ step' # "wait" /\ step' \notin Decoding
      /\ domain' \in DOMAIN Zone /\ abandoned' \subseteq DOMAIN Zone
  BY <1>1 DEF NInv, Decoding
<1>5. reply' # <<>> =>
         \E name \in DOMAIN Zone : reply' = Zone[name] /\ name \in {domain'} \cup abandoned'
  BY <1>1 DEF NInv
<1> QED
  BY <1>1, <1>3, <1>4, <1>5 DEF NInv, Asked, Replied

\* A step inside a run that goes on.
LEMMA NInside ==
    ASSUME NInv, step \in Decoding, step' \in Decoding, UNCHANGED <<domain, network, reply, abandoned>>
    PROVE  NInv'
<1>1. step # "wait" /\ step' # "wait" /\ step # "down" /\ step' # "down"
  BY DEF Decoding
<1>2. \A x : Awaited(x)' <=> Awaited(x)
  BY <1>1 DEF Awaited, Heard
<1>3. \A e \in network' : \E x \in DOMAIN Zone : e \in {Asked(x), Replied(x)} /\ Awaited(x)'
  BY <1>2 DEF NInv
<1> QED
  BY <1>1, <1>3 DEF NInv, Asked, Replied

\* The steps of the decoding that do not end the run.
Inner == \/ Question \/ QuestionsDone \/ NextAnswer \/ SkipMasked \/ FirstLabel \/ CopyOctet
         \/ FollowPointer \/ NextLabel \/ DomainDone \/ Fields \/ Show

LEMMA InnerStaysInside ==
    ASSUME Inner
    PROVE  step \in Decoding /\ step' \in Decoding /\ UNCHANGED outside
<1>1. CASE Question
  BY <1>1 DEF Question, Decoding
<1>2. CASE QuestionsDone
  BY <1>2 DEF QuestionsDone, Decoding
<1>3. CASE NextAnswer
  BY <1>3 DEF NextAnswer, AtDomain, Decoding
<1>4. CASE SkipMasked
  BY <1>4 DEF SkipMasked, Decoding
<1>5. CASE FirstLabel
  BY <1>5 DEF FirstLabel, Decoding
<1>6. CASE CopyOctet
  BY <1>6 DEF CopyOctet, Octet, Decoding
<1>7. CASE FollowPointer
  BY <1>7 DEF FollowPointer, Octet, Decoding
<1>8. CASE NextLabel
  BY <1>8 DEF NextLabel, Octet, Decoding
<1>9. CASE DomainDone
  BY <1>9 DEF DomainDone, Decoding
<1>10. CASE Fields
  BY <1>10 DEF Fields, AtDomain, Decoding
<1>11. CASE Show
  BY <1>11 DEF Show, Decoding
<1> QED
  BY <1>1, <1>2, <1>3, <1>4, <1>5, <1>6, <1>7, <1>8, <1>9, <1>10, <1>11 DEF Inner

LEMMA NInit ==
    ASSUME DNSInit
    PROVE  NInv
  BY DEF DNSInit, NInv, Decoding

LEMMA NStep ==
    ASSUME NInv, [DNSNext]_dnsVars
    PROVE  NInv'
<1>1. CASE \E name \in DOMAIN Zone : Send(name)
  BY <1>1, NSend
<1>2. CASE Serving
  BY <1>2, NServe DEF Serving
<1>3. CASE \E d \in network : Lose(d)
  BY <1>3, NLose
<1>4. CASE Interrupt
  BY <1>4, NEnd DEF Interrupt
<1>5. CASE Receive
  BY <1>5, NReceive
<1>6. CASE Decode
  <2>1. CASE Finish
    BY <2>1, NEnd DEF Finish
  <2>2. CASE Inner
    BY <2>2, InnerStaysInside, NInside DEF outside
  <2> QED
    BY <1>6, <2>1, <2>2 DEF Decode, Inner
<1>7. CASE UNCHANGED dnsVars
  BY <1>7 DEF dnsVars, NInv, Awaited, Heard, Asked, Replied
<1> QED
  BY <1>1, <1>2, <1>3, <1>4, <1>5, <1>6, <1>7 DEF DNSNext

\* In every run: a reply that answers another question is one whose run ended before it
\* had its own.
THEOREM StrangeRepliesAreLate ==
    DNSSpec => []StrangeReplyIsLate
<1>1. DNSInit => NInv
  BY NInit
<1>2. NInv /\ [DNSNext]_dnsVars => NInv'
  BY NStep
<1>3. NInv => StrangeReplyIsLate
  BY ZoneFacts DEF NInv, StrangeReplyIsLate
<1> QED
  BY <1>1, <1>2, <1>3, PTL DEF DNSSpec

-----------------------------------------------------------------------------
(* The question.                                                           *)

\* Where the answer after one at p starts.
AnswerAfter(msg, p) == AfterName(msg, p) + 10 + Word(msg, AfterName(msg, p) + 8)

AllAnswers(msg, f) ==
    f = [i \in 0..Word(msg, 6) |-> IF i = 0 THEN AfterName(msg, 12) + 4 ELSE AnswerAfter(msg, f[i - 1])]

LEMMA AnswerAtIs ==
    ASSUME NEW msg \in Seq(Octets)
    PROVE  /\ AnswerAt(msg, 1) = AfterName(msg, 12) + 4
           /\ \A k \in 1..Word(msg, 6) : AnswerAt(msg, k + 1) = AnswerAfter(msg, AnswerAt(msg, k))
<1> DEFINE first == AfterName(msg, 12) + 4
           w == Word(msg, 6)
           Body(f, i) == IF i = 0 THEN first ELSE AnswerAfter(msg, f[i - 1])
           P(j) == \E f : f = [i \in 0..j |-> Body(f, i)]
           S == {j \in Nat : P(j)}
<1>0. w \in Nat
  BY Words
<1> HIDE DEF first, w
<1>1. P(0)
  <2> DEFINE f == [i \in 0..0 |-> first]
  <2>1. f = [i \in 0..0 |-> Body(f, i)]
    OBVIOUS
  <2> QED
    BY <2>1
<1>2. ASSUME NEW j \in Nat, P(j) PROVE P(j + 1)
  <2>1. PICK f : f = [i \in 0..j |-> Body(f, i)]
    BY <1>2
  <2> HIDE DEF Body
  <2> DEFINE g == [i \in 0..(j + 1) |-> Body(f, i)]
  <2>2. \A i \in 0..j : f[i] = g[i]
    <3>1. \A i \in 0..j : f[i] = Body(f, i)
      BY <2>1, Zenon
    <3>2. \A i \in 0..j : i \in 0..(j + 1)
      OBVIOUS
    <3> QED
      BY <3>1, <3>2
  <2>3. \A i \in 0..(j + 1) : i = 0 \/ i - 1 \in 0..j
    OBVIOUS
  <2> HIDE DEF g
  <2>4. \A i \in 0..(j + 1) : Body(f, i) = Body(g, i)
    BY <2>2, <2>3 DEF Body
  <2>5. g = [i \in 0..(j + 1) |-> Body(g, i)]
    BY <2>4 DEF g
  <2> QED
    BY <2>5
<1> HIDE DEF P
<1>3. 0 \in S /\ \A j \in Nat : j \in S => j + 1 \in S
  BY <1>1, <1>2
<1>4. Nat \subseteq S
  BY <1>3, Induction
<1>5. P(w)
  BY <1>0, <1>4
<1> DEFINE h == CHOOSE f : AllAnswers(msg, f)
<1>6. AllAnswers(msg, h)
  <2>1. \E f : AllAnswers(msg, f)
    BY <1>5 DEF P, AllAnswers, first, w
  <2> QED
    BY <2>1
<1>7. \A k : AnswerAt(msg, k) = h[k - 1]
  BY Zenon DEF AnswerAt, AllAnswers, AnswerAfter
<1> HIDE DEF h
<1>8. \A i \in 0..w : h[i] = IF i = 0 THEN first ELSE AnswerAfter(msg, h[i - 1])
  BY <1>6, Zenon DEF AllAnswers, first, w
<1>9. AnswerAt(msg, 1) = first
  <2>1. 0 \in 0..w /\ 1 - 1 = 0
    BY <1>0
  <2> QED
    BY <1>7, <1>8, <2>1
<1>10. \A k \in 1..w : AnswerAt(msg, k + 1) = AnswerAfter(msg, AnswerAt(msg, k))
  <2>1. \A k \in 1..w : k \in 0..w /\ k # 0 /\ (k + 1) - 1 = k
    BY <1>0
  <2> QED
    BY <1>7, <1>8, <2>1
<1> QED
  BY <1>9, <1>10 DEF first, w

\* The text of the first i positions of the trail of a name.
TextTo(msg, p, i) == Dotted(LabelsTo(msg, p)[i])

LEMMA TextStep ==
    ASSUME NEW msg \in Seq(Octets), NEW p \in Nat
    PROVE  /\ TextTo(msg, p, 0) = <<>>
           /\ \A i \in 0..Len(msg) : TextTo(msg, p, i) \in Seq(Octets)
           /\ \A i \in 0..(Len(msg) - 1) :
                 TextTo(msg, p, i + 1) =
                    IF IsPointer(Byte(msg, Trail(msg, p)[i])) THEN TextTo(msg, p, i)
                    ELSE WithLabel(TextTo(msg, p, i), Len(LabelsTo(msg, p)[i]) + 1,
                                   LabelAt(msg, Trail(msg, p)[i]))
<1> DEFINE l == LabelsTo(msg, p)
           t == Trail(msg, p)
<1>1. /\ l \in [0..Len(msg) -> Seq(Seq(Octets))] /\ l[0] = <<>>
      /\ \A i \in 0..(Len(msg) - 1) : l[i + 1] = Labelled(msg, p, i, l[i])
  BY LabelsToIs, Zenon
<1>2. t \in [0..Len(msg) -> Nat] /\ Len(msg) \in Nat
  BY TrailIs
<1> HIDE DEF l
<1>3. \A i \in 0..Len(msg) : l[i] \in Seq(Seq(Octets)) /\ Dotted(l[i]) \in Seq(Octets)
  <2>1. \A i \in 0..Len(msg) : l[i] \in Seq(Seq(Octets))
    BY <1>1
  <2>2. <<>> \in Seq(Octets)
    OBVIOUS
  <2> QED
    BY <2>1, <2>2, DottedAppend
<1>4. Dotted(<<>>) = <<>>
  <2>1. <<>> \in Seq(Octets) /\ <<>> \in Seq(Seq(Octets))
    OBVIOUS
  <2> QED
    BY <2>1, DottedAppend
<1>5. ASSUME NEW i \in 0..(Len(msg) - 1)
      PROVE  Dotted(l[i + 1]) = IF IsPointer(Byte(msg, t[i])) THEN Dotted(l[i])
                                ELSE WithLabel(Dotted(l[i]), Len(l[i]) + 1, LabelAt(msg, t[i]))
  <2>1. i \in 0..Len(msg) /\ t[i] \in Nat
    BY <1>2
  <2>2. LabelAt(msg, t[i]) \in Seq(Octets)
    BY <2>1, LabelIs
  <2>3. Dotted(Append(l[i], LabelAt(msg, t[i]))) = WithLabel(Dotted(l[i]), Len(l[i]) + 1, LabelAt(msg, t[i]))
    BY <1>3, <2>1, <2>2, DottedAppend
  <2> QED
    BY <1>1, <2>3 DEF Labelled
<1> QED
  BY <1>1, <1>3, <1>4, <1>5 DEF TextTo, l, t

LEMMA WrittenFacts ==
    ASSUME NEW msg \in Seq(Octets), NEW p \in Nat, WrittenName(msg, p)
    PROVE  /\ EndOf(msg, p) \in 0..Len(msg) /\ EndOf(msg, p) \in Nat /\ Len(msg) \in Nat
           /\ \A i \in 0..EndOf(msg, p) : Trail(msg, p)[i] \in Nat
           /\ Byte(msg, Trail(msg, p)[EndOf(msg, p)]) = 0
           /\ \A i \in 0..(EndOf(msg, p) - 1) :
                 /\ i \in 0..(Len(msg) - 1) /\ i \in 0..EndOf(msg, p) /\ i + 1 \in 0..EndOf(msg, p)
                 /\ Byte(msg, Trail(msg, p)[i]) # 0 /\ Trail(msg, p)[i] < Len(msg)
                 /\ Trail(msg, p)[i + 1] = After(msg, Trail(msg, p)[i])
                 /\ \/ IsPointer(Byte(msg, Trail(msg, p)[i]))
                    \/ /\ Byte(msg, Trail(msg, p)[i]) < 64
                       /\ \A j \in 1..Byte(msg, Trail(msg, p)[i]) : Byte(msg, Trail(msg, p)[i] + j) # 0
                 /\ IsPointer(Byte(msg, Trail(msg, p)[i])) =>
                       \A j \in (i + 1)..EndOf(msg, p) : Trail(msg, p)[j] < p
<1> DEFINE t == Trail(msg, p)
           n == EndOf(msg, p)
<1>1. PICK m \in 0..Len(msg) : EndsAfter(msg, p, m)
  BY Zenon DEF WrittenName
<1>2. n = m
  BY <1>1, EndIs
<1>3. n \in 0..Len(msg) /\ n \in Nat /\ Len(msg) \in Nat
  BY <1>2
<1>4. Byte(msg, t[n]) = 0 /\ \A i \in 0..(n - 1) : Byte(msg, t[i]) # 0
  BY <1>1, <1>2 DEF EndsAfter
<1>5. \A i \in 0..(n - 1) :
          \/ IsPointer(Byte(msg, t[i]))
          \/ Byte(msg, t[i]) < 64 /\ \A j \in 1..Byte(msg, t[i]) : Byte(msg, t[i] + j) # 0
  BY Zenon DEF WrittenName
<1>6. \A i \in 0..(n - 1) : IsPointer(Byte(msg, t[i])) => \A j \in (i + 1)..n : t[j] < p
  BY Zenon DEF WrittenName
<1>7. t \in [0..Len(msg) -> Nat] /\ \A i \in 0..(Len(msg) - 1) : t[i + 1] = After(msg, t[i])
  BY TrailIs
<1> HIDE DEF t, n
<1>8. \A i \in 0..n : i \in 0..Len(msg)
  BY <1>3
<1>9. \A i \in 0..(n - 1) : i \in 0..(Len(msg) - 1) /\ i \in 0..n /\ i + 1 \in 0..n
  BY <1>3
<1>10. \A i \in 0..n : t[i] \in Nat
  BY <1>7, <1>8
<1>11. \A i \in 0..(n - 1) : t[i] < Len(msg)
  BY <1>4, <1>9, <1>10, Bytes1
<1> QED
  BY <1>3, <1>4, <1>5, <1>6, <1>7, <1>9, <1>10, <1>11 DEF t, n

\* A text of the first labels of the name at 12, and the bytes it comes from.
Copies(msg, text, z) ==
    /\ text \in Seq(Octets) /\ z \in Nat /\ z >= 13 /\ Len(text) = z - 13
    /\ \A j \in 1..Len(text) : text[j] = 46 \/ text[j] = Byte(msg, 12 + j)
    /\ \A r \in 12..(z - 1) : Byte(msg, r) # 0

LEMMA CopiesFirst ==
    ASSUME NEW msg \in Seq(Octets), Byte(msg, 12) # 0,
           \A j \in 1..Byte(msg, 12) : Byte(msg, 12 + j) # 0
    PROVE  Copies(msg, WithLabel(<<>>, 1, LabelAt(msg, 12)), 12 + 1 + Byte(msg, 12))
<1> DEFINE b == Byte(msg, 12)
           label == LabelAt(msg, 12)
<1>1. b \in Nat
  BY Bytes1
<1>2. label \in Seq(Octets) /\ Len(label) = b /\ \A i \in 1..b : label[i] = Byte(msg, 12 + i)
  BY LabelIs
<1>3. b # 0 /\ \A j \in 1..b : Byte(msg, 12 + j) # 0
  OBVIOUS
<1> HIDE DEF label
<1>4. WithLabel(<<>>, 1, label) = label
  <2>1. (<<>> \o <<>>) \o label = label
    BY <1>2
  <2> QED
    BY <2>1 DEF WithLabel
<1>5. \A r \in 12..((12 + 1 + b) - 1) : Byte(msg, r) # 0
  <2> SUFFICES ASSUME NEW r \in 12..((12 + 1 + b) - 1) PROVE Byte(msg, r) # 0
    OBVIOUS
  <2> HIDE DEF b
  <2>1. CASE r = 12
    BY <1>3, <2>1 DEF b
  <2>2. CASE r # 12
    <3>1. r - 12 \in 1..b /\ 12 + (r - 12) = r
      BY <1>1, <2>2
    <3> QED
      BY <1>3, <3>1
  <2> QED
    BY <2>1, <2>2
<1>6. 12 + 1 + b \in Nat /\ 12 + 1 + b >= 13 /\ b = (12 + 1 + b) - 13
  BY <1>1
<1> QED
  BY <1>2, <1>4, <1>5, <1>6 DEF Copies, label, b

LEMMA CopiesNext ==
    ASSUME NEW msg \in Seq(Octets), NEW text, NEW z, Copies(msg, text, z), NEW i \in Nat, i # 1,
           Byte(msg, z) # 0, \A j \in 1..Byte(msg, z) : Byte(msg, z + j) # 0
    PROVE  Copies(msg, WithLabel(text, i, LabelAt(msg, z)), z + 1 + Byte(msg, z))
<1> DEFINE b == Byte(msg, z)
           label == LabelAt(msg, z)
           dot == <<46>>
           longer == WithLabel(text, i, label)
           y == z + 1 + b
<1>0. /\ text \in Seq(Octets) /\ z \in Nat /\ z >= 13 /\ Len(text) = z - 13
      /\ \A j \in 1..Len(text) : text[j] = 46 \/ text[j] = Byte(msg, 12 + j)
      /\ \A r \in 12..(z - 1) : Byte(msg, r) # 0
  BY DEF Copies
<1>1. b \in Nat
  BY <1>0, Bytes1
<1>2. label \in Seq(Octets) /\ Len(label) = b /\ \A k \in 1..b : label[k] = Byte(msg, z + k)
  BY <1>0, LabelIs
<1>3. b # 0 /\ \A j \in 1..b : Byte(msg, z + j) # 0
  OBVIOUS
<1>4. dot \in Seq(Octets) /\ Len(dot) = 1 /\ dot[1] = 46
  BY DEF Octets
<1>5. longer = (text \o dot) \o label
  BY DEF WithLabel
<1> HIDE DEF b, label, dot, longer
<1> DEFINE Joined(w, s, u, v) ==
             /\ w \in Seq(Octets) /\ Len(w) = Len(s) + Len(u) + Len(v)
             /\ \A j \in 1..Len(s) : w[j] = s[j]
             /\ \A j \in 1..Len(u) : w[Len(s) + j] = u[j]
             /\ \A j \in 1..Len(v) : w[Len(s) + Len(u) + j] = v[j]
<1>6. \A s, u, v \in Seq(Octets) : Joined((s \o u) \o v, s, u, v)
  OBVIOUS
<1> HIDE DEF Joined
<1>7. /\ longer \in Seq(Octets) /\ Len(longer) = Len(text) + 1 + b
      /\ \A j \in 1..Len(text) : longer[j] = text[j]
      /\ \A j \in 1..Len(dot) : longer[Len(text) + j] = dot[j]
      /\ \A j \in 1..b : longer[Len(text) + 1 + j] = label[j]
  <2>1. text \in Seq(Octets) /\ dot \in Seq(Octets) /\ label \in Seq(Octets)
    BY <1>0, <1>2, <1>4
  <2>2. /\ longer \in Seq(Octets) /\ Len(longer) = Len(text) + Len(dot) + Len(label)
        /\ \A j \in 1..Len(text) : longer[j] = text[j]
        /\ \A j \in 1..Len(dot) : longer[Len(text) + j] = dot[j]
        /\ \A j \in 1..Len(label) : longer[Len(text) + Len(dot) + j] = label[j]
    <3>1. Joined(longer, text, dot, label)
      BY <1>5, <1>6, <2>1, Zenon
    <3> QED
      BY <3>1, Zenon DEF Joined
  <2> QED
    BY <1>2, <1>4, <2>2
<1>8. y \in Nat /\ y >= 13 /\ Len(longer) = y - 13
  BY <1>0, <1>1, <1>7
<1>9. \A j \in 1..Len(longer) : longer[j] = 46 \/ longer[j] = Byte(msg, 12 + j)
  <2> SUFFICES ASSUME NEW j \in 1..Len(longer) PROVE longer[j] = 46 \/ longer[j] = Byte(msg, 12 + j)
    OBVIOUS
  <2>1. j \in Nat /\ j >= 1 /\ j <= Len(text) + 1 + b /\ Len(text) \in Nat
    BY <1>0, <1>1, <1>7
  <2>2. CASE j <= Len(text)
    <3>1. j \in 1..Len(text)
      BY <2>1, <2>2
    <3> QED
      BY <1>0, <1>7, <3>1
  <2>3. CASE j = Len(text) + 1
    <3>1. 1 \in 1..Len(dot)
      BY <1>4
    <3> QED
      BY <1>4, <1>7, <2>3, <3>1
  <2>4. CASE j > Len(text) + 1
    <3>1. j - (Len(text) + 1) \in 1..b /\ Len(text) + 1 + (j - (Len(text) + 1)) = j
      BY <1>1, <2>1, <2>4
    <3>2. longer[j] = label[j - (Len(text) + 1)]
      BY <1>7, <3>1
    <3>3. z + (j - (Len(text) + 1)) = 12 + j
      BY <1>0, <2>1
    <3> QED
      BY <1>2, <3>1, <3>2, <3>3
  <2> QED
    BY <2>1, <2>2, <2>3, <2>4
<1>10. \A r \in 12..(y - 1) : Byte(msg, r) # 0
  <2> SUFFICES ASSUME NEW r \in 12..(y - 1) PROVE Byte(msg, r) # 0
    OBVIOUS
  <2>1. r \in Nat /\ r >= 12 /\ r <= z + b
    BY <1>0, <1>1
  <2>2. CASE r < z
    <3>1. r \in 12..(z - 1)
      BY <1>0, <2>1, <2>2
    <3> QED
      BY <1>0, <3>1
  <2>3. CASE r = z
    BY <1>3, <2>3 DEF b
  <2>4. CASE r > z
    <3>1. r - z \in 1..b /\ z + (r - z) = r
      BY <1>0, <1>1, <2>1, <2>4
    <3> QED
      BY <1>3, <3>1
  <2> QED
    BY <1>0, <2>1, <2>2, <2>3, <2>4
<1> HIDE DEF y
<1>11. Copies(msg, longer, y)
  BY <1>7, <1>8, <1>9, <1>10 DEF Copies
<1> QED
  BY <1>11 DEF y, b, longer, label

\* The question of a reply for a name, and where the answers start.
AskedIn(msg, name, z) ==
    /\ Copies(msg, Dotted(name), z) /\ Byte(msg, z) = 0
    /\ Word(msg, z + 1) = TypeA
    /\ AnswerAt(msg, 1) = z + 5 /\ z + 5 <= Len(msg)

LEMMA QuestionFacts ==
    ASSUME NEW msg \in Seq(Octets), NEW name, WrittenReply(msg, name), IsName(name)
    PROVE  \E z : AskedIn(msg, name, z)
<1> DEFINE t == Trail(msg, 12)
           n == EndOf(msg, 12)
           l == LabelsTo(msg, 12)
           text(i) == TextTo(msg, 12, i)
<1>1. WrittenName(msg, 12) /\ NameAt(msg, 12) = name
  BY DEF WrittenReply
<1>2. /\ n \in 0..Len(msg) /\ n \in Nat /\ Len(msg) \in Nat
      /\ \A i \in 0..n : t[i] \in Nat
      /\ Byte(msg, t[n]) = 0
      /\ \A i \in 0..(n - 1) :
            /\ i \in 0..(Len(msg) - 1) /\ Byte(msg, t[i]) # 0 /\ t[i + 1] = After(msg, t[i])
            /\ \/ IsPointer(Byte(msg, t[i]))
               \/ /\ Byte(msg, t[i]) < 64
                  /\ \A j \in 1..Byte(msg, t[i]) : Byte(msg, t[i] + j) # 0
  BY <1>1, WrittenFacts
<1>3. \A i \in 0..(n - 1) : ~IsPointer(Byte(msg, t[i]))
  BY Zenon DEF WrittenReply
<1>4. t[0] = 12
  BY TrailIs
<1>5. /\ l \in [0..Len(msg) -> Seq(Seq(Octets))] /\ l[0] = <<>>
      /\ \A i \in 0..(Len(msg) - 1) : l[i + 1] = Labelled(msg, 12, i, l[i])
  BY LabelsToIs, Zenon
<1>6. /\ text(0) = <<>>
      /\ \A i \in 0..(Len(msg) - 1) :
            text(i + 1) = IF IsPointer(Byte(msg, t[i])) THEN text(i)
                          ELSE WithLabel(text(i), Len(l[i]) + 1, LabelAt(msg, t[i]))
  BY TextStep
<1>7. name = l[n] /\ Dotted(name) = text(n)
  BY <1>1 DEF NameAt, TextTo
<1> HIDE DEF t, n, l, text
<1>8. n # 0
  BY <1>5, <1>7, NameFacts
<1>9. \A i \in 0..(n - 1) :
         /\ text(i + 1) = WithLabel(text(i), Len(l[i]) + 1, LabelAt(msg, t[i]))
         /\ t[i + 1] = t[i] + 1 + Byte(msg, t[i])
         /\ Byte(msg, t[i]) # 0 /\ \A j \in 1..Byte(msg, t[i]) : Byte(msg, t[i] + j) # 0
  BY <1>2, <1>3, <1>6 DEF After
<1> DEFINE P(i) == Copies(msg, text(i), t[i]) /\ Len(l[i]) = i
           S == {i \in Nat : i + 1 <= n => P(i + 1)}
<1>10. \A i \in 0..(n - 1) : Len(l[i]) = i => Len(l[i + 1]) = i + 1
  <2> SUFFICES ASSUME NEW i \in 0..(n - 1), Len(l[i]) = i PROVE Len(l[i + 1]) = i + 1
    OBVIOUS
  <2>1. l[i] \in Seq(Seq(Octets)) /\ t[i] \in Nat /\ l[i + 1] = Append(l[i], LabelAt(msg, t[i]))
    <3>1. i \in 0..(Len(msg) - 1) /\ i \in 0..Len(msg) /\ i \in 0..n
      BY <1>2
    <3> QED
      BY <1>2, <1>3, <1>5, <3>1 DEF Labelled, t
  <2>2. LabelAt(msg, t[i]) \in Seq(Octets)
    BY <2>1, LabelIs
  <2> QED
    BY <2>1, <2>2
<1>11. P(1)
  <2>1. 0 \in 0..(n - 1) /\ 0 + 1 = 1
    BY <1>2, <1>8
  <2>2. /\ text(1) = WithLabel(<<>>, Len(l[0]) + 1, LabelAt(msg, 12))
        /\ t[1] = 12 + 1 + Byte(msg, 12)
        /\ Byte(msg, 12) # 0 /\ \A j \in 1..Byte(msg, 12) : Byte(msg, 12 + j) # 0
    BY <1>4, <1>6, <1>9, <2>1
  <2>3. Len(l[0]) = 0 /\ Len(l[0]) + 1 = 1
    BY <1>5
  <2>4. Len(l[1]) = 1
    BY <1>10, <2>1, <2>3
  <2> QED
    BY <2>2, <2>3, <2>4, CopiesFirst
<1>12. ASSUME NEW i \in Nat, i \in S PROVE i + 1 \in S
  <2>1. CASE (i + 1) + 1 <= n
    <3>1. i + 1 \in 0..(n - 1) /\ i + 1 <= n /\ (i + 1) + 1 \in Nat /\ (i + 1) + 1 # 1
      BY <1>2, <2>1
    <3>2. P(i + 1)
      BY <1>12, <3>1
    <3>3. Copies(msg, text((i + 1) + 1), t[(i + 1) + 1])
      <4>1. /\ text((i + 1) + 1) = WithLabel(text(i + 1), (i + 1) + 1, LabelAt(msg, t[i + 1]))
            /\ t[(i + 1) + 1] = t[i + 1] + 1 + Byte(msg, t[i + 1])
            /\ Byte(msg, t[i + 1]) # 0
            /\ \A j \in 1..Byte(msg, t[i + 1]) : Byte(msg, t[i + 1] + j) # 0
        BY <1>9, <3>1, <3>2
      <4> QED
        BY <3>1, <3>2, <4>1, CopiesNext
    <3>4. Len(l[(i + 1) + 1]) = (i + 1) + 1
      BY <1>10, <3>1, <3>2
    <3> QED
      BY <3>3, <3>4
  <2> QED
    BY <2>1
<1>13. P(n)
  <2> HIDE DEF P
  <2>1. 0 \in S
    BY <1>11
  <2> HIDE DEF S
  <2>2. n - 1 \in Nat /\ (n - 1) + 1 = n
    BY <1>2, <1>8
  <2>3. n - 1 \in S
    BY <1>12, <2>1, <2>2, Induction
  <2> QED
    BY <1>2, <2>2, <2>3 DEF S
<1>14. AfterName(msg, 12) = t[n] + 1
  <2>1. Stop(msg, t[n]) /\ \A i \in 0..(n - 1) : ~Stop(msg, t[i])
    BY <1>2, <1>3 DEF Stop
  <2> QED
    BY <1>2, <2>1, StopIs DEF t, n
<1>15. t[n] \in Nat
  BY <1>2
<1>16. AnswerAt(msg, 1) = t[n] + 5
  BY <1>14, <1>15, AnswerAtIs
<1>17. Word(msg, t[n] + 1) = TypeA /\ t[n] + 5 <= Len(msg)
  BY <1>14, <1>16 DEF WrittenReply
<1> QED
  BY <1>2, <1>7, <1>13, <1>16, <1>17 DEF AskedIn

\* The byte after the name is found: the first zero from 12 on.
LEMMA ZeroIs ==
    ASSUME NEW z \in Nat, z >= 12, z <= 1023, B(z) = 0, \A r \in 12..(z - 1) : B(r) # 0
    PROVE  ZeroAfter(12) = z
<1> DEFINE Z == 12..1023
           First(q) == B(q) = 0 /\ \A r \in 12..(q - 1) : B(r) # 0
<1>1. z \in Z /\ \A q \in Z : q \in Nat /\ q >= 12
  OBVIOUS
<1> HIDE DEF Z
<1>2. First(z)
  OBVIOUS
<1>3. \A q \in Z : First(q) => q = z
  <2> SUFFICES ASSUME NEW q \in Z, First(q) PROVE q = z
    OBVIOUS
  <2>1. q \in Nat /\ q >= 12
    BY <1>1
  <2>2. CASE q < z
    <3>1. q \in 12..(z - 1)
      BY <2>1, <2>2
    <3> QED
      BY <3>1
  <2>3. CASE z < q
    <3>1. z \in 12..(q - 1)
      BY <2>1, <2>3
    <3> QED
      BY <3>1
  <2> QED
    BY <2>1, <2>2, <2>3
<1> HIDE DEF First
<1>4. (CHOOSE q \in Z : First(q)) = z
  BY <1>1, <1>2, <1>3
<1> QED
  BY <1>4 DEF ZeroAfter, First, Z

LEMMA QuestionTextIs ==
    ASSUME NEW name \in DOMAIN Zone, reply = Zone[name]
    PROVE  /\ Len(QuestionText(12)) = Len(Dotted(name)) /\ Len(Dotted(name)) \in Nat
           /\ DOMAIN Dotted(name) = 1..Len(Dotted(name))
           /\ \A i \in DOMAIN Dotted(name) :
                 Dotted(name)[i] >= 64 => QuestionText(12)[i] = Dotted(name)[i]
           /\ Word(reply, 12 + Len(QuestionText(12)) + 2) = TypeA
           /\ 12 + Len(QuestionText(12)) + 2 + 4 = AnswerAt(reply, 1)
<1> DEFINE text == Dotted(name)
<1>1. PICK z : AskedIn(reply, name, z)
  BY ZoneFacts, QuestionFacts
<1>2. /\ text \in Seq(Octets) /\ z \in Nat /\ z >= 13 /\ Len(text) = z - 13
      /\ \A j \in 1..Len(text) : text[j] = 46 \/ text[j] = Byte(reply, 12 + j)
      /\ \A r \in 12..(z - 1) : Byte(reply, r) # 0
      /\ Byte(reply, z) = 0 /\ Word(reply, z + 1) = TypeA
      /\ AnswerAt(reply, 1) = z + 5 /\ z + 5 <= Len(reply)
  BY <1>1 DEF AskedIn, Copies
<1> HIDE DEF text
<1>3. Len(reply) \in Nat /\ Len(reply) <= 1023
  <2>1. /\ reply \in Seq(Octets) /\ Len(reply) + 11 * Word(reply, 6) + 16 <= 1023
    BY ZoneFacts, ZoneAssumption
  <2>2. Word(reply, 6) \in Nat
    BY <2>1, Words
  <2> QED
    BY <2>1, <2>2
<1>4. ZeroAfter(12) = z
  <2>1. z >= 12 /\ z <= 1023
    BY <1>2, <1>3
  <2> QED
    BY <1>2, <2>1, ZeroIs DEF B
<1>5. QuestionText(12) = [i \in 1..(z - 12 - 1) |-> OrDot(B(12 + i))]
  BY <1>4 DEF QuestionText
<1>6. z - 12 - 1 = z - 13 /\ z - 13 \in Nat
  BY <1>2
<1>7. Len(QuestionText(12)) = z - 13 /\ \A i \in 1..(z - 13) : QuestionText(12)[i] = OrDot(B(12 + i))
  BY <1>5, <1>6
<1>8. DOMAIN text = 1..(z - 13)
  BY <1>2
<1>9. \A i \in DOMAIN text : text[i] >= 64 => QuestionText(12)[i] = text[i]
  <2> SUFFICES ASSUME NEW i \in 1..(z - 13), text[i] >= 64 PROVE QuestionText(12)[i] = text[i]
    BY <1>8
  <2>1. text[i] = Byte(reply, 12 + i)
    BY <1>2
  <2>2. Byte(reply, 12 + i) \in Nat
    <3>1. reply \in Seq(Octets) /\ 12 + i \in Nat
      BY ZoneFacts, <1>2
    <3> QED
      BY <3>1, Bytes1
  <2> QED
    BY <1>7, <2>1, <2>2 DEF OrDot, B
<1>10. 12 + Len(QuestionText(12)) + 2 = z + 1 /\ (z + 1) + 4 = z + 5
  BY <1>2, <1>7
<1> QED
  BY <1>2, <1>6, <1>7, <1>8, <1>9, <1>10 DEF text

QInv == /\ left \in [questions : 0..1, answers : 0..MaxWord]
        /\ DOMAIN shown = {"question", "answers"}
        /\ step = "wait" => shown.question = NoRecord /\ shown.answers = <<>>
        /\ step = "question" /\ left.questions > 0 => pos = 12
        /\ QuestionIsTheReplys

LEMMA ReplyIs ==
    ASSUME NInv, reply # <<>>
    PROVE  \E name \in DOMAIN Zone : reply = Zone[name] /\ NameAt(reply, 12) = name
  BY ZoneFacts DEF NInv

LEMMA ReceivedIs ==
    ASSUME NInv, Receive
    PROVE  \E name \in DOMAIN Zone : reply' = Zone[name] /\ left' = Counts(Zone[name])
<1>1. PICK d \in network : d.to = "client" /\ reply' = d.msg /\ left' = Counts(d.msg)
  BY DEF Receive
<1>2. PICK m \in DOMAIN Zone : d \in {Asked(m), Replied(m)}
  BY DEF NInv
<1>3. d.msg = Zone[m]
  BY <1>1, <1>2, MessagesDiffer
<1> QED
  BY <1>1, <1>3

LEMMA QStep ==
    ASSUME NInv, QInv, [DNSNext]_dnsVars
    PROVE  QInv'
<1>1. ASSUME NEW name \in DOMAIN Zone, Send(name) PROVE QInv'
  BY <1>1 DEF Send, QInv, QuestionIsTheReplys
<1>2. CASE UNCHANGED <<step, left, shown, pos, reply>>
  BY <1>2 DEF QInv, QuestionIsTheReplys
<1>3. CASE Interrupt
  BY <1>3 DEF Interrupt, End, QInv, QuestionIsTheReplys
<1>4. CASE Receive
  <2>1. PICK m \in DOMAIN Zone : left' = Counts(Zone[m])
    BY <1>4, ReceivedIs
  <2>2. left' \in [questions : 0..1, answers : 0..MaxWord]
    <3>1. Word(Zone[m], 4) = 1
      BY ZoneFacts DEF WrittenReply
    <3>2. Word(Zone[m], 6) \in Nat /\ Word(Zone[m], 6) <= MaxWord /\ MaxWord \in Nat
      <4>1. 6 \in Nat /\ MaxWord \in Nat
        BY DEF MaxWord
      <4>2. Zone[m] \in Seq(Octets)
        BY ZoneFacts, Zenon
      <4> QED
        BY <4>1, <4>2, Words, Zenon
    <3>3. Word(Zone[m], 6) \in 0..MaxWord
      BY <3>2
    <3>4. Word(Zone[m], 4) \in 0..1
      BY <3>1
    <3> QED
      BY <2>1, <3>3, <3>4 DEF Counts
  <2>3. step = "wait" /\ step' = "question" /\ pos' = 12 /\ shown' = shown
    BY <1>4 DEF Receive
  <2> QED
    BY <2>2, <2>3 DEF QInv, QuestionIsTheReplys
<1>5. CASE Question
  <2>1. /\ step = "question" /\ step' = "question" /\ reply' = reply /\ left.questions > 0
        /\ left' = [left EXCEPT !.questions = @ - 1]
    BY <1>5 DEF Question, outside
  <2>2. pos = 12 /\ left.questions \in 0..1
    BY <2>1 DEF QInv
  <2>3. shown' = [shown EXCEPT !.question = [NoRecord EXCEPT !.name = QuestionText(12),
                                               !.type = Word(reply, 12 + Len(QuestionText(12)) + 2)]]
    BY <1>5, <2>2 DEF Question
  <2>4. PICK name \in DOMAIN Zone : reply = Zone[name] /\ NameAt(reply, 12) = name
    <3>1. reply # <<>>
      BY <2>1 DEF NInv, Decoding
    <3> QED
      BY <3>1, ReplyIs
  <2>5. /\ shown'.question.name = QuestionText(12)
        /\ shown'.question.type = Word(reply, 12 + Len(QuestionText(12)) + 2)
        /\ DOMAIN shown' = {"question", "answers"}
    BY <2>3 DEF QInv, NoRecord
  <2>6. QuestionIsTheReplys'
    BY <2>1, <2>4, <2>5, QuestionTextIs DEF QuestionIsTheReplys
  <2>7. left' \in [questions : 0..1, answers : 0..MaxWord] /\ left'.questions = 0
    <3>1. left.questions = 1 /\ left.questions - 1 = 0
      BY <2>1, <2>2
    <3> QED
      BY <2>1, <3>1 DEF QInv
  <2> QED
    BY <2>1, <2>5, <2>6, <2>7 DEF QInv
<1>6. CASE NextAnswer
  <2>1. /\ step' = "mask" /\ UNCHANGED <<shown, reply>> /\ left.answers > 0
        /\ left' = [left EXCEPT !.answers = @ - 1]
    BY <1>6 DEF NextAnswer, AtDomain, outside
  <2>2. left' \in [questions : 0..1, answers : 0..MaxWord]
    <3>0. MaxWord \in Nat
      BY DEF MaxWord
    <3>1. left.answers \in 0..MaxWord
      BY DEF QInv
    <3>2. left.answers - 1 \in 0..MaxWord
      BY <2>1, <3>0, <3>1
    <3> QED
      BY <2>1, <3>2 DEF QInv
  <2> QED
    BY <2>1, <2>2 DEF QInv, QuestionIsTheReplys
<1>7. CASE Show
  <2>1. /\ step' = "answer" /\ UNCHANGED <<left, reply>>
        /\ shown' = [shown EXCEPT !.answers = Append(@, record)]
    BY <1>7 DEF Show, outside
  <2>2. shown'.question = shown.question /\ DOMAIN shown' = {"question", "answers"}
    BY <2>1 DEF QInv
  <2> QED
    BY <2>1, <2>2 DEF QInv, QuestionIsTheReplys
<1>8. CASE step' \notin {"wait", "question"} /\ UNCHANGED <<left, shown, reply>>
  BY <1>8 DEF QInv, QuestionIsTheReplys
<1>9. CASE Decode
  <2>1. CASE QuestionsDone
    BY <1>8, <2>1 DEF QuestionsDone, outside
  <2>2. CASE Finish
    BY <1>8, <2>2 DEF Finish, End
  <2>3. CASE SkipMasked
    BY <1>8, <2>3 DEF SkipMasked, outside
  <2>4. CASE FirstLabel
    BY <1>8, <2>4 DEF FirstLabel, outside
  <2>5. CASE CopyOctet \/ FollowPointer \/ NextLabel
    BY <1>8, <2>5 DEF CopyOctet, FollowPointer, NextLabel, Octet, outside
  <2>6. CASE DomainDone
    BY <1>8, <2>6 DEF DomainDone, outside
  <2>7. CASE Fields
    BY <1>8, <2>7 DEF Fields, AtDomain, outside
  <2> QED
    BY <1>5, <1>6, <1>7, <1>9, <2>1, <2>2, <2>3, <2>4, <2>5, <2>6, <2>7 DEF Decode
<1>10. CASE Serving
  BY <1>2, <1>10 DEF Serving, Serve
<1>11. CASE \E d \in network : Lose(d)
  BY <1>2, <1>11 DEF Lose
<1>12. CASE UNCHANGED dnsVars
  BY <1>2, <1>12 DEF dnsVars
<1> QED
  BY <1>1, <1>3, <1>4, <1>9, <1>10, <1>11, <1>12 DEF DNSNext

LEMMA QInit ==
    ASSUME DNSInit
    PROVE  QInv
  BY DEF DNSInit, QInv, QuestionIsTheReplys, MaxWord

\* The question shown is the reply's, in every reply that is well written.
THEOREM QuestionsAreTheReplys ==
    DNSSpec => []QuestionIsTheReplys
<1>1. DNSInit => NInv /\ QInv
  BY NInit, QInit
<1>2. (NInv /\ QInv) /\ [DNSNext]_dnsVars => (NInv /\ QInv)'
  BY NStep, QStep
<1>3. QInv => QuestionIsTheReplys
  BY DEF QInv
<1> QED
  BY <1>1, <1>2, <1>3, PTL DEF DNSSpec

-----------------------------------------------------------------------------
(* A name that can be read.                                                *)

LEMMA Masks ==
    ASSUME NEW b \in Nat, b <= 255
    PROVE  /\ b >= 192 => Masked(b)
           /\ b < 64 /\ (b \div 16) % 2 = 0 => ~Masked(b)
<1>1. b >= 192 => b \div 64 = 3
  OBVIOUS
<1>2. b < 64 => b \div 64 = 0
  OBVIOUS
<1> QED
  BY <1>1, <1>2 DEF Masked

LEMMA NearOffset ==
    ASSUME NEW msg \in Seq(Octets), NEW q \in Nat, IsPointer(Byte(msg, q)), Offset(msg, q) < 256
    PROVE  Offset(msg, q) = Byte(msg, q + 1)
<1>1. Byte(msg, q) \in Nat /\ Byte(msg, q) <= 255
  BY Bytes1
<1>2. Byte(msg, q) >= 192
  BY Zenon DEF IsPointer
<1>3. Byte(msg, q + 1) \in Nat /\ Byte(msg, q + 1) <= 255
  <2>1. q + 1 \in Nat
    OBVIOUS
  <2> QED
    BY <2>1, Bytes1
<1>4. Word(msg, q) - 49152 < 256
  BY DEF Offset
<1> QED
  BY <1>1, <1>2, <1>3, <1>4 DEF Offset, Word

Readable(msg, p) == WrittenName(msg, p) /\ PlainName(msg, p)

\* The i-th position of the trail has a pointer, or a label.
PointerAt(msg, p, i) ==
    LET t == Trail(msg, p)
    IN  /\ IsPointer(Byte(msg, t[i])) /\ Masked(Byte(msg, t[i])) /\ Byte(msg, t[i]) >= 128
        /\ t[i + 1] = Byte(msg, t[i] + 1)
        /\ TextTo(msg, p, i + 1) = TextTo(msg, p, i)
        /\ LabelsTo(msg, p)[i + 1] = LabelsTo(msg, p)[i]
        /\ \A j \in (i + 1)..EndOf(msg, p) : t[j] < p

LabelIsAt(msg, p, i) ==
    LET t == Trail(msg, p)
    IN  /\ ~IsPointer(Byte(msg, t[i])) /\ Byte(msg, t[i]) < 128
        /\ t[i + 1] = t[i] + 1 + Byte(msg, t[i])
        /\ TextTo(msg, p, i + 1) = WithLabel(TextTo(msg, p, i), Len(LabelsTo(msg, p)[i]) + 1,
                                              LabelAt(msg, t[i]))
        /\ Len(LabelsTo(msg, p)[i + 1]) = Len(LabelsTo(msg, p)[i]) + 1
        /\ \A j \in 1..Byte(msg, t[i]) : Byte(msg, t[i] + j) # 0
        /\ (\A j \in 0..(i - 1) : IsPointer(Byte(msg, Trail(msg, p)[j]))) => ~Masked(Byte(msg, t[i]))

LEMMA ReadableFacts ==
    ASSUME NEW msg \in Seq(Octets), NEW p \in Nat, Readable(msg, p)
    PROVE  /\ EndOf(msg, p) \in Nat /\ Trail(msg, p)[0] = p
           /\ \A i \in 0..EndOf(msg, p) :
                 /\ Trail(msg, p)[i] \in Nat /\ TextTo(msg, p, i) \in Seq(Octets)
                 /\ Len(LabelsTo(msg, p)[i]) \in Nat
           /\ Byte(msg, Trail(msg, p)[EndOf(msg, p)]) = 0
           /\ LabelsTo(msg, p)[0] = <<>> /\ TextTo(msg, p, 0) = <<>>
           /\ \E i \in 0..(EndOf(msg, p) - 1) : ~IsPointer(Byte(msg, Trail(msg, p)[i]))
           /\ \A i \in 0..(EndOf(msg, p) - 1) :
                 /\ Byte(msg, Trail(msg, p)[i]) # 0
                 /\ PointerAt(msg, p, i) \/ LabelIsAt(msg, p, i)
<1> DEFINE t == Trail(msg, p)
           n == EndOf(msg, p)
           l == LabelsTo(msg, p)
           text(i) == TextTo(msg, p, i)
<1>0. WrittenName(msg, p) /\ PlainName(msg, p)
  BY DEF Readable
<1>1. /\ n \in 0..Len(msg) /\ n \in Nat /\ Len(msg) \in Nat
      /\ \A i \in 0..n : t[i] \in Nat
      /\ Byte(msg, t[n]) = 0
      /\ \A i \in 0..(n - 1) :
            /\ i \in 0..(Len(msg) - 1) /\ i \in 0..n
            /\ Byte(msg, t[i]) # 0 /\ t[i + 1] = After(msg, t[i])
            /\ \/ IsPointer(Byte(msg, t[i]))
               \/ /\ Byte(msg, t[i]) < 64
                  /\ \A j \in 1..Byte(msg, t[i]) : Byte(msg, t[i] + j) # 0
            /\ IsPointer(Byte(msg, t[i])) => \A j \in (i + 1)..n : t[j] < p
  BY <1>0, WrittenFacts
<1>2. /\ \E i \in 0..(n - 1) : ~IsPointer(Byte(msg, t[i]))
      /\ \A i \in 0..(n - 1) : IsPointer(Byte(msg, t[i])) => Offset(msg, t[i]) < 256
      /\ \A i \in 0..(n - 1) :
            ~IsPointer(Byte(msg, t[i])) /\ (\A j \in 0..(i - 1) : IsPointer(Byte(msg, t[j])))
               => (Byte(msg, t[i]) \div 16) % 2 = 0
  BY <1>0, Zenon DEF PlainName
<1>3. t[0] = p
  BY TrailIs
<1>4. /\ l \in [0..Len(msg) -> Seq(Seq(Octets))] /\ l[0] = <<>>
      /\ \A i \in 0..(Len(msg) - 1) : l[i + 1] = Labelled(msg, p, i, l[i])
  BY LabelsToIs, Zenon
<1>5. /\ text(0) = <<>>
      /\ \A i \in 0..Len(msg) : text(i) \in Seq(Octets)
      /\ \A i \in 0..(Len(msg) - 1) :
            text(i + 1) = IF IsPointer(Byte(msg, t[i])) THEN text(i)
                          ELSE WithLabel(text(i), Len(l[i]) + 1, LabelAt(msg, t[i]))
  BY TextStep
<1> HIDE DEF t, n, l, text
<1>6. \A i \in 0..n : i \in 0..Len(msg) /\ l[i] \in Seq(Seq(Octets)) /\ Len(l[i]) \in Nat
  <2>1. \A i \in 0..n : i \in 0..Len(msg)
    BY <1>1
  <2>2. \A i \in 0..n : l[i] \in Seq(Seq(Octets))
    BY <1>4, <2>1
  <2> QED
    BY <2>1, <2>2
<1>7. ASSUME NEW i \in 0..(n - 1), IsPointer(Byte(msg, t[i])) PROVE PointerAt(msg, p, i)
  <2>1. t[i] \in Nat /\ Byte(msg, t[i]) \in Nat /\ Byte(msg, t[i]) <= 255
    BY <1>1, Bytes1
  <2>2. Masked(Byte(msg, t[i])) /\ Byte(msg, t[i]) >= 128
    BY <1>7, <2>1, Masks DEF IsPointer
  <2>3. t[i + 1] = Offset(msg, t[i]) /\ Offset(msg, t[i]) = Byte(msg, t[i] + 1)
    BY <1>1, <1>2, <1>7, <2>1, NearOffset DEF After
  <2>4. text(i + 1) = text(i)
    BY <1>1, <1>5, <1>7
  <2>5. l[i + 1] = l[i]
    BY <1>1, <1>4, <1>7 DEF Labelled, t
  <2>6. \A j \in (i + 1)..n : t[j] < p
    BY <1>1, <1>7
  <2> QED
    BY <1>7, <2>2, <2>3, <2>4, <2>5, <2>6 DEF PointerAt, t, n, l, text
<1>8. ASSUME NEW i \in 0..(n - 1), ~IsPointer(Byte(msg, t[i])) PROVE LabelIsAt(msg, p, i)
  <2>1. t[i] \in Nat /\ Byte(msg, t[i]) \in Nat /\ Byte(msg, t[i]) <= 255
    BY <1>1, Bytes1
  <2>2. Byte(msg, t[i]) < 64 /\ \A j \in 1..Byte(msg, t[i]) : Byte(msg, t[i] + j) # 0
    BY <1>1, <1>8
  <2>3. Byte(msg, t[i]) < 128
    BY <2>1, <2>2
  <2>4. t[i + 1] = t[i] + 1 + Byte(msg, t[i])
    BY <1>1, <1>8 DEF After
  <2>5. text(i + 1) = WithLabel(text(i), Len(l[i]) + 1, LabelAt(msg, t[i]))
    BY <1>1, <1>5, <1>8
  <2>6. Len(l[i + 1]) = Len(l[i]) + 1
    <3>1. l[i + 1] = Append(l[i], LabelAt(msg, t[i]))
      BY <1>1, <1>4, <1>8 DEF Labelled, t
    <3>2. LabelAt(msg, t[i]) \in Seq(Octets)
      BY <2>1, LabelIs
    <3>3. l[i] \in Seq(Seq(Octets))
      BY <1>1, <1>6
    <3> QED
      BY <3>1, <3>2, <3>3
  <2>7. (\A j \in 0..(i - 1) : IsPointer(Byte(msg, t[j]))) => ~Masked(Byte(msg, t[i]))
    BY <1>2, <1>8, <2>1, <2>2, Masks
  <2> QED
    BY <1>8, <2>2, <2>3, <2>4, <2>5, <2>6, <2>7 DEF LabelIsAt, t, l, text
<1>9. \A i \in 0..n : t[i] \in Nat /\ text(i) \in Seq(Octets) /\ Len(l[i]) \in Nat
  BY <1>1, <1>5, <1>6
<1>10. \A i \in 0..(n - 1) : Byte(msg, t[i]) # 0 /\ (PointerAt(msg, p, i) \/ LabelIsAt(msg, p, i))
  BY <1>1, <1>7, <1>8
<1> QED
  BY <1>1, <1>2, <1>3, <1>4, <1>5, <1>9, <1>10 DEF t, n, l, text

-----------------------------------------------------------------------------
(* decodeDomain reads a name.                                              *)

DecType == [at : Nat, maxPos : Nat, octets : Nat, text : Seq(Octets)]

\* In the first loop, i pointers read; in the second, i positions, the last label's text
\* but for some octets.
InMask(msg, p, d, i) ==
    /\ d.at = Trail(msg, p)[i] /\ i \in 0..(EndOf(msg, p) - 1)
    /\ d.text = <<>> /\ TextTo(msg, p, i) = <<>> /\ Len(LabelsTo(msg, p)[i]) = 0
    /\ \A j \in 0..(i - 1) : IsPointer(Byte(msg, Trail(msg, p)[j]))
    /\ \/ i = 0 /\ d.maxPos = p
       \/ /\ i # 0 /\ d.maxPos = p + 1 /\ AfterName(msg, p) = p + 2
          /\ \A j \in i..EndOf(msg, p) : Trail(msg, p)[j] < p

\* Either no pointer was read yet, or the position after the name is known.
Near(msg, p, d, i) ==
    /\ \A j \in 0..(i - 1) : ~IsPointer(Byte(msg, Trail(msg, p)[j]))
    /\ p <= d.at /\ (d.maxPos = d.at \/ (d.octets # 0 /\ d.maxPos + 1 = d.at))

Far(msg, p, d, i) ==
    /\ AfterName(msg, p) = d.maxPos + 1 /\ p <= d.maxPos
    /\ \A j \in i..EndOf(msg, p) : Trail(msg, p)[j] < p

CopiedTo(msg, p, d, i) ==
    /\ Len(d.text) + d.octets = Len(TextTo(msg, p, i))
    /\ \A j \in 1..Len(d.text) : d.text[j] = TextTo(msg, p, i)[j]
    /\ \A j \in 1..d.octets : TextTo(msg, p, i)[Len(d.text) + j] = Byte(msg, d.at + j - 1)

InOctets(msg, p, d, i) ==
    /\ i \in 0..EndOf(msg, p)
    /\ d.at + d.octets = Trail(msg, p)[i]
    /\ Len(LabelsTo(msg, p)[i]) # 0
    /\ CopiedTo(msg, p, d, i)
    /\ \A j \in 1..d.octets : Byte(msg, d.at + j - 1) # 0
    /\ Near(msg, p, d, i) \/ Far(msg, p, d, i)

\* A pointer ends the part of the name that is in place.
LEMMA PlaceIs ==
    ASSUME NEW msg \in Seq(Octets), NEW p \in Nat, Readable(msg, p), NEW i \in 0..EndOf(msg, p),
           \A j \in 0..(i - 1) : ~IsPointer(Byte(msg, Trail(msg, p)[j]))
    PROVE  /\ i = EndOf(msg, p) => AfterName(msg, p) = Trail(msg, p)[i] + 1
           /\ i # EndOf(msg, p) /\ IsPointer(Byte(msg, Trail(msg, p)[i]))
                 => AfterName(msg, p) = Trail(msg, p)[i] + 2
<1> DEFINE t == Trail(msg, p)
           n == EndOf(msg, p)
<1>1. /\ n \in 0..Len(msg) /\ n \in Nat /\ Len(msg) \in Nat /\ Byte(msg, t[n]) = 0
      /\ \A j \in 0..(n - 1) : Byte(msg, t[j]) # 0
  BY WrittenFacts DEF Readable
<1> HIDE DEF t, n
<1>2. i \in 0..Len(msg)
  BY <1>1 DEF n
<1>3. \A j \in 0..(i - 1) : j \in 0..(n - 1)
  BY <1>1 DEF n
<1>4. \A j \in 0..(i - 1) : ~Stop(msg, t[j])
  BY <1>1, <1>3 DEF Stop, t
<1>5. Stop(msg, t[i]) => AfterName(msg, p) = IF Byte(msg, t[i]) = 0 THEN t[i] + 1 ELSE t[i] + 2
  BY <1>2, <1>4, StopIs DEF t
<1>6. i # n => i \in 0..(n - 1)
  BY <1>1 DEF n
<1>7. i = n => AfterName(msg, p) = t[i] + 1
  BY <1>1, <1>5 DEF Stop
<1>8. i # n /\ IsPointer(Byte(msg, t[i])) => AfterName(msg, p) = t[i] + 2
  BY <1>1, <1>5, <1>6 DEF Stop
<1> QED
  BY <1>7, <1>8 DEF t, n

LEMMA ReadMasked ==
    ASSUME reply \in Seq(Octets), NEW p \in Nat, Readable(reply, p), dec \in DecType,
           NEW i, InMask(reply, p, dec, i), SkipMasked
    PROVE  InMask(reply, p, dec', i + 1)
<1> DEFINE t == Trail(reply, p)
           n == EndOf(reply, p)
           l == LabelsTo(reply, p)
           text(k) == TextTo(reply, p, k)
<1>1. /\ dec.at = t[i] /\ i \in 0..(n - 1) /\ dec.text = <<>> /\ text(i) = <<>> /\ Len(l[i]) = 0
      /\ \A j \in 0..(i - 1) : IsPointer(Byte(reply, t[j]))
      /\ \/ i = 0 /\ dec.maxPos = p
         \/ /\ i # 0 /\ dec.maxPos = p + 1 /\ AfterName(reply, p) = p + 2
            /\ \A j \in i..n : t[j] < p
  BY DEF InMask
<1>2. Masked(Byte(reply, dec.at)) /\ dec' = Moved(Byte(reply, dec.at + 1), dec.at + 1)
  BY DEF SkipMasked, B
<1>3. /\ n \in Nat /\ t[0] = p /\ \A j \in 0..n : t[j] \in Nat
      /\ \E j \in 0..(n - 1) : ~IsPointer(Byte(reply, t[j]))
      /\ PointerAt(reply, p, i) \/ LabelIsAt(reply, p, i)
  BY <1>1, ReadableFacts, Zenon
<1>4. PointerAt(reply, p, i)
  BY <1>1, <1>2, <1>3 DEF LabelIsAt
<1>5. /\ IsPointer(Byte(reply, t[i])) /\ t[i + 1] = Byte(reply, t[i] + 1)
      /\ text(i + 1) = text(i) /\ l[i + 1] = l[i]
      /\ \A j \in (i + 1)..n : t[j] < p
  BY <1>4, Zenon DEF PointerAt
<1>6. /\ dec'.at = t[i + 1] /\ dec'.text = <<>>
      /\ dec'.maxPos = MaxOf(dec.maxPos, t[i] + 1)
  BY <1>1, <1>2, <1>5 DEF Moved, DecType
<1> HIDE DEF t, n, l, text
<1>7. \A j \in 0..i : IsPointer(Byte(reply, t[j]))
  <2>1. \A j \in 0..i : j = i \/ j \in 0..(i - 1)
    BY <1>1, <1>3
  <2> QED
    BY <1>1, <1>5, <2>1
<1>8. i + 1 \in 0..(n - 1)
  <2>1. PICK j \in 0..(n - 1) : ~IsPointer(Byte(reply, t[j]))
    BY <1>3
  <2>2. j \notin 0..i
    BY <1>7, <2>1
  <2> QED
    BY <1>1, <1>3, <2>2
<1>9. i \in 0..n /\ t[i] \in Nat /\ i \in i..n /\ i \in Nat
  BY <1>1, <1>3
<1>10. dec'.maxPos = p + 1
  BY <1>1, <1>3, <1>6, <1>9 DEF MaxOf
<1>11. AfterName(reply, p) = p + 2
  <2>1. CASE i = 0
    <3>1. i # n /\ \A j \in 0..(i - 1) : ~IsPointer(Byte(reply, t[j]))
      BY <1>3, <1>8, <2>1
    <3>2. AfterName(reply, p) = t[i] + 2
      BY <1>5, <1>9, <3>1, PlaceIs DEF t, n
    <3> QED
      BY <1>3, <2>1, <3>2
  <2> QED
    BY <1>1, <2>1
<1> QED
  BY <1>1, <1>5, <1>6, <1>7, <1>8, <1>9, <1>10, <1>11 DEF InMask, t, n, l, text

LEMMA ReadFirst ==
    ASSUME reply \in Seq(Octets), NEW p \in Nat, Readable(reply, p), dec \in DecType,
           NEW i, InMask(reply, p, dec, i), FirstLabel
    PROVE  InOctets(reply, p, dec', i + 1)
<1> DEFINE t == Trail(reply, p)
           n == EndOf(reply, p)
           l == LabelsTo(reply, p)
           text(k) == TextTo(reply, p, k)
           b == Byte(reply, t[i])
<1>1. /\ dec.at = t[i] /\ i \in 0..(n - 1) /\ dec.text = <<>> /\ text(i) = <<>> /\ Len(l[i]) = 0
      /\ \/ i = 0 /\ dec.maxPos = p
         \/ /\ i # 0 /\ dec.maxPos = p + 1 /\ AfterName(reply, p) = p + 2
            /\ \A j \in i..n : t[j] < p
  BY DEF InMask
<1>2. ~Masked(b) /\ dec' = [dec EXCEPT !.octets = b, !.at = @ + 1]
  BY <1>1 DEF FirstLabel, B
<1>3. /\ n \in Nat /\ t[0] = p /\ \A j \in 0..n : t[j] \in Nat
      /\ b # 0 /\ (PointerAt(reply, p, i) \/ LabelIsAt(reply, p, i))
  <2>1. /\ n \in Nat /\ t[0] = p /\ \A j \in 0..n : t[j] \in Nat
        /\ \A j \in 0..(n - 1) : /\ Byte(reply, t[j]) # 0
                                 /\ PointerAt(reply, p, j) \/ LabelIsAt(reply, p, j)
    BY ReadableFacts, Zenon
  <2> QED
    BY <1>1, <2>1, Zenon
<1>4. LabelIsAt(reply, p, i)
  BY <1>2, <1>3 DEF PointerAt
<1>5. /\ ~IsPointer(b) /\ t[i + 1] = t[i] + 1 + b
      /\ text(i + 1) = WithLabel(text(i), Len(l[i]) + 1, LabelAt(reply, t[i]))
      /\ Len(l[i + 1]) = Len(l[i]) + 1
      /\ \A j \in 1..b : Byte(reply, t[i] + j) # 0
  BY <1>4, Zenon DEF LabelIsAt
<1>6. /\ dec'.at = t[i] + 1 /\ dec'.text = <<>> /\ dec'.octets = b /\ dec'.maxPos = dec.maxPos
  BY <1>1, <1>2 DEF DecType
<1>7. i \in 0..n /\ i + 1 \in 0..n /\ t[i] \in Nat /\ i \in Nat
  BY <1>1, <1>3
<1>8. b \in Nat
  BY <1>7, Bytes1
<1>9. /\ LabelAt(reply, t[i]) \in Seq(Octets) /\ Len(LabelAt(reply, t[i])) = b
      /\ \A j \in 1..b : LabelAt(reply, t[i])[j] = Byte(reply, t[i] + j)
  BY <1>7, LabelIs
<1> HIDE DEF t, n, l, text, b
<1>10. text(i + 1) = LabelAt(reply, t[i])
  <2>1. \A s \in Seq(Octets) : WithLabel(<<>>, 1, s) = s
    <3>1. \A s \in Seq(Octets) : (<<>> \o <<>>) \o s = s
      OBVIOUS
    <3> QED
      BY <3>1 DEF WithLabel
  <2>2. Len(l[i]) + 1 = 1
    BY <1>1
  <2> QED
    BY <1>1, <1>5, <1>9, <2>1, <2>2
<1>11. CopiedTo(reply, p, dec', i + 1)
  <2>1. Len(dec'.text) = 0
    BY <1>6
  <2>2. \A j \in 1..b : (t[i] + 1) + j - 1 = t[i] + j /\ 0 + j = j
    BY <1>7, <1>8
  <2>3. Len(text(i + 1)) = b /\ Len(dec'.text) + dec'.octets = b
    BY <1>6, <1>8, <1>9, <1>10, <2>1
  <2>4. \A j \in 1..b : text(i + 1)[j] = Byte(reply, (t[i] + 1) + j - 1)
    BY <1>9, <1>10, <2>2
  <2> QED
    BY <1>6, <2>1, <2>2, <2>3, <2>4 DEF CopiedTo, text
<1>12. \A j \in 1..b : Byte(reply, (t[i] + 1) + j - 1) # 0
  <2>1. \A j \in 1..b : (t[i] + 1) + j - 1 = t[i] + j
    BY <1>7, <1>8
  <2> QED
    BY <1>5, <2>1
<1>13. Near(reply, p, dec', i + 1) \/ Far(reply, p, dec', i + 1)
  <2>1. CASE i = 0
    <3>1. \A j \in 0..((i + 1) - 1) : j = i
      BY <2>1
    <3>2. \A j \in 0..((i + 1) - 1) : ~IsPointer(Byte(reply, t[j]))
      BY <1>5, <3>1 DEF b
    <3>3. dec.maxPos = p /\ t[i] = p
      BY <1>1, <1>3, <2>1
    <3>4. dec'.maxPos + 1 = dec'.at /\ dec'.octets # 0 /\ p <= dec'.at
      BY <1>3, <1>6, <3>3
    <3> QED
      BY <3>2, <3>4 DEF Near, t
  <2>2. CASE i # 0
    <3>1. \A j \in (i + 1)..n : j \in i..n
      BY <1>1, <1>3, <1>7
    <3> QED
      BY <1>1, <1>6, <2>2, <3>1 DEF Far, t, n
  <2> QED
    BY <2>1, <2>2
<1>14. Len(l[i + 1]) # 0 /\ dec'.at + dec'.octets = t[i + 1]
  BY <1>1, <1>5, <1>6
<1> QED
  BY <1>6, <1>7, <1>11, <1>12, <1>13, <1>14 DEF InOctets, t, n, l

LEMMA ReadCopied ==
    ASSUME reply \in Seq(Octets), NEW p \in Nat, Readable(reply, p), dec \in DecType,
           NEW i, InOctets(reply, p, dec, i), CopyOctet
    PROVE  InOctets(reply, p, dec', i)
<1> DEFINE t == Trail(reply, p)
           n == EndOf(reply, p)
           l == LabelsTo(reply, p)
           text == TextTo(reply, p, i)
           s == dec.text
           a == dec.at
           r == dec.octets
<1>1. /\ i \in 0..n /\ a + r = t[i] /\ Len(l[i]) # 0
      /\ Len(s) + r = Len(text)
      /\ \A j \in 1..Len(s) : s[j] = text[j]
      /\ \A j \in 1..r : text[Len(s) + j] = Byte(reply, a + j - 1)
      /\ \A j \in 1..r : Byte(reply, a + j - 1) # 0
      /\ Near(reply, p, dec, i) \/ Far(reply, p, dec, i)
  BY Zenon DEF InOctets, CopiedTo
<1>2. /\ r > 0
      /\ dec' = [[dec EXCEPT !.at = a + 1, !.maxPos = MaxOf(@, a + 1)] EXCEPT
                   !.octets = @ - 1, !.text = Append(@, Byte(reply, a))]
  BY DEF CopyOctet, Moved, B
<1>3. a \in Nat /\ r \in Nat /\ s \in Seq(Octets) /\ dec.maxPos \in Nat
  BY DEF DecType
<1>4. /\ dec'.at = a + 1 /\ dec'.octets = r - 1 /\ dec'.text = Append(s, Byte(reply, a))
      /\ dec'.maxPos = MaxOf(dec.maxPos, a + 1)
  BY <1>2 DEF DecType
<1>5. Byte(reply, a) \in Octets
  BY <1>3, Bytes1
<1>6. /\ n \in Nat /\ \A j \in 0..n : t[j] \in Nat
  BY ReadableFacts, Zenon
<1>7. /\ Near(reply, p, dec, i) <=>
             /\ \A j \in 0..(i - 1) : ~IsPointer(Byte(reply, t[j]))
             /\ p <= a /\ (dec.maxPos = a \/ (r # 0 /\ dec.maxPos + 1 = a))
      /\ Far(reply, p, dec, i) <=>
             /\ AfterName(reply, p) = dec.maxPos + 1 /\ p <= dec.maxPos
             /\ \A j \in i..n : t[j] < p
  BY Zenon DEF Near, Far
<1> HIDE DEF t, n, l, text, s, a, r
<1>8. /\ Len(dec'.text) = Len(s) + 1 /\ dec'.text[Len(s) + 1] = Byte(reply, a)
      /\ \A j \in 1..Len(s) : dec'.text[j] = s[j]
      /\ Len(s) \in Nat
  BY <1>3, <1>4, <1>5
<1>9. 1 \in 1..r /\ a + 1 - 1 = a
  BY <1>2, <1>3
<1>10. text[Len(s) + 1] = Byte(reply, a)
  BY <1>1, <1>9
<1>11. \A j \in 1..(r - 1) : /\ j + 1 \in 1..r /\ (Len(s) + 1) + j = Len(s) + (j + 1)
                             /\ (a + 1) + j - 1 = a + (j + 1) - 1
  BY <1>3, <1>8, SMTT(30)
<1>12. CopiedTo(reply, p, dec', i)
  <2>1. Len(dec'.text) + dec'.octets = Len(text)
    <3>1. (Len(s) + 1) + (r - 1) = Len(s) + r
      BY <1>3, <1>8
    <3> QED
      BY <1>1, <1>4, <1>8, <3>1
  <2>2. \A j \in 1..Len(dec'.text) : dec'.text[j] = text[j]
    <3>1. \A j \in 1..(Len(s) + 1) : j = Len(s) + 1 \/ j \in 1..Len(s)
      BY <1>8
    <3> QED
      BY <1>1, <1>8, <1>10, <3>1
  <2>3. \A j \in 1..dec'.octets : text[Len(dec'.text) + j] = Byte(reply, dec'.at + j - 1)
    BY <1>1, <1>4, <1>8, <1>11
  <2> QED
    BY <2>1, <2>2, <2>3 DEF CopiedTo, text
<1>13. \A j \in 1..dec'.octets : Byte(reply, dec'.at + j - 1) # 0
  BY <1>1, <1>4, <1>11
<1>14. dec'.at + dec'.octets = t[i]
  BY <1>1, <1>3, <1>4
<1>15. CASE Near(reply, p, dec, i)
  <2>1. p <= a + 1 /\ dec'.maxPos = a + 1
    BY <1>3, <1>4, <1>7, <1>15 DEF MaxOf
  <2>2. Near(reply, p, dec', i)
    BY <1>4, <1>7, <1>15, <2>1 DEF Near, t
  <2> QED
    BY <1>1, <1>12, <1>13, <1>14, <2>2 DEF InOctets, t, n, l
<1>16. CASE Far(reply, p, dec, i)
  <2>1. t[i] < p /\ t[i] \in Nat
    <3>1. i \in i..n
      BY <1>1, <1>6
    <3> QED
      BY <1>1, <1>6, <1>7, <1>16, <3>1
  <2>2. dec'.maxPos = dec.maxPos
    BY <1>1, <1>2, <1>3, <1>4, <1>7, <1>16, <2>1 DEF MaxOf
  <2>3. Far(reply, p, dec', i)
    BY <1>7, <1>16, <2>2 DEF Far, t, n
  <2> QED
    BY <1>1, <1>12, <1>13, <1>14, <2>3 DEF InOctets, t, n, l
<1> QED
  BY <1>1, <1>15, <1>16

\* Between two labels.
Between(msg, p, d, i) ==
    /\ i \in 0..EndOf(msg, p) /\ d.at = Trail(msg, p)[i] /\ d.at \in Nat
    /\ d.text = TextTo(msg, p, i)
    /\ Byte(msg, d.at) # 0 => i \in 0..(EndOf(msg, p) - 1)
    /\ Byte(msg, d.at) = 0 => i = EndOf(msg, p)

LEMMA LabelRead ==
    ASSUME NEW msg \in Seq(Octets), NEW p \in Nat, Readable(msg, p), NEW d \in DecType,
           NEW i, InOctets(msg, p, d, i), d.octets = 0 \/ Byte(msg, d.at) = 0
    PROVE  d.octets = 0 /\ Between(msg, p, d, i)
<1> DEFINE t == Trail(msg, p)
           n == EndOf(msg, p)
           text == TextTo(msg, p, i)
<1>1. /\ i \in 0..n /\ d.at + d.octets = t[i]
      /\ Len(d.text) + d.octets = Len(text)
      /\ \A j \in 1..Len(d.text) : d.text[j] = text[j]
      /\ \A j \in 1..d.octets : Byte(msg, d.at + j - 1) # 0
  BY Zenon DEF InOctets, CopiedTo
<1>2. d.at \in Nat /\ d.octets \in Nat /\ d.text \in Seq(Octets)
  BY DEF DecType
<1>3. /\ n \in Nat /\ Byte(msg, t[n]) = 0 /\ \A j \in 0..n : text \in Seq(Octets)
      /\ \A j \in 0..(n - 1) : Byte(msg, t[j]) # 0
  BY <1>1, ReadableFacts, Zenon
<1> HIDE DEF t, n, text
<1>4. d.octets = 0
  <2> SUFFICES ASSUME d.octets # 0, Byte(msg, d.at) = 0 PROVE FALSE
    OBVIOUS
  <2>1. 1 \in 1..d.octets /\ d.at + 1 - 1 = d.at
    BY <1>2
  <2> QED
    BY <1>1, <2>1
<1>5. d.at = t[i] /\ Len(d.text) = Len(text)
  BY <1>1, <1>2, <1>3, <1>4
<1>6. d.text = text
  <2>1. text \in Seq(Octets)
    BY <1>1, <1>3
  <2> QED
    BY <1>1, <1>2, <1>5, <2>1, SameSequence
<1>7. i # n => i \in 0..(n - 1)
  BY <1>1, <1>3
<1>8. Byte(msg, d.at) # 0 => i \in 0..(n - 1)
  BY <1>3, <1>5, <1>7
<1>9. Byte(msg, d.at) = 0 => i = n
  BY <1>3, <1>5, <1>7
<1> QED
  BY <1>1, <1>2, <1>4, <1>5, <1>6, <1>8, <1>9 DEF Between, t, n, text

LEMMA ReadPointer ==
    ASSUME reply \in Seq(Octets), NEW p \in Nat, Readable(reply, p), dec \in DecType,
           NEW i, InOctets(reply, p, dec, i), FollowPointer
    PROVE  InOctets(reply, p, dec', i + 1)
<1> DEFINE t == Trail(reply, p)
           n == EndOf(reply, p)
           l == LabelsTo(reply, p)
           text(k) == TextTo(reply, p, k)
           a == dec.at
<1>1. /\ dec.octets = 0 /\ Byte(reply, a) # 0 /\ Byte(reply, a) >= 128
      /\ dec' = [dec EXCEPT !.at = Byte(reply, a + 1), !.maxPos = MaxOf(@, a + 1)]
  BY DEF FollowPointer, Octet, Moved, B
<1>2. /\ i \in 0..n /\ a = t[i] /\ a \in Nat /\ dec.text = text(i) /\ i \in 0..(n - 1)
  BY <1>1, LabelRead, Zenon DEF Between
<1>3. /\ n \in Nat /\ text(i) \in Seq(Octets) /\ Len(l[i]) # 0 /\ Len(l[i]) \in Nat
      /\ Near(reply, p, dec, i) \/ Far(reply, p, dec, i)
  <2>1. n \in Nat /\ \A j \in 0..n : text(j) \in Seq(Octets) /\ Len(l[j]) \in Nat
    BY ReadableFacts, Zenon
  <2> QED
    BY <1>2, <2>1, Zenon DEF InOctets
<1>4. PointerAt(reply, p, i) \/ LabelIsAt(reply, p, i)
  <2>1. \A j \in 0..(n - 1) : PointerAt(reply, p, j) \/ LabelIsAt(reply, p, j)
    BY ReadableFacts, Zenon
  <2> QED
    BY <1>2, <2>1
<1>5. ~LabelIsAt(reply, p, i)
  <2>1. Byte(reply, a) \in Nat
    BY <1>2, Bytes1
  <2>2. ~(Byte(reply, a) < 128)
    BY <1>1, <2>1
  <2> QED
    BY <1>2, <2>2, Zenon DEF LabelIsAt
<1>6. /\ IsPointer(Byte(reply, t[i])) /\ t[i + 1] = Byte(reply, t[i] + 1)
      /\ text(i + 1) = text(i) /\ l[i + 1] = l[i]
      /\ \A j \in (i + 1)..n : t[j] < p
  BY <1>4, <1>5, Zenon DEF PointerAt
<1>7. /\ dec'.at = t[i + 1] /\ dec'.octets = 0 /\ dec'.text = text(i)
      /\ dec'.maxPos = MaxOf(dec.maxPos, a + 1) /\ dec.maxPos \in Nat
  BY <1>1, <1>2, <1>6 DEF DecType
<1>8. /\ Near(reply, p, dec, i) =>
             /\ \A j \in 0..(i - 1) : ~IsPointer(Byte(reply, t[j]))
             /\ p <= a /\ dec.maxPos = a
      /\ Far(reply, p, dec, i) =>
             /\ AfterName(reply, p) = dec.maxPos + 1 /\ p <= dec.maxPos
             /\ \A j \in i..n : t[j] < p
  BY <1>1, Zenon DEF Near, Far
<1>9. t[i + 1] \in Nat
  <2>1. t[i] + 1 \in Nat
    BY <1>2
  <2> QED
    BY <1>6, <2>1, Bytes1
<1>10. Near(reply, p, dec, i) => AfterName(reply, p) = a + 2
  <2>1. i # n
    BY <1>2, <1>3
  <2> QED
    BY <1>2, <1>6, <1>8, <2>1, PlaceIs
<1> HIDE DEF t, n, l, text, a
<1>11. AfterName(reply, p) = dec'.maxPos + 1 /\ p <= dec'.maxPos
  <2>1. CASE Near(reply, p, dec, i)
    BY <1>2, <1>7, <1>8, <1>10, <2>1 DEF MaxOf
  <2>2. CASE Far(reply, p, dec, i)
    <3>1. i \in i..n
      BY <1>2, <1>3
    <3>2. a < p
      BY <1>2, <1>8, <2>2, <3>1
    <3>3. dec'.maxPos = dec.maxPos
      BY <1>2, <1>7, <1>8, <2>2, <3>2 DEF MaxOf
    <3> QED
      BY <1>8, <2>2, <3>3
  <2> QED
    BY <1>3, <2>1, <2>2
<1>12. Far(reply, p, dec', i + 1)
  BY <1>6, <1>11 DEF Far, t, n
<1>13. CopiedTo(reply, p, dec', i + 1)
  BY <1>3, <1>6, <1>7 DEF CopiedTo, text
<1>14. i + 1 \in 0..n /\ dec'.at + dec'.octets = t[i + 1]
  <2>1. i + 1 \in 0..n
    BY <1>2, <1>3
  <2>2. dec'.at = t[i + 1] /\ dec'.octets = 0 /\ t[i + 1] + 0 = t[i + 1]
    BY <1>7, <1>9
  <2> QED
    BY <2>1, <2>2
<1> QED
  BY <1>3, <1>6, <1>7, <1>12, <1>13, <1>14 DEF InOctets, t, n, l

LEMMA ReadLabel ==
    ASSUME reply \in Seq(Octets), NEW p \in Nat, Readable(reply, p), dec \in DecType,
           NEW i, InOctets(reply, p, dec, i), NextLabel
    PROVE  InOctets(reply, p, dec', i + 1)
<1> DEFINE t == Trail(reply, p)
           n == EndOf(reply, p)
           l == LabelsTo(reply, p)
           text(k) == TextTo(reply, p, k)
           a == dec.at
           b == Byte(reply, a)
<1>1. /\ dec.octets = 0 /\ Byte(reply, a) # 0 /\ Byte(reply, a) < 128
      /\ dec' = [[dec EXCEPT !.at = a + 1, !.maxPos = MaxOf(@, a + 1)] EXCEPT
                   !.octets = b, !.text = Append(@, 46)]
  BY DEF NextLabel, Octet, Moved, B
<1>2. /\ i \in 0..n /\ a = t[i] /\ a \in Nat /\ dec.text = text(i) /\ i \in 0..(n - 1)
  BY <1>1, LabelRead, Zenon DEF Between
<1>3. /\ n \in Nat /\ text(i) \in Seq(Octets) /\ Len(l[i]) # 0 /\ Len(l[i]) \in Nat
      /\ Near(reply, p, dec, i) \/ Far(reply, p, dec, i)
  <2>1. n \in Nat /\ \A j \in 0..n : text(j) \in Seq(Octets) /\ Len(l[j]) \in Nat
    BY ReadableFacts, Zenon
  <2> QED
    BY <1>2, <2>1, Zenon DEF InOctets
<1>4. PointerAt(reply, p, i) \/ LabelIsAt(reply, p, i)
  <2>1. \A j \in 0..(n - 1) : PointerAt(reply, p, j) \/ LabelIsAt(reply, p, j)
    BY ReadableFacts, Zenon
  <2> QED
    BY <1>2, <2>1
<1>5. ~PointerAt(reply, p, i) /\ b \in Nat
  <2>1. b \in Nat
    BY <1>2, Bytes1
  <2>2. ~(b >= 128)
    BY <1>1, <2>1
  <2> QED
    BY <1>2, <2>1, <2>2, Zenon DEF PointerAt
<1>6. /\ ~IsPointer(Byte(reply, t[i])) /\ t[i + 1] = t[i] + 1 + Byte(reply, t[i])
      /\ text(i + 1) = WithLabel(text(i), Len(l[i]) + 1, LabelAt(reply, t[i]))
      /\ Len(l[i + 1]) = Len(l[i]) + 1
      /\ \A j \in 1..Byte(reply, t[i]) : Byte(reply, t[i] + j) # 0
  BY <1>4, <1>5, Zenon DEF LabelIsAt
<1>7. /\ dec'.at = a + 1 /\ dec'.octets = b /\ dec'.text = Append(text(i), 46)
      /\ dec'.maxPos = MaxOf(dec.maxPos, a + 1) /\ dec.maxPos \in Nat
  BY <1>1, <1>2 DEF DecType
<1>8. /\ Near(reply, p, dec, i) =>
             /\ \A j \in 0..(i - 1) : ~IsPointer(Byte(reply, t[j]))
             /\ p <= a /\ dec.maxPos = a
      /\ Far(reply, p, dec, i) =>
             /\ AfterName(reply, p) = dec.maxPos + 1 /\ p <= dec.maxPos
             /\ \A j \in i..n : t[j] < p
  BY <1>1, Zenon DEF Near, Far
<1>9. /\ LabelAt(reply, a) \in Seq(Octets) /\ Len(LabelAt(reply, a)) = b
      /\ \A j \in 1..b : LabelAt(reply, a)[j] = Byte(reply, a + j)
  BY <1>2, LabelIs
<1> DEFINE label == LabelAt(reply, a)
           s == dec'.text
<1>10. text(i + 1) = (text(i) \o <<46>>) \o label
  <2>1. Len(l[i]) + 1 # 1
    BY <1>3
  <2> QED
    BY <1>2, <1>6, <2>1 DEF WithLabel
<1> HIDE DEF t, n, l, text, label, a, b, s
<1>11. s = text(i) \o <<46>> /\ s \in Seq(Octets) /\ Len(s) \in Nat
  <2>1. 46 \in Octets
    BY DEF Octets
  <2> QED
    BY <1>3, <1>7, <2>1 DEF s
<1>12. /\ Len(text(i + 1)) = Len(s) + b
       /\ \A j \in 1..Len(s) : text(i + 1)[j] = s[j]
       /\ \A j \in 1..b : text(i + 1)[Len(s) + j] = label[j]
  <2>1. text(i + 1) = s \o label
    BY <1>10, <1>11
  <2>2. label \in Seq(Octets) /\ Len(label) = b
    BY <1>9 DEF label
  <2>3. \A u, v \in Seq(Octets) :
           /\ Len(u \o v) = Len(u) + Len(v)
           /\ \A j \in 1..Len(u) : (u \o v)[j] = u[j]
           /\ \A j \in 1..Len(v) : (u \o v)[Len(u) + j] = v[j]
    OBVIOUS
  <2>4. /\ Len(s \o label) = Len(s) + Len(label)
        /\ \A j \in 1..Len(s) : (s \o label)[j] = s[j]
        /\ \A j \in 1..Len(label) : (s \o label)[Len(s) + j] = label[j]
    BY <1>11, <2>2, <2>3, Zenon
  <2> QED
    BY <2>1, <2>2, <2>4, Zenon
<1>13. \A j \in 1..b : (a + 1) + j - 1 = a + j
  BY <1>2, <1>5
<1>14. CopiedTo(reply, p, dec', i + 1)
  <2>1. Len(dec'.text) + dec'.octets = Len(text(i + 1))
    BY <1>7, <1>12 DEF s
  <2>2. \A j \in 1..Len(dec'.text) : dec'.text[j] = text(i + 1)[j]
    BY <1>12 DEF s
  <2>3. \A j \in 1..dec'.octets : text(i + 1)[Len(dec'.text) + j] = Byte(reply, dec'.at + j - 1)
    BY <1>7, <1>9, <1>12, <1>13 DEF s, label
  <2> QED
    BY <2>1, <2>2, <2>3 DEF CopiedTo, text
<1>15. \A j \in 1..dec'.octets : Byte(reply, dec'.at + j - 1) # 0
  BY <1>2, <1>6, <1>7, <1>13 DEF b
<1>16. i + 1 \in 0..n /\ dec'.at + dec'.octets = t[i + 1]
  BY <1>2, <1>3, <1>5, <1>6, <1>7 DEF b
<1>17. Near(reply, p, dec', i + 1) \/ Far(reply, p, dec', i + 1)
  <2>1. CASE Near(reply, p, dec, i)
    <3>1. \A j \in 0..((i + 1) - 1) : j = i \/ j \in 0..(i - 1)
      BY <1>2, <1>3
    <3>2. \A j \in 0..((i + 1) - 1) : ~IsPointer(Byte(reply, t[j]))
      BY <1>6, <1>8, <2>1, <3>1
    <3>3. p <= dec'.at /\ dec'.maxPos = dec'.at
      BY <1>2, <1>7, <1>8, <2>1 DEF MaxOf
    <3> QED
      BY <3>2, <3>3 DEF Near, t
  <2>2. CASE Far(reply, p, dec, i)
    <3>1. i \in i..n /\ \A j \in (i + 1)..n : j \in i..n
      BY <1>2, <1>3
    <3>2. a < p
      BY <1>2, <1>8, <2>2, <3>1
    <3>3. dec'.maxPos = dec.maxPos
      BY <1>2, <1>7, <1>8, <2>2, <3>2 DEF MaxOf
    <3> QED
      BY <1>8, <2>2, <3>1, <3>3 DEF Far, t, n
  <2> QED
    BY <1>3, <2>1, <2>2
<1>18. Len(l[i + 1]) # 0
  BY <1>3, <1>6
<1> QED
  BY <1>14, <1>15, <1>16, <1>17, <1>18 DEF InOctets, t, n, l

LEMMA ReadDone ==
    ASSUME NEW msg \in Seq(Octets), NEW p \in Nat, Readable(msg, p), NEW d \in DecType,
           NEW i, InOctets(msg, p, d, i), Byte(msg, d.at) = 0
    PROVE  d.text = Dotted(NameAt(msg, p)) /\ d.maxPos + 1 = AfterName(msg, p)
<1>1. /\ d.octets = 0 /\ i = EndOf(msg, p) /\ d.at = Trail(msg, p)[i] /\ d.text = TextTo(msg, p, i)
      /\ i \in 0..EndOf(msg, p)
  <2>1. d.octets = 0 /\ Between(msg, p, d, i)
    BY LabelRead
  <2> QED
    BY <2>1, Zenon DEF Between
<1>2. d.text = Dotted(NameAt(msg, p))
  BY <1>1 DEF TextTo, NameAt
<1>3. CASE Near(msg, p, d, i)
  <2>1. (\A j \in 0..(i - 1) : ~IsPointer(Byte(msg, Trail(msg, p)[j]))) /\ d.maxPos = d.at
    BY <1>1, <1>3, Zenon DEF Near
  <2> QED
    BY <1>1, <1>2, <2>1, PlaceIs
<1>4. CASE Far(msg, p, d, i)
  BY <1>2, <1>4 DEF Far
<1> QED
  BY <1>3, <1>4 DEF InOctets

-----------------------------------------------------------------------------
(* Types, and how far the decoding gets in the buffer.                     *)

RecordType == [name : Seq(Octets), type : Nat, data : Seq(Octets)]
Top        == 1023
Cap(k)     == Len(reply) + 12 + 11 * k
Done       == Len(shown.answers)

Typed == /\ runs \in 0..MaxRuns /\ lost \in BOOLEAN
         /\ dec \in DecType /\ dec.at <= Top /\ dec.maxPos <= Top /\ dec.octets \in Octets
         /\ pos \in Nat /\ pos <= Top
         /\ record \in RecordType
         /\ shown.answers \in Seq(RecordType)

\* The name's position, or the place in it, is before Cap; it may be in its first bytes.
NamePlaced == /\ pos <= Cap(Done) /\ dec.maxPos <= Cap(Done)
              /\ dec.at <= Cap(Done) \/ dec.at <= 255
                    \/ (step # "mask" /\ (dec.at <= Cap(Done) + 1 \/ dec.at <= 256))

Placed ==
    /\ step = "question" => /\ shown.answers = <<>> /\ left.answers = Word(reply, 6)
                            /\ pos = IF left.questions = 0 THEN AnswerAt(reply, 1) ELSE 12
    /\ step = "answer" => Done + left.answers = Word(reply, 6) /\ pos <= Cap(Done)
    /\ step \in {"mask", "octets", "fields", "show"} => Done + 1 + left.answers = Word(reply, 6)
    /\ step \in {"mask", "octets"} => NamePlaced
    /\ step = "fields" => pos <= Cap(Done) + 1
    /\ step = "show" => pos <= Cap(Done) + 11

BInv == Typed /\ Placed

\* What the replies of the zone leave of the buffer.
Roomy == /\ reply \in Seq(Octets) /\ Len(reply) \in Nat /\ Word(reply, 6) \in Nat
         /\ Len(reply) + 11 * Word(reply, 6) + 16 <= Top
         /\ AnswerAt(reply, 1) \in Nat /\ AnswerAt(reply, 1) <= Len(reply)

LEMMA ReplyIsRoomy ==
    ASSUME NInv, step \in Decoding
    PROVE  Roomy /\ \E name \in DOMAIN Zone : reply = Zone[name] /\ NameAt(reply, 12) = name
<1>1. PICK name \in DOMAIN Zone : reply = Zone[name] /\ NameAt(reply, 12) = name
  BY ReplyIs DEF NInv
<1>2. /\ reply \in Seq(Octets) /\ Len(reply) + 11 * Word(reply, 6) + 16 <= Top
      /\ WrittenReply(reply, name) /\ IsName(name)
  BY <1>1, ZoneFacts, ZoneAssumption DEF Top
<1>3. Len(reply) \in Nat /\ Word(reply, 6) \in Nat
  BY <1>2, Words
<1>4. AnswerAt(reply, 1) \in Nat /\ AnswerAt(reply, 1) <= Len(reply)
  <2>1. PICK z : AskedIn(reply, name, z)
    BY <1>2, QuestionFacts
  <2>2. z \in Nat /\ AnswerAt(reply, 1) = z + 5
    BY <2>1 DEF AskedIn, Copies
  <2> QED
    BY <1>2, <2>2 DEF WrittenReply
<1> QED
  BY <1>1, <1>2, <1>3, <1>4 DEF Roomy

LEMMA CapIs ==
    ASSUME Roomy, NEW k \in Nat
    PROVE  /\ Cap(k) \in Nat /\ Cap(k + 1) = Cap(k) + 11 /\ Len(reply) + 12 <= Cap(k)
           /\ k <= Word(reply, 6) => Cap(k) + 4 <= Top
           /\ k + 1 <= Word(reply, 6) => Cap(k) + 15 <= Top
           /\ 256 <= Top /\ Top \in Nat
  BY DEF Roomy, Cap, Top

LEMMA BSend ==
    ASSUME BInv, NEW name \in DOMAIN Zone, Send(name)
    PROVE  BInv'
<1>1. /\ step' = "wait" /\ shown'.answers = <<>> /\ runs < MaxRuns /\ runs' = runs + 1 /\ lost' = FALSE
      /\ UNCHANGED <<pos, dec, record>>
  BY DEF Send
<1>2. runs' \in 0..MaxRuns
  BY <1>1, MaxRunsAssumption DEF BInv, Typed
<1>3. <<>> \in Seq(RecordType)
  OBVIOUS
<1>4. Placed'
  BY <1>1 DEF Placed
<1> QED
  BY <1>1, <1>2, <1>3, <1>4 DEF BInv, Typed

LEMMA BReceive ==
    ASSUME NInv, QInv, BInv, Receive
    PROVE  BInv'
<1>1. PICK m \in DOMAIN Zone : reply' = Zone[m] /\ left' = Counts(Zone[m])
  BY ReceivedIs
<1>2. left'.questions = 1 /\ left'.answers = Word(reply', 6)
  BY <1>1, ZoneFacts DEF WrittenReply, Counts
<1>3. /\ step = "wait" /\ step' = "question" /\ pos' = 12 /\ UNCHANGED <<dec, record, shown, runs, lost>>
  BY DEF Receive
<1>4. shown.answers = <<>>
  BY <1>3 DEF QInv
<1>5. Placed'
  BY <1>2, <1>3, <1>4 DEF Placed
<1>6. Typed'
  BY <1>3 DEF Typed, BInv, Top
<1> QED
  BY <1>5, <1>6 DEF BInv

LEMMA BQuestion ==
    ASSUME NInv, QInv, BInv, Question
    PROVE  BInv'
<1>1. /\ step = "question" /\ step' = "question" /\ UNCHANGED <<reply, dec, record, runs, lost>>
      /\ left.questions > 0 /\ left' = [left EXCEPT !.questions = @ - 1]
      /\ shown'.answers = shown.answers
      /\ pos' = pos + Len(QuestionText(pos)) + 2 + 4
  BY DEF Question, outside, QInv
<1>2. pos = 12 /\ left.questions = 1 /\ left'.questions = 0 /\ left'.answers = left.answers
  BY <1>1 DEF QInv
<1>3. step \in Decoding
  BY <1>1 DEF Decoding
<1>4. pos' = AnswerAt(reply, 1)
  BY <1>1, <1>2, <1>3, ReplyIsRoomy, QuestionTextIs
<1>5. Placed'
  BY <1>1, <1>2, <1>4 DEF Placed, BInv
<1>6. pos' \in Nat /\ pos' <= Top
  <2>1. Roomy
    BY <1>3, ReplyIsRoomy
  <2> QED
    BY <1>4, <2>1 DEF Roomy, Top
<1> QED
  BY <1>1, <1>5, <1>6 DEF BInv, Typed

LEMMA DoneIs ==
    ASSUME Typed
    PROVE  Done \in Nat
<1>1. shown.answers \in Seq(RecordType)
  BY DEF Typed
<1>2. \A S : \A s \in Seq(S) : Len(s) \in Nat
  OBVIOUS
<1> QED
  BY <1>1, <1>2, Zenon DEF Done

LEMMA BNextAnswer ==
    ASSUME Roomy, QInv, BInv, NextAnswer
    PROVE  BInv'
<1>1. /\ step = "answer" /\ step' = "mask" /\ UNCHANGED <<pos, shown, reply, runs, lost>>
      /\ left.answers > 0 /\ left' = [left EXCEPT !.answers = @ - 1]
      /\ record' = NoRecord
      /\ dec' = [NoDomain EXCEPT !.at = pos, !.maxPos = pos]
  BY DEF NextAnswer, AtDomain, outside
<1>2. /\ Done + left.answers = Word(reply, 6) /\ pos <= Cap(Done) /\ pos \in Nat /\ pos <= Top
      /\ shown.answers \in Seq(RecordType)
  BY <1>1, Zenon DEF BInv, Typed, Placed
<1>3. left'.answers = left.answers - 1 /\ left.answers \in Nat
  BY <1>1 DEF QInv
<1>4. /\ dec'.at = pos /\ dec'.maxPos = pos /\ dec'.octets = 0 /\ dec' \in DecType
      /\ record' \in RecordType
  <2>1. <<>> \in Seq(Octets)
    OBVIOUS
  <2>2. /\ dec' = [at |-> pos, maxPos |-> pos, octets |-> 0, text |-> <<>>]
        /\ record' = [name |-> <<>>, type |-> 0, data |-> <<>>]
    BY <1>1 DEF NoDomain, NoRecord
  <2> QED
    BY <1>2, <2>1, <2>2 DEF DecType, RecordType
<1>5. 0 \in Octets
  BY DEF Octets
<1>6. Typed'
  BY <1>1, <1>2, <1>4, <1>5 DEF Typed, BInv
<1>7. Done \in Nat /\ Cap(Done) \in Nat
  BY DoneIs, CapIs DEF BInv
<1>8. /\ Done' = Done /\ Cap(Done)' = Cap(Done)
  BY <1>1 DEF Done, Cap
<1>9. NamePlaced'
  BY <1>1, <1>2, <1>4, <1>7, <1>8 DEF NamePlaced
<1>10. Done' + 1 + left'.answers = Word(reply', 6)
  <2>1. reply' = reply /\ Done' = Done /\ Done + left.answers = Word(reply, 6)
    BY <1>1, <1>2, <1>8
  <2> QED
    BY <1>3, <1>7, <2>1
<1> QED
  BY <1>1, <1>6, <1>9, <1>10 DEF BInv, Placed

\* decodeDomain moves to a position it read, or to one given by a byte.
LEMMA BReading ==
    ASSUME Roomy, QInv, BInv, SkipMasked \/ FirstLabel \/ CopyOctet \/ FollowPointer \/ NextLabel
    PROVE  BInv'
<1> DEFINE a == dec.at
           b == Byte(reply, dec.at)
           c == Byte(reply, dec.at + 1)
<1>1. /\ step \in {"mask", "octets"} /\ step' \in {"mask", "octets"}
      /\ UNCHANGED <<pos, left, record, shown, reply, runs, lost>>
  BY DEF SkipMasked, FirstLabel, CopyOctet, FollowPointer, NextLabel, Octet, outside
<1>2. /\ dec \in DecType /\ dec.at <= Top /\ dec.maxPos <= Top /\ dec.octets \in Octets
      /\ shown.answers \in Seq(RecordType) /\ NamePlaced
      /\ Done + 1 + left.answers = Word(reply, 6)
  BY <1>1, Zenon DEF BInv, Typed, Placed
<1>3. a \in Nat /\ dec.maxPos \in Nat /\ dec.text \in Seq(Octets) /\ dec.octets \in Nat
  BY <1>2 DEF DecType
<1>4. /\ b \in Octets /\ b \in Nat /\ b <= 255 /\ (b # 0 => a < Len(reply))
      /\ c \in Octets /\ c \in Nat /\ c <= 255
  <2>1. reply \in Seq(Octets) /\ a \in Nat /\ a + 1 \in Nat
    BY <1>3 DEF Roomy
  <2>2. b \in Octets /\ b \in Nat /\ b <= 255 /\ (b # 0 => a < Len(reply))
    BY <2>1, Bytes1
  <2>3. c \in Octets /\ c \in Nat /\ c <= 255
    BY <2>1, Bytes1
  <2> QED
    BY <2>2, <2>3
<1> DEFINE M == MaxOf(dec.maxPos, a + 1)
<1>5. \/ /\ b # 0 /\ dec' = [dec EXCEPT !.at = c, !.maxPos = M]
      \/ /\ step = "mask" /\ step' = "octets"
         /\ dec' = [dec EXCEPT !.octets = b, !.at = @ + 1]
      \/ /\ b # 0 /\ dec.octets > 0
         /\ dec' = [[dec EXCEPT !.at = a + 1, !.maxPos = M] EXCEPT !.octets = @ - 1, !.text = Append(@, b)]
      \/ /\ b # 0
         /\ dec' = [[dec EXCEPT !.at = a + 1, !.maxPos = M] EXCEPT !.octets = b, !.text = Append(@, 46)]
  <2>1. Masked(b) => b # 0
    BY DEF Masked
  <2>2. CASE SkipMasked
    BY <2>1, <2>2 DEF SkipMasked, Moved, B
  <2>3. CASE FirstLabel
    BY <2>3 DEF FirstLabel, B
  <2>4. CASE CopyOctet
    BY <2>4 DEF CopyOctet, Octet, Moved, B
  <2>5. CASE FollowPointer
    BY <2>5 DEF FollowPointer, Octet, Moved, B
  <2>6. CASE NextLabel
    BY <2>6 DEF NextLabel, Octet, Moved, B
  <2> QED
    BY <2>2, <2>3, <2>4, <2>5, <2>6
<1> HIDE DEF a, b, c, M
<1>6. M \in Nat /\ (b # 0 => M <= dec.maxPos \/ M <= Len(reply))
  <2>1. M = dec.maxPos \/ M = a + 1
    BY DEF M, MaxOf
  <2> QED
    BY <1>3, <1>4, <2>1 DEF Roomy
<1>7. Done \in Nat /\ Cap(Done) \in Nat /\ Len(reply) + 12 <= Cap(Done) /\ Cap(Done) + 15 <= Top
      /\ Top \in Nat /\ 256 <= Top
  <2>1. Done \in Nat
    BY DoneIs DEF BInv
  <2>2. left.answers \in Nat
    BY DEF QInv
  <2>3. Done + 1 <= Word(reply, 6)
    BY <1>2, <2>1, <2>2
  <2> QED
    BY <2>1, <2>3, CapIs
<1>8. /\ dec'.at = c \/ (dec'.at = a + 1 /\ (b # 0 \/ (step = "mask" /\ step' = "octets")))
      /\ dec'.maxPos = dec.maxPos \/ (b # 0 /\ dec'.maxPos = M)
  BY <1>2, <1>5 DEF DecType, a
<1>9. dec'.octets \in {dec.octets, b} \/ (dec.octets > 0 /\ dec'.octets = dec.octets - 1)
  BY <1>2, <1>5 DEF DecType
<1>10. dec'.text \in {dec.text, Append(dec.text, b), Append(dec.text, 46)}
  BY <1>2, <1>5 DEF DecType
<1>11. dec' = [at |-> dec'.at, maxPos |-> dec'.maxPos, octets |-> dec'.octets, text |-> dec'.text]
  BY <1>2, <1>5 DEF DecType
<1>12. dec'.at \in Nat /\ dec'.maxPos \in Nat
  <2>1. a + 1 \in Nat /\ c \in Nat /\ M \in Nat /\ dec.maxPos \in Nat
    BY <1>3, <1>4, <1>6
  <2>2. dec'.at = c \/ dec'.at = a + 1
    BY <1>8
  <2>3. dec'.maxPos = dec.maxPos \/ dec'.maxPos = M
    BY <1>8
  <2> QED
    BY <2>1, <2>2, <2>3
<1>13. dec'.octets \in Octets
  <2>1. dec.octets > 0 => dec.octets - 1 \in Octets
    BY <1>2 DEF Octets
  <2> QED
    BY <1>2, <1>4, <1>9, <2>1
<1>14. dec'.text \in Seq(Octets)
  <2>1. 46 \in Octets
    BY DEF Octets
  <2>2. \A s \in Seq(Octets), x \in Octets : Append(s, x) \in Seq(Octets)
    OBVIOUS
  <2> QED
    BY <1>3, <1>4, <1>10, <2>1, <2>2
<1>15. dec' \in DecType
  <2>1. \A x \in Octets : x \in Nat
    BY DEF Octets
  <2> QED
    BY <1>11, <1>12, <1>13, <1>14, <2>1 DEF DecType
<1>16. pos <= Cap(Done) /\ dec.maxPos <= Cap(Done) /\ (step = "mask" => a <= Cap(Done) \/ a <= 255)
  BY <1>2 DEF NamePlaced, a
<1> DEFINE cap == Cap(Done)
<1>17. cap \in Nat /\ Len(reply) \in Nat /\ Len(reply) <= cap /\ Top \in Nat /\ cap <= Top
  BY <1>7 DEF Roomy
<1> HIDE DEF cap
<1>18. dec'.maxPos <= cap
  <2>1. dec.maxPos <= cap
    BY <1>16 DEF cap
  <2> QED
    BY <1>3, <1>6, <1>8, <1>17, <2>1
<1>19. dec'.at <= cap \/ dec'.at <= 255 \/ (step' = "octets" /\ (dec'.at <= cap + 1 \/ dec'.at <= 256))
  <2>1. b # 0 => a + 1 <= cap
    BY <1>3, <1>4, <1>17
  <2>2. step = "mask" => a + 1 <= cap + 1 \/ a + 1 <= 256
    BY <1>3, <1>16, <1>17 DEF cap
  <2> QED
    BY <1>4, <1>8, <2>1, <2>2
<1>20. Done' = Done /\ Cap(Done)' = cap
  BY <1>1 DEF Done, Cap, cap
<1>21. NamePlaced'
  BY <1>1, <1>16, <1>18, <1>19, <1>20 DEF NamePlaced, cap
<1>22. dec'.at <= Top /\ dec'.maxPos <= Top
  BY <1>7, <1>12, <1>17, <1>18, <1>19 DEF cap
<1>23. Typed'
  BY <1>1, <1>13, <1>15, <1>22 DEF Typed, BInv
<1>24. Placed'
  BY <1>1, <1>2, <1>20, <1>21 DEF Placed
<1> QED
  BY <1>23, <1>24 DEF BInv

LEMMA BDone ==
    ASSUME Roomy, QInv, BInv, DomainDone
    PROVE  BInv'
<1>1. /\ step = "octets" /\ pos' = dec.maxPos + 1
      /\ UNCHANGED <<left, dec, shown, reply, runs, lost>>
      /\ \/ step' = "fields" /\ record' = [record EXCEPT !.name = dec.text]
         \/ step' = "show" /\ record' = [record EXCEPT !.data = dec.text]
  BY DEF DomainDone, outside
<1>2. /\ dec \in DecType /\ record \in RecordType /\ NamePlaced
      /\ Done + 1 + left.answers = Word(reply, 6)
  BY <1>1, Zenon DEF BInv, Typed, Placed
<1>3. dec.text \in Seq(Octets) /\ dec.maxPos \in Nat
  BY <1>2 DEF DecType
<1>4. record' \in RecordType
  BY <1>1, <1>2, <1>3 DEF RecordType
<1>5. Done \in Nat /\ Cap(Done) \in Nat /\ Cap(Done) + 15 <= Top /\ Top \in Nat
  <2>1. Done \in Nat
    BY DoneIs DEF BInv
  <2>2. left.answers \in Nat
    BY DEF QInv
  <2>3. Done + 1 <= Word(reply, 6)
    BY <1>2, <2>1, <2>2
  <2> QED
    BY <2>1, <2>3, CapIs
<1>6. dec.maxPos <= Cap(Done)
  BY <1>2 DEF NamePlaced
<1>7. pos' \in Nat /\ pos' <= Cap(Done) + 1 /\ pos' <= Cap(Done) + 11 /\ pos' <= Top
  BY <1>1, <1>3, <1>5, <1>6
<1>8. Done' = Done /\ Cap(Done)' = Cap(Done)
  BY <1>1 DEF Done, Cap
<1>9. Typed'
  BY <1>1, <1>4, <1>7 DEF Typed, BInv
<1>10. Placed'
  BY <1>1, <1>2, <1>7, <1>8 DEF Placed
<1> QED
  BY <1>9, <1>10 DEF BInv

LEMMA BFields ==
    ASSUME Roomy, QInv, BInv, Fields
    PROVE  BInv'
<1> DEFINE type == Word(reply, pos)
           four == [i \in 1..4 |-> B(pos + 9 + i)]
<1>1. /\ step = "fields" /\ UNCHANGED <<left, shown, reply, runs, lost>>
      /\ pos' = pos + 10 + (IF type = TypeA /\ Word(reply, pos + 2) = 1 THEN 4 ELSE 0)
      /\ record' = [record EXCEPT !.type = type,
                                  !.data = IF type = TypeA /\ Word(reply, pos + 2) = 1 THEN four ELSE @]
      /\ \/ step' = "mask" /\ type = TypeCNAME /\ dec' = [NoDomain EXCEPT !.at = pos + 10, !.maxPos = pos + 10]
         \/ step' = "show" /\ dec' = dec
  BY DEF Fields, AtDomain, outside
<1>2. /\ dec \in DecType /\ record \in RecordType /\ pos <= Cap(Done) + 1 /\ pos \in Nat
      /\ dec.at <= Top /\ dec.maxPos <= Top /\ dec.octets \in Octets
      /\ Done + 1 + left.answers = Word(reply, 6)
  BY <1>1, Zenon DEF BInv, Typed, Placed
<1>3. four \in Seq(Octets)
  <2>1. \A i \in 1..4 : B(pos + 9 + i) \in Octets
    <3>1. \A i \in 1..4 : pos + 9 + i \in Nat
      BY <1>2
    <3> QED
      BY <3>1, Bytes1 DEF Roomy, B
  <2> QED
    BY <2>1
<1>4. /\ type \in Nat /\ (type # 0 => pos < Len(reply)) /\ Len(reply) \in Nat
  BY <1>2, Words DEF Roomy
<1> HIDE DEF type, four
<1>5. record' \in RecordType
  BY <1>1, <1>2, <1>3, <1>4 DEF RecordType
<1>6. Done \in Nat /\ Cap(Done) \in Nat /\ Cap(Done) + 15 <= Top /\ Top \in Nat /\ Len(reply) + 12 <= Cap(Done)
  <2>1. Done \in Nat
    BY DoneIs DEF BInv
  <2>2. left.answers \in Nat
    BY DEF QInv
  <2>3. Done + 1 <= Word(reply, 6)
    BY <1>2, <2>1, <2>2
  <2> QED
    BY <2>1, <2>3, CapIs
<1>7. pos' \in Nat /\ pos' <= Cap(Done) + 11 /\ pos' <= Top
  <2>1. pos' = pos + 10 \/ (type # 0 /\ pos' = pos + 14)
    BY <1>1, <1>2 DEF TypeA
  <2>2. pos \in Nat /\ pos <= Cap(Done) + 1
    BY <1>2
  <2>3. pos' = pos + 14 => pos' <= Cap(Done) + 2
    BY <1>4, <1>6, <2>1, <2>2
  <2>4. pos' = pos + 10 \/ pos' = pos + 14
    BY <2>1
  <2> QED
    BY <1>6, <2>2, <2>3, <2>4
<1>8. step' = "mask" => pos' = pos + 10 /\ pos + 10 <= Cap(Done)
  BY <1>1, <1>2, <1>4, <1>6 DEF TypeA, TypeCNAME
<1>9. step' = "mask" => dec' = [at |-> pos + 10, maxPos |-> pos + 10, octets |-> 0, text |-> <<>>]
  BY <1>1 DEF NoDomain
<1>10. dec' \in DecType /\ dec'.at <= Top /\ dec'.maxPos <= Top /\ dec'.octets \in Octets
  <2>1. CASE step' = "mask"
    <3>1. <<>> \in Seq(Octets) /\ 0 \in Octets
      BY DEF Octets
    <3>2. pos + 10 \in Nat /\ pos + 10 <= Top
      BY <1>2, <1>6, <1>8, <2>1
    <3>3. [at |-> pos + 10, maxPos |-> pos + 10, octets |-> 0, text |-> <<>>] \in DecType
      BY <3>1, <3>2 DEF DecType
    <3> QED
      BY <1>9, <2>1, <3>1, <3>2, <3>3
  <2> QED
    BY <1>1, <1>2, <2>1
<1>11. Done' = Done /\ Cap(Done)' = Cap(Done)
  BY <1>1 DEF Done, Cap
<1>12. step' = "mask" => NamePlaced'
  BY <1>8, <1>9, <1>11 DEF NamePlaced
<1>13. Typed'
  BY <1>1, <1>5, <1>7, <1>10 DEF Typed, BInv
<1>14. Placed'
  BY <1>1, <1>2, <1>7, <1>11, <1>12 DEF Placed
<1> QED
  BY <1>13, <1>14 DEF BInv

LEMMA BShow ==
    ASSUME Roomy, QInv, BInv, Show
    PROVE  BInv'
<1>1. /\ step = "show" /\ step' = "answer" /\ shown'.answers = Append(shown.answers, record)
      /\ UNCHANGED <<pos, left, dec, record, reply, runs, lost>>
  BY DEF Show, outside, QInv
<1>2. /\ shown.answers \in Seq(RecordType) /\ record \in RecordType
      /\ Done + 1 + left.answers = Word(reply, 6) /\ pos <= Cap(Done) + 11
  BY <1>1, Zenon DEF BInv, Typed, Placed
<1>3. /\ shown'.answers \in Seq(RecordType) /\ Len(shown'.answers) = Len(shown.answers) + 1
  <2>1. \A S : \A s \in Seq(S), x \in S : Append(s, x) \in Seq(S) /\ Len(Append(s, x)) = Len(s) + 1
    OBVIOUS
  <2> QED
    BY <1>1, <1>2, <2>1
<1>4. Done' = Done + 1
  BY <1>3 DEF Done
<1>5. Cap(Done)' = Cap(Done) + 11
  <2>1. Done \in Nat
    BY DoneIs DEF BInv
  <2>2. Cap(Done)' = Cap(Done + 1)
    BY <1>1, <1>4 DEF Cap
  <2> QED
    BY <2>1, <2>2, CapIs
<1>6. Typed'
  BY <1>1, <1>3 DEF Typed, BInv
<1>7. Placed'
  BY <1>1, <1>2, <1>4, <1>5 DEF Placed
<1> QED
  BY <1>6, <1>7 DEF BInv

LEMMA BInit ==
    ASSUME DNSInit
    PROVE  BInv
<1>1. /\ runs = 0 /\ lost = FALSE /\ pos = 0 /\ step = "down" /\ shown.answers = <<>>
      /\ dec = [at |-> 0, maxPos |-> 0, octets |-> 0, text |-> <<>>]
      /\ record = [name |-> <<>>, type |-> 0, data |-> <<>>]
  BY DEF DNSInit, NoDomain, NoRecord
<1>2. <<>> \in Seq(Octets) /\ <<>> \in Seq(RecordType) /\ 0 \in Octets
  BY DEF Octets
<1>3. dec \in DecType /\ record \in RecordType
  BY <1>1, <1>2 DEF DecType, RecordType
<1>4. 0 \in 0..MaxRuns /\ 0 <= Top
  BY MaxRunsAssumption DEF Top
<1>5. Typed
  BY <1>1, <1>2, <1>3, <1>4 DEF Typed
<1>6. Placed
  BY <1>1 DEF Placed
<1> QED
  BY <1>5, <1>6 DEF BInv

LEMMA BStep ==
    ASSUME NInv, QInv, BInv, [DNSNext]_dnsVars
    PROVE  BInv'
<1>1. CASE \E name \in DOMAIN Zone : Send(name)
  BY <1>1, BSend
<1>2. CASE Receive
  BY <1>2, BReceive
<1>3. CASE step' = "down" /\ lost' \in BOOLEAN /\ UNCHANGED <<runs, dec, pos, record, shown>>
  <2>1. Placed'
    BY <1>3 DEF Placed
  <2>2. Typed'
    BY <1>3 DEF Typed, BInv
  <2> QED
    BY <2>1, <2>2 DEF BInv
<1>4. CASE /\ lost' \in BOOLEAN
           /\ UNCHANGED <<step, reply, pos, left, dec, record, shown, runs>>
  <2>1. Placed'
    BY <1>4 DEF Placed, NamePlaced, Done, Cap, BInv
  <2>2. Typed'
    BY <1>4 DEF Typed, BInv
  <2> QED
    BY <2>1, <2>2 DEF BInv
<1>5. lost \in BOOLEAN
  BY DEF BInv, Typed
<1>6. CASE Interrupt
  BY <1>3, <1>5, <1>6 DEF Interrupt, End
<1>7. CASE Serving
  BY <1>4, <1>5, <1>7 DEF Serving, Serve
<1>8. CASE \E d \in network : Lose(d)
  BY <1>4, <1>8 DEF Lose
<1>9. CASE UNCHANGED dnsVars
  BY <1>4, <1>5, <1>9 DEF dnsVars
<1>10. CASE Finish
  BY <1>3, <1>5, <1>10 DEF Finish, End
<1>11. CASE Inner
  <2>1. Roomy
    BY <1>11, InnerStaysInside, ReplyIsRoomy
  <2>2. CASE QuestionsDone
    <3>1. /\ step = "question" /\ step' = "answer" /\ left.questions = 0
          /\ UNCHANGED <<pos, left, dec, record, shown, reply, runs, lost>>
      BY <2>2 DEF QuestionsDone, outside
    <3>2. shown.answers = <<>> /\ left.answers = Word(reply, 6) /\ pos = AnswerAt(reply, 1)
      BY <3>1 DEF Placed, BInv
    <3>3. Done = 0 /\ Done' = Done /\ Cap(Done)' = Cap(0) /\ Len(reply) <= Cap(0)
      BY <2>1, <3>1, <3>2 DEF Done, Cap, Roomy
    <3>4. Placed'
      BY <2>1, <3>1, <3>2, <3>3 DEF Placed, Roomy, Cap
    <3>5. Typed'
      BY <3>1 DEF Typed, BInv
    <3> QED
      BY <3>4, <3>5 DEF BInv
  <2> QED
    BY <1>11, <2>1, <2>2, BQuestion, BNextAnswer, BReading, BDone, BFields, BShow DEF Inner
<1> QED
  BY <1>1, <1>2, <1>6, <1>7, <1>8, <1>9, <1>10, <1>11 DEF DNSNext, Decode, Inner

LEMMA BTypes ==
    ASSUME NInv, QInv, BInv
    PROVE  DNSTypeOK
<1>1. pos \in 0..1023 /\ dec.at \in 0..1023 /\ dec.maxPos \in 0..1023
  <2>1. /\ pos \in Nat /\ pos <= Top /\ dec.at \in Nat /\ dec.at <= Top
        /\ dec.maxPos \in Nat /\ dec.maxPos <= Top
    BY DEF BInv, Typed, DecType
  <2>2. pos \in 0..Top /\ dec.at \in 0..Top /\ dec.maxPos \in 0..Top
    <3>1. Top \in Nat
      BY DEF Top
    <3> QED
      BY <2>1, <3>1
  <2> QED
    BY <2>2, SMT DEF Top
<1>2. dec.octets \in 0..255 /\ dec.text \in Seq(0..255)
  <2>1. dec.octets \in Octets /\ dec.text \in Seq(Octets)
    BY DEF BInv, Typed, DecType
  <2> QED
    BY <2>1, Zenon DEF Octets
<1>3. left \in [questions : 0..1, answers : 0..MaxWord]
  BY DEF QInv
<1>4. reply \in Replies \cup {<<>>} /\ \A d \in network : d.to \in {"server", "client"}
  BY DEF NInv, Replies, Asked, Replied
<1>5. /\ step \in {"down", "wait"} \cup Decoding /\ domain \in DOMAIN Zone \cup {<<>>}
      /\ runs \in 0..MaxRuns /\ lost \in BOOLEAN /\ abandoned \subseteq DOMAIN Zone
  BY Zenon DEF NInv, BInv, Typed
<1> QED
  BY <1>1, <1>2, <1>3, <1>4, <1>5, SMT DEF DNSTypeOK

-----------------------------------------------------------------------------
(* The answers.                                                            *)

\* The records up to the k-th are plain.
AllPlain(k) == 1..k \subseteq Plain[reply]

\* The record with no more than its name.
Named(k) == [name |-> Dotted(NameAt(reply, AnswerAt(reply, k))), type |-> 0, data |-> <<>>]

Alias(k) == [name |-> Dotted(NameAt(reply, AnswerAt(reply, k))), type |-> TypeCNAME, data |-> <<>>]

\* decodeDomain is in the name at p.
Reads(p) == /\ p \in Nat /\ Readable(reply, p)
            /\ step = "mask" => \E i : InMask(reply, p, dec, i)
            /\ step = "octets" => \E i : InOctets(reply, p, dec, i)

ReadsAlias(k, f) == /\ record = Alias(k) /\ f \in Nat /\ Word(reply, f) = TypeCNAME
                    /\ Reads(f + 10)

\* The k-th record in the making; f is where its fields start.
InRecord(k, p, f) ==
    /\ p \in Nat
    /\ step \in {"mask", "octets"} => \/ record = NoRecord /\ Reads(p)
                                      \/ ReadsAlias(k, f)
    /\ step = "fields" => record = Named(k) /\ pos = f
    /\ step = "show" => record = Answer(reply, k) /\ pos = AnswerAt(reply, k + 1)

FieldsAt(k) == AfterName(reply, AnswerAt(reply, k))

CInv == /\ \A k \in 1..Done : AllPlain(k) => shown.answers[k] = Answer(reply, k)
        /\ step = "answer" /\ AllPlain(Done) => pos = AnswerAt(reply, Done + 1)
        /\ step \in {"mask", "octets", "fields", "show"} /\ AllPlain(Done + 1)
              => InRecord(Done + 1, AnswerAt(reply, Done + 1), FieldsAt(Done + 1))

\* What a plain record has.
PlainOne(k, p, f) ==
    /\ Readable(reply, p) /\ Word(reply, f) \in {TypeA, TypeCNAME}
    /\ Word(reply, f) = TypeA => /\ Word(reply, f + 2) = 1 /\ Word(reply, f + 8) = 4
                                 /\ f + 14 <= Len(reply)
    /\ Word(reply, f) = TypeCNAME => /\ Readable(reply, f + 10)
                                     /\ AfterName(reply, f + 10) = f + 10 + Word(reply, f + 8)
    /\ AnswerAt(reply, k + 1) = f + 10 + Word(reply, f + 8)

LEMMA PlainIs ==
    ASSUME NInv, step \in Decoding, NEW k \in Nat, AllPlain(k + 1)
    PROVE  AllPlain(k) /\ PlainOne(k + 1, AnswerAt(reply, k + 1), FieldsAt(k + 1))
<1> DEFINE m == k + 1
           p == AnswerAt(reply, m)
           f == AfterName(reply, p)
<1>1. Roomy /\ \E name \in DOMAIN Zone : reply = Zone[name] /\ NameAt(reply, 12) = name
  BY ReplyIsRoomy
<1>2. PICK name \in DOMAIN Zone : reply = Zone[name]
  BY <1>1
<1>3. reply \in Replies
  BY <1>2 DEF Replies
<1>4. m \in 1..m /\ \A j \in 1..k : j \in 1..m
  OBVIOUS
<1>5. Plain[reply] = {j \in 1..Word(reply, 6) : PlainRecord(reply, j)}
  BY <1>3 DEF Plain
<1>6. m \in 1..Word(reply, 6) /\ PlainRecord(reply, m)
  BY <1>4, <1>5 DEF AllPlain
<1>7. AllPlain(k)
  BY <1>4 DEF AllPlain
<1>8. \A j \in 1..Word(reply, 6) : WrittenRecord(reply, AnswerAt(reply, j))
  <2>1. WrittenReply(reply, name)
    BY <1>2, ZoneFacts
  <2> QED
    BY <2>1, Zenon DEF WrittenReply
<1>9. WrittenRecord(reply, p)
  BY <1>6, <1>8
<1>10. AnswerAt(reply, m + 1) = AnswerAfter(reply, p)
  BY <1>1, <1>6, AnswerAtIs DEF Roomy
<1> HIDE DEF m, p, f
<1>11. /\ WrittenName(reply, p)
       /\ Word(reply, f) = TypeA => /\ Word(reply, f + 2) = 1 /\ Word(reply, f + 8) = 4
                                    /\ f + 14 <= Len(reply)
       /\ Word(reply, f) = TypeCNAME => /\ WrittenName(reply, f + 10)
                                        /\ AfterName(reply, f + 10) = f + 10 + Word(reply, f + 8)
  BY <1>9 DEF WrittenRecord, f
<1>12. /\ PlainName(reply, p) /\ Word(reply, f) \in {TypeA, TypeCNAME}
       /\ Word(reply, f) = TypeCNAME => PlainName(reply, f + 10)
  BY <1>6, Zenon DEF PlainRecord, p, f
<1>13. AnswerAt(reply, m + 1) = f + 10 + Word(reply, f + 8)
  BY <1>10 DEF AnswerAfter, f
<1> QED
  BY <1>7, <1>11, <1>12, <1>13 DEF PlainOne, Readable, FieldsAt, m, p, f

\* Where decodeDomain starts.
LEMMA ReadStart ==
    ASSUME NEW msg \in Seq(Octets), NEW p \in Nat, Readable(msg, p), NEW d,
           d = [NoDomain EXCEPT !.at = p, !.maxPos = p]
    PROVE  \E i : InMask(msg, p, d, i)
<1>1. d.at = p /\ d.maxPos = p /\ d.text = <<>>
  BY DEF NoDomain
<1>2. /\ EndOf(msg, p) \in Nat /\ Trail(msg, p)[0] = p
      /\ LabelsTo(msg, p)[0] = <<>> /\ TextTo(msg, p, 0) = <<>>
      /\ \E i \in 0..(EndOf(msg, p) - 1) : ~IsPointer(Byte(msg, Trail(msg, p)[i]))
  BY ReadableFacts, Zenon
<1>3. 0 \in 0..(EndOf(msg, p) - 1)
  BY <1>2
<1>4. 0..(0 - 1) = {} /\ Len(<<>>) = 0
  OBVIOUS
<1>5. InMask(msg, p, d, 0)
  BY <1>1, <1>2, <1>3, <1>4 DEF InMask
<1> QED
  BY <1>5

\* The steps of decodeDomain, as one.
LEMMA ReadsOn ==
    ASSUME Roomy, dec \in DecType, NEW p, Reads(p),
           SkipMasked \/ FirstLabel \/ CopyOctet \/ FollowPointer \/ NextLabel
    PROVE  Reads(p)' /\ step' \in {"mask", "octets"} /\ UNCHANGED <<record, shown, reply, pos>>
<1>1. reply \in Seq(Octets) /\ p \in Nat /\ Readable(reply, p)
  BY DEF Roomy, Reads
<1>2. CASE SkipMasked
  <2>1. /\ step = "mask" /\ step' = "mask" /\ UNCHANGED <<record, shown, reply, pos>>
    BY <1>2 DEF SkipMasked, outside
  <2>2. PICK i : InMask(reply, p, dec, i)
    BY <2>1 DEF Reads
  <2>3. InMask(reply, p, dec', i + 1)
    BY <1>1, <1>2, <2>2, ReadMasked
  <2> QED
    BY <1>1, <2>1, <2>3 DEF Reads
<1>3. CASE FirstLabel
  <2>1. /\ step = "mask" /\ step' = "octets" /\ UNCHANGED <<record, shown, reply, pos>>
    BY <1>3 DEF FirstLabel, outside
  <2>2. PICK i : InMask(reply, p, dec, i)
    BY <2>1 DEF Reads
  <2>3. InOctets(reply, p, dec', i + 1)
    BY <1>1, <1>3, <2>2, ReadFirst
  <2> QED
    BY <1>1, <2>1, <2>3 DEF Reads
<1>4. CASE CopyOctet \/ FollowPointer \/ NextLabel
  <2>1. /\ step = "octets" /\ step' = "octets" /\ UNCHANGED <<record, shown, reply, pos>>
    BY <1>4 DEF CopyOctet, FollowPointer, NextLabel, Octet, outside
  <2>2. PICK i : InOctets(reply, p, dec, i)
    BY <2>1 DEF Reads
  <2>3. InOctets(reply, p, dec', i) \/ InOctets(reply, p, dec', i + 1)
    BY <1>1, <1>4, <2>2, ReadCopied, ReadPointer, ReadLabel
  <2> QED
    BY <1>1, <2>1, <2>3 DEF Reads
<1> QED
  BY <1>2, <1>3, <1>4

\* What was shown stays right while the reply is the same.
Right == \A k \in 1..Done : AllPlain(k) => shown.answers[k] = Answer(reply, k)

LEMMA StaysRight ==
    ASSUME Right, reply' = reply, shown'.answers = shown.answers
    PROVE  Right' /\ Done' = Done /\ \A k : AllPlain(k)' <=> AllPlain(k)
<1>1. \A k : AllPlain(k)' <=> AllPlain(k)
  BY DEF AllPlain
<1>2. Done' = Done
  BY DEF Done
<1> QED
  BY <1>1, <1>2 DEF Right

LEMMA CNextAnswer ==
    ASSUME NInv, QInv, BInv, CInv, NextAnswer
    PROVE  CInv'
<1>1. /\ step = "answer" /\ step' = "mask" /\ UNCHANGED <<pos, shown, reply>>
      /\ record' = NoRecord /\ dec' = [NoDomain EXCEPT !.at = pos, !.maxPos = pos]
  BY DEF NextAnswer, AtDomain, outside
<1>2. step \in Decoding /\ Roomy /\ Done \in Nat /\ pos \in Nat
  BY <1>1, ReplyIsRoomy, DoneIs DEF Decoding, BInv, Typed
<1>3. Right' /\ Done' = Done /\ \A k : AllPlain(k)' <=> AllPlain(k)
  BY <1>1, StaysRight DEF CInv, Right
<1> DEFINE p == AnswerAt(reply, Done + 1)
<1>4. ASSUME AllPlain(Done + 1) PROVE pos = p /\ Reads(pos)'
  <2>1. AllPlain(Done) /\ PlainOne(Done + 1, p, FieldsAt(Done + 1))
    BY <1>2, <1>4, PlainIs
  <2>2. pos = p
    BY <1>1, <2>1 DEF CInv
  <2>3. Readable(reply, pos)
    BY <2>1, <2>2 DEF PlainOne
  <2>4. \E i : InMask(reply, pos, dec', i)
    BY <1>1, <1>2, <2>3, ReadStart DEF Roomy
  <2> QED
    BY <1>1, <1>2, <2>2, <2>3, <2>4 DEF Reads
<1>5. AllPlain(Done + 1) => InRecord(Done + 1, p, FieldsAt(Done + 1))'
  <2> SUFFICES ASSUME AllPlain(Done + 1) PROVE InRecord(Done + 1, p, FieldsAt(Done + 1))'
    OBVIOUS
  <2>1. p' = pos' /\ pos' \in Nat /\ Reads(p)'
    BY <1>1, <1>2, <1>3, <1>4
  <2> HIDE DEF p
  <2> QED
    BY <1>1, <2>1 DEF InRecord
<1> QED
  BY <1>1, <1>3, <1>5 DEF CInv, Right

LEMMA CReading ==
    ASSUME NInv, QInv, BInv, CInv,
           SkipMasked \/ FirstLabel \/ CopyOctet \/ FollowPointer \/ NextLabel
    PROVE  CInv'
<1>1. /\ step \in {"mask", "octets"} /\ step' \in {"mask", "octets"}
      /\ UNCHANGED <<shown, reply, record>>
  BY DEF SkipMasked, FirstLabel, CopyOctet, FollowPointer, NextLabel, Octet, outside
<1>2. step \in Decoding /\ Roomy /\ dec \in DecType
  BY <1>1, ReplyIsRoomy DEF Decoding, BInv, Typed
<1>3. Right' /\ Done' = Done /\ \A k : AllPlain(k)' <=> AllPlain(k)
  BY <1>1, StaysRight DEF CInv, Right
<1>4. \A p : Reads(p) => Reads(p)'
  BY <1>2, ReadsOn
<1> DEFINE k == Done + 1
           p == AnswerAt(reply, k)
           f == FieldsAt(k)
<1>5. k' = k /\ p' = p /\ f' = f /\ Alias(k)' = Alias(k)
  BY <1>1, <1>3 DEF FieldsAt, Alias
<1>6. AllPlain(k) => p \in Nat /\ ((record = NoRecord /\ Reads(p)) \/ ReadsAlias(k, f))
  BY <1>1, Zenon DEF CInv, InRecord
<1> HIDE DEF k, p, f
<1>7. ReadsAlias(k, f) => ReadsAlias(k, f)'
  BY <1>1, <1>4, <1>5 DEF ReadsAlias
<1>8. AllPlain(k)' => InRecord(k, p, f)'
  <2>1. AllPlain(k)' <=> AllPlain(k)
    BY <1>3, <1>5
  <2>2. Reads(p) => Reads(p)'
    BY <1>4, <1>5
  <2> QED
    BY <1>1, <1>5, <1>6, <1>7, <2>1, <2>2 DEF InRecord
<1> QED
  BY <1>1, <1>3, <1>8 DEF CInv, Right, k, p, f

LEMMA CDone ==
    ASSUME NInv, QInv, BInv, CInv, DomainDone
    PROVE  CInv'
<1>1. /\ step = "octets" /\ Byte(reply, dec.at) = 0 /\ pos' = dec.maxPos + 1
      /\ UNCHANGED <<shown, reply>>
      /\ IF record.type = 0
         THEN step' = "fields" /\ record' = [record EXCEPT !.name = dec.text]
         ELSE step' = "show" /\ record' = [record EXCEPT !.data = dec.text]
  BY DEF DomainDone, outside, B
<1>2. step \in Decoding /\ Roomy /\ dec \in DecType /\ Done \in Nat
  BY <1>1, ReplyIsRoomy, DoneIs DEF Decoding, BInv, Typed
<1>3. Right' /\ Done' = Done /\ \A j : AllPlain(j)' <=> AllPlain(j)
  BY <1>1, StaysRight DEF CInv, Right
<1>4. \A q : Reads(q) => dec.text = Dotted(NameAt(reply, q)) /\ dec.maxPos + 1 = AfterName(reply, q)
  <2> SUFFICES ASSUME NEW q, Reads(q)
               PROVE  dec.text = Dotted(NameAt(reply, q)) /\ dec.maxPos + 1 = AfterName(reply, q)
    OBVIOUS
  <2>1. PICK i : InOctets(reply, q, dec, i)
    BY <1>1 DEF Reads
  <2> QED
    BY <1>1, <1>2, <2>1, ReadDone DEF Reads, Roomy
<1> DEFINE k == Done + 1
           p == AnswerAt(reply, k)
           f == FieldsAt(k)
<1>5. k' = k /\ p' = p /\ f' = f /\ Named(k)' = Named(k) /\ Answer(reply, k)' = Answer(reply, k)
      /\ AnswerAt(reply, k + 1)' = AnswerAt(reply, k + 1)
  BY <1>1, <1>3 DEF FieldsAt, Named
<1>6. ASSUME AllPlain(k) PROVE InRecord(k, p, f)'
  <2>1. PlainOne(k, p, f)
    BY <1>2, <1>6, PlainIs
  <2>2. p \in Nat /\ ((record = NoRecord /\ Reads(p)) \/ ReadsAlias(k, f))
    BY <1>1, <1>6, Zenon DEF CInv, InRecord
  <2>3. f = AfterName(reply, p)
    BY DEF FieldsAt
  <2>4. Named(k) = [name |-> Dotted(NameAt(reply, p)), type |-> 0, data |-> <<>>]
        /\ Alias(k) = [name |-> Dotted(NameAt(reply, p)), type |-> TypeCNAME, data |-> <<>>]
    BY DEF Named, Alias
  <2>5. Word(reply, f) = TypeCNAME =>
           Answer(reply, k) = [name |-> Dotted(NameAt(reply, p)), type |-> TypeCNAME,
                               data |-> Dotted(NameAt(reply, f + 10))]
    BY <2>3 DEF Answer
  <2> HIDE DEF k, p, f
  <2>6. CASE record = NoRecord /\ Reads(p)
    <3>1. /\ step' = "fields" /\ record' = [name |-> dec.text, type |-> 0, data |-> <<>>]
      BY <1>1, <2>6 DEF NoRecord
    <3>2. record' = Named(k) /\ pos' = f
      BY <1>1, <1>4, <2>3, <2>4, <2>6, <3>1
    <3> QED
      BY <1>5, <2>2, <3>1, <3>2 DEF InRecord
  <2>7. CASE ReadsAlias(k, f)
    <3>1. record = Alias(k) /\ Word(reply, f) = TypeCNAME /\ Reads(f + 10)
      BY <2>7 DEF ReadsAlias
    <3>2. /\ step' = "show"
          /\ record' = [name |-> Dotted(NameAt(reply, p)), type |-> TypeCNAME, data |-> dec.text]
      BY <1>1, <2>4, <3>1 DEF TypeCNAME
    <3>3. record' = Answer(reply, k)
      BY <1>4, <2>5, <3>1, <3>2
    <3>4. pos' = AnswerAt(reply, k + 1)
      BY <1>1, <1>4, <2>1, <3>1 DEF PlainOne
    <3> QED
      BY <1>5, <2>2, <3>2, <3>3, <3>4 DEF InRecord
  <2> QED
    BY <2>2, <2>6, <2>7
<1> HIDE DEF k, p, f
<1>7. AllPlain(k)' => InRecord(k, p, f)'
  BY <1>3, <1>5, <1>6
<1>8. step' # "answer"
  BY <1>1
<1> QED
  BY <1>3, <1>7, <1>8 DEF CInv, Right, k, p, f

\* The four bytes of an address.
LEMMA AddressIs ==
    ASSUME reply \in Seq(Octets), NEW f \in Nat, f + 14 <= Len(reply)
    PROVE  [i \in 1..4 |-> B(f + 9 + i)] = SubSeq(reply, f + 11, f + 10 + 4)
<1>1. Len(reply) \in Nat /\ \A i \in 1..4 : f + 9 + i < Len(reply) /\ (f + 9 + i) + 1 = (f + 11) + i - 1
  OBVIOUS
<1>2. \A i \in 1..4 : B(f + 9 + i) = reply[(f + 11) + i - 1]
  BY <1>1 DEF B, Byte
<1> DEFINE s == SubSeq(reply, f + 11, f + 14)
           r == [i \in 1..4 |-> B(f + 9 + i)]
<1>3. s = [i \in 1..((f + 14) - (f + 11) + 1) |-> reply[(f + 11) + i - 1]]
  OBVIOUS
<1>4. (f + 14) - (f + 11) + 1 = 4 /\ f + 10 + 4 = f + 14
  OBVIOUS
<1>5. s = [i \in 1..4 |-> reply[(f + 11) + i - 1]]
  BY <1>3, <1>4
<1> QED
  BY <1>2, <1>4, <1>5

LEMMA CFields ==
    ASSUME NInv, QInv, BInv, CInv, Fields
    PROVE  CInv'
<1> DEFINE type == Word(reply, pos)
           isA  == type = TypeA /\ Word(reply, pos + 2) = 1
           four == [i \in 1..4 |-> B(pos + 9 + i)]
<1>1. /\ step = "fields" /\ UNCHANGED <<shown, reply>>
      /\ pos' = pos + 10 + (IF isA THEN 4 ELSE 0)
      /\ record' = [record EXCEPT !.type = type, !.data = IF isA THEN four ELSE @]
      /\ IF type = TypeCNAME
         THEN step' = "mask" /\ dec' = [NoDomain EXCEPT !.at = pos + 10, !.maxPos = pos + 10]
         ELSE step' = "show"
  BY DEF Fields, AtDomain, outside
<1>2. step \in Decoding /\ Roomy /\ Done \in Nat /\ pos \in Nat
  BY <1>1, ReplyIsRoomy, DoneIs DEF Decoding, BInv, Typed
<1>3. Right' /\ Done' = Done /\ \A j : AllPlain(j)' <=> AllPlain(j)
  BY <1>1, StaysRight DEF CInv, Right
<1> DEFINE k == Done + 1
           p == AnswerAt(reply, k)
           f == FieldsAt(k)
<1>4. k' = k /\ p' = p /\ f' = f /\ Alias(k)' = Alias(k) /\ Answer(reply, k)' = Answer(reply, k)
      /\ AnswerAt(reply, k + 1)' = AnswerAt(reply, k + 1)
  BY <1>1, <1>3 DEF FieldsAt, Alias
<1>5. ASSUME AllPlain(k) PROVE InRecord(k, p, f)'
  <2>1. PlainOne(k, p, f)
    BY <1>2, <1>5, PlainIs
  <2>2. p \in Nat /\ record = Named(k) /\ pos = f
    BY <1>1, <1>5, Zenon DEF CInv, InRecord
  <2>3. f = AfterName(reply, p)
    BY DEF FieldsAt
  <2>4. Named(k) = [name |-> Dotted(NameAt(reply, p)), type |-> 0, data |-> <<>>]
        /\ Alias(k) = [name |-> Dotted(NameAt(reply, p)), type |-> TypeCNAME, data |-> <<>>]
    BY DEF Named, Alias
  <2>5. Answer(reply, k) =
           [name |-> Dotted(NameAt(reply, p)), type |-> Word(reply, f),
            data |-> IF Word(reply, f) = TypeCNAME THEN Dotted(NameAt(reply, f + 10))
                     ELSE SubSeq(reply, f + 11, f + 10 + Word(reply, f + 8))]
    BY <2>3 DEF Answer
  <2>6. type = Word(reply, f) /\ four = [i \in 1..4 |-> B(f + 9 + i)]
    BY <2>2
  <2>7. (isA <=> Word(reply, f) = TypeA) /\ (type \in {TypeA, TypeCNAME})
    BY <2>1, <2>2 DEF PlainOne
  <2> HIDE DEF k, p, f, type, isA, four
  <2>8. CASE type = TypeA
    <3>1. isA /\ type # TypeCNAME
      BY <2>6, <2>7, <2>8 DEF TypeA, TypeCNAME
    <3>2. step' = "show" /\ pos' = pos + 10 + 4
          /\ record' = [name |-> Dotted(NameAt(reply, p)), type |-> type, data |-> four]
      <4>1. step' = "show" /\ pos' = pos + 10 + 4
        BY <1>1, <3>1
      <4>2. record' = [record EXCEPT !.type = type, !.data = four]
        BY <1>1, <3>1
      <4>3. record = [name |-> Dotted(NameAt(reply, p)), type |-> 0, data |-> <<>>]
        BY <2>2, <2>4
      <4> QED
        BY <4>1, <4>2, <4>3
    <3>3. Word(reply, f + 8) = 4 /\ f + 14 <= Len(reply) /\ AnswerAt(reply, k + 1) = f + 10 + 4
      BY <2>1, <2>6, <2>8 DEF PlainOne
    <3>4. four = SubSeq(reply, f + 11, f + 10 + 4)
      BY <1>2, <2>2, <2>6, <3>3, AddressIs DEF Roomy
    <3>5. record' = Answer(reply, k)
      BY <2>5, <2>6, <3>1, <3>2, <3>3, <3>4
    <3> QED
      BY <1>4, <2>2, <3>2, <3>3, <3>5 DEF InRecord
  <2>9. CASE type = TypeCNAME
    <3>1. ~isA
      BY <2>6, <2>7, <2>9 DEF TypeA, TypeCNAME
    <3>2. /\ step' = "mask" /\ record' = Alias(k)
          /\ dec' = [NoDomain EXCEPT !.at = f + 10, !.maxPos = f + 10]
      <4>1. /\ step' = "mask"
            /\ dec' = [NoDomain EXCEPT !.at = f + 10, !.maxPos = f + 10]
        BY <1>1, <2>2, <2>9
      <4>2. record' = [record EXCEPT !.type = type, !.data = record.data]
        BY <1>1, <3>1
      <4>3. record = [name |-> Dotted(NameAt(reply, p)), type |-> 0, data |-> <<>>]
        BY <2>2, <2>4
      <4>4. record' = [name |-> Dotted(NameAt(reply, p)), type |-> type, data |-> <<>>]
        BY <4>2, <4>3
      <4> QED
        BY <2>4, <2>9, <4>1, <4>4
    <3>3. Readable(reply, f + 10) /\ f + 10 \in Nat
      BY <1>2, <2>1, <2>2, <2>6, <2>9 DEF PlainOne
    <3>4. \E i : InMask(reply, f + 10, dec', i)
      BY <1>2, <3>2, <3>3, ReadStart DEF Roomy
    <3>5. Reads(f + 10)'
      BY <1>1, <1>4, <3>2, <3>3, <3>4 DEF Reads
    <3>6. ReadsAlias(k, f)'
      BY <1>1, <1>2, <1>4, <2>2, <2>6, <2>9, <3>2, <3>5 DEF ReadsAlias
    <3> QED
      BY <1>4, <2>2, <3>2, <3>6 DEF InRecord
  <2> QED
    BY <2>7, <2>8, <2>9
<1> HIDE DEF k, p, f
<1>6. AllPlain(k)' => InRecord(k, p, f)'
  BY <1>3, <1>4, <1>5
<1>7. step' # "answer"
  BY <1>1
<1> QED
  BY <1>3, <1>6, <1>7 DEF CInv, Right, k, p, f

LEMMA CShow ==
    ASSUME NInv, QInv, BInv, CInv, Show
    PROVE  CInv'
<1>1. /\ step = "show" /\ step' = "answer" /\ shown'.answers = Append(shown.answers, record)
      /\ UNCHANGED <<pos, reply>>
  BY DEF Show, outside, QInv
<1>2. step \in Decoding /\ Done \in Nat /\ shown.answers \in Seq(RecordType) /\ record \in RecordType
  BY <1>1, DoneIs DEF Decoding, BInv, Typed
<1>3. /\ Len(shown'.answers) = Len(shown.answers) + 1
      /\ \A i \in 1..Len(shown.answers) : shown'.answers[i] = shown.answers[i]
      /\ shown'.answers[Len(shown.answers) + 1] = record
  <2> DEFINE s == shown.answers
  <2>1. s \in Seq(RecordType) /\ record \in RecordType /\ shown'.answers = Append(s, record)
    BY <1>1, <1>2
  <2> HIDE DEF s
  <2>2. /\ Len(Append(s, record)) = Len(s) + 1
        /\ \A i \in 1..Len(s) : Append(s, record)[i] = s[i]
        /\ Append(s, record)[Len(s) + 1] = record
    BY <2>1
  <2> QED
    BY <2>1, <2>2 DEF s
<1>4. Done' = Done + 1 /\ (\A i \in 1..Done : shown'.answers[i] = shown.answers[i])
      /\ shown'.answers[Done + 1] = record
  BY <1>3 DEF Done
<1>5. \A j : AllPlain(j)' <=> AllPlain(j)
  BY <1>1 DEF AllPlain
<1>6. AllPlain(Done + 1) => /\ record = Answer(reply, Done + 1)
                            /\ pos = AnswerAt(reply, Done + 1 + 1)
  BY <1>1 DEF CInv, InRecord
<1>7. \A i \in 1..(Done + 1) : i \in 1..Done \/ i = Done + 1
  BY <1>2
<1>8. \A i \in 1..Done' : AllPlain(i)' => shown'.answers[i] = Answer(reply', i)
  BY <1>1, <1>4, <1>5, <1>6, <1>7 DEF CInv
<1>9. AllPlain(Done)' => pos' = AnswerAt(reply', Done' + 1)
  BY <1>1, <1>4, <1>5, <1>6 DEF AllPlain
<1> QED
  BY <1>1, <1>8, <1>9 DEF CInv

LEMMA CInit ==
    ASSUME DNSInit
    PROVE  CInv
<1>1. step = "down" /\ Len(<<>>) = 0 /\ shown.answers = <<>> /\ 1..0 = {}
  BY DEF DNSInit
<1>2. 1..Done = {}
  BY <1>1 DEF Done
<1> QED
  BY <1>1, <1>2 DEF CInv

LEMMA CStep ==
    ASSUME NInv, QInv, BInv, CInv, [DNSNext]_dnsVars
    PROVE  CInv'
<1>1. CASE step' \in {"down", "wait", "question"} /\ reply' = reply /\ shown'.answers = shown.answers
  <2>1. Right'
    BY <1>1, StaysRight DEF CInv, Right
  <2> QED
    BY <1>1, <2>1 DEF CInv, Right
<1>2. CASE step' \in {"down", "wait", "question"} /\ shown'.answers = <<>>
  <2>1. Done' = 0 /\ 1..0 = {}
    BY <1>2 DEF Done
  <2> QED
    BY <1>2, <2>1 DEF CInv
<1>3. CASE UNCHANGED <<step, reply, pos, dec, record, shown>>
  <2>1. Right' /\ Done' = Done /\ \A k : AllPlain(k)' <=> AllPlain(k)
    BY <1>3, StaysRight DEF CInv, Right
  <2>2. \A p : Reads(p)' <=> Reads(p)
    BY <1>3 DEF Reads
  <2>3. \A k, p, f : InRecord(k, p, f)' <=> InRecord(k, p, f)
    BY <1>3, <2>2 DEF InRecord, ReadsAlias, Alias, Named
  <2>4. FieldsAt(Done + 1)' = FieldsAt(Done + 1)
    BY <1>3, <2>1 DEF FieldsAt
  <2> QED
    BY <1>3, <2>1, <2>3, <2>4 DEF CInv, Right
<1>4. CASE \E name \in DOMAIN Zone : Send(name)
  BY <1>2, <1>4 DEF Send
<1>5. CASE Receive
  <2>1. step = "wait" /\ step' = "question" /\ shown' = shown
    BY <1>5 DEF Receive
  <2>2. shown.answers = <<>>
    BY <2>1 DEF QInv
  <2> QED
    BY <1>2, <2>1, <2>2
<1>6. CASE Interrupt \/ Finish
  BY <1>1, <1>6 DEF Interrupt, Finish, End
<1>7. CASE Serving
  BY <1>3, <1>7 DEF Serving, Serve
<1>8. CASE \E d \in network : Lose(d)
  BY <1>3, <1>8 DEF Lose
<1>9. CASE UNCHANGED dnsVars
  BY <1>3, <1>9 DEF dnsVars
<1>10. CASE Question
  BY <1>1, <1>10 DEF Question, outside, QInv
<1>11. CASE QuestionsDone
  <2>1. /\ step = "question" /\ step' = "answer" /\ left.questions = 0
        /\ UNCHANGED <<pos, shown, reply>>
    BY <1>11 DEF QuestionsDone, outside
  <2>2. shown.answers = <<>> /\ pos = AnswerAt(reply, 1)
    BY <2>1 DEF Placed, BInv
  <2>3. Done' = 0 /\ 1..0 = {} /\ 0 + 1 = 1
    BY <2>1, <2>2 DEF Done
  <2>4. pos' = AnswerAt(reply, 1)'
    BY <2>1, <2>2
  <2> QED
    BY <2>1, <2>3, <2>4 DEF CInv
<1> QED
  BY <1>4, <1>5, <1>6, <1>7, <1>8, <1>9, <1>10, <1>11, CNextAnswer, CReading, CDone, CFields, CShow
  DEF DNSNext, Decode

\* Of the zone's replies, whatever they are: what was printed is what the server said,
\* record by record, while the records are plain; and no variable leaves its type, the
\* position its buffer in particular, however the names' pointers lead.
THEOREM PrintedAnswersAreTheServers ==
    DNSSpec => []AnswersAreTheServers
<1>1. DNSInit => NInv /\ QInv /\ BInv /\ CInv
  BY NInit, QInit, BInit, CInit
<1>2. (NInv /\ QInv /\ BInv /\ CInv) /\ [DNSNext]_dnsVars => (NInv /\ QInv /\ BInv /\ CInv)'
  BY NStep, QStep, BStep, CStep
<1>3. NInv /\ QInv /\ BInv /\ CInv => AnswersAreTheServers
  <2> SUFFICES ASSUME NInv, QInv, BInv, CInv PROVE AnswersAreTheServers
    OBVIOUS
  <2>1. \A k \in 1..Done : AllPlain(k) => shown.answers[k] = Answer(reply, k)
    BY DEF CInv
  <2> QED
    BY <2>1, BTypes, Zenon DEF AnswersAreTheServers, Done, AllPlain
<1> QED
  BY <1>1, <1>2, <1>3, PTL DEF DNSSpec
=============================================================================
