------------------------------ MODULE Reassembly ------------------------------
(***************************************************************************)
(* networks/overview/parsecap.c: read a capture packet by packet, collect  *)
(* the TCP payloads from port 80, sort them by sequence number and write   *)
(* what follows the HTTP header to image.jpg.                              *)
(*                                                                         *)
(* The capture is chosen as it is read.  It holds segments of the servers' *)
(* streams in any order, lost, repeated or cut anew by a retransmission,   *)
(* or packets of another format, and the file may end anywhere.  A byte is *)
(* the pair of its connection and its position; a CRLFCRLF is one byte.    *)
(***************************************************************************)
EXTENDS Naturals, Sequences, FiniteSets

CONSTANTS Conn,      \* connections to port 80 in the capture
          StreamLen, \* length of a stream
          HeaderLen, \* length of its HTTP header with the delimiter
          InBody,    \* positions of further CRLFCRLFs, in the body
          Nuls,      \* positions of bytes 0, in the body
          Modulus,    \* sequence numbers are modulo Modulus (2^32 in the code)
          Isns,      \* initial sequence numbers, as functions of the connection
          MaxNodes,  \* bound on the payloads in a capture
          None       \* no packet yet

ASSUME SizeAssumption ==
    /\ Modulus \in Nat \ {0} /\ StreamLen \in 0..(Modulus - 1)
    /\ HeaderLen \in 1..StreamLen
    /\ InBody \cup Nuls \subseteq (HeaderLen + 1)..StreamLen /\ InBody \cap Nuls = {}
    /\ Isns \subseteq [Conn -> 0..(Modulus - 1)]

VARIABLES pc,      \* "read", "write", "done", or the exit code of a bad capture
          isn,     \* the connections' initial sequence numbers
          format,  \* etherType and transportProtocol of the first packet
          ended,   \* the file ends inside the last payload
          nodes,   \* the list of payloads, as sortedPayloads holds them
          pending, \* indexes of nodes not yet taken in sorted order
          prevSequenceNumber,
          image    \* bytes written to image.jpg

vars == <<pc, isn, format, ended, nodes, pending, prevSequenceNumber, image>>

TCP     == <<"IPv4", "TCP">>
Formats == {"IPv4", "IPv6"} \X {"TCP", "UDP"}
ASSUME FormatAssumption == None \notin Formats
Zero    == <<None, 0>>  \* a byte of the calloced payload that was not read
Foreign == <<None, StreamLen + 1>>  \* what another protocol has for a payload
Bytes   == (Conn \X (1..StreamLen)) \cup {Zero, Foreign}

Init == /\ pc = "read"
        /\ isn \in Isns
        /\ format = None
        /\ ended = FALSE
        /\ nodes = <<>>
        /\ pending = {}
        /\ prevSequenceNumber = 0
        /\ image = <<>>

-----------------------------------------------------------------------------
(* The loop over the packets                                               *)

\* etherType and transportProtocol are those of the first packet.
Accepts(f) == format \in {None, f}

\* Captured and original length differ.
Truncated == /\ pc = "read" /\ ~ended
             /\ pc' = "CAPTURE_TRUNCATED"
             /\ UNCHANGED <<isn, format, ended, nodes, pending, prevSequenceNumber, image>>

Mismatch(f) == /\ pc = "read" /\ ~ended
               /\ ~Accepts(f)
               /\ pc' = "CAPTURE_INVALID"
               /\ UNCHANGED <<isn, format, ended, nodes, pending, prevSequenceNumber, image>>

\* A packet without payload, or not from port 80, as the code reads its bytes.
OtherPacket(f) == /\ pc = "read" /\ ~ended
                  /\ Accepts(f)
                  /\ format' = f
                  /\ UNCHANGED <<pc, isn, ended, nodes, pending, prevSequenceNumber, image>>

SequenceNumber(c, i) == (isn[c] + i) % Modulus

\* Bytes first to last of the stream of c, of which the file holds those to end.
Segment(c, first, last, end) ==
    [sequenceNumber |-> SequenceNumber(c, first),
     data |-> [i \in 1..(last - first + 1) |->
                 IF first + i - 1 <= end THEN <<c, first + i - 1>> ELSE Zero]]

\* A packet that is not TCP over IPv4: its bytes are taken for a TCP header all
\* the same, and may say port 80, any sequence number and a payload.
OtherPayload(f, number) ==
    /\ pc = "read" /\ ~ended
    /\ f # TCP /\ Accepts(f)
    /\ Len(nodes) < MaxNodes
    /\ format' = f
    /\ nodes' = Append(nodes, [sequenceNumber |-> number, data |-> <<Foreign>>])
    /\ UNCHANGED <<pc, isn, ended, pending, prevSequenceNumber, image>>

Payload(c, first, last, end) ==
    /\ pc = "read" /\ ~ended
    /\ Accepts(TCP)
    /\ Len(nodes) < MaxNodes
    /\ format' = TCP
    /\ nodes' = Append(nodes, Segment(c, first, last, end))
    /\ ended' = (end < last)
    /\ UNCHANGED <<pc, isn, pending, prevSequenceNumber, image>>

\* A read returns 0, in whichever part of a packet.
EndOfFile == /\ pc = "read"
             /\ pc' = "write"
             /\ pending' = DOMAIN nodes
             /\ UNCHANGED <<isn, format, ended, nodes, prevSequenceNumber, image>>

-----------------------------------------------------------------------------
(* The sorted payloads, written one by one                                 *)

\* Mutant of Before: the results of the comparison are swapped.
BeforeSwapped(m, n) == m.sequenceNumber >= n.sequenceNumber

\* compareSequenceNumbers: m may be sorted before n.
Before(m, n) == m.sequenceNumber <= n.sequenceNumber

\* Mutant of Repeated: compared with the initial value only.
RepeatedInitial(n) == n.sequenceNumber = 0

\* Taken for a repetition of the one before it.
Repeated(n) == prevSequenceNumber = n.sequenceNumber

IsDelimiter(b) == b[2] \in {HeaderLen} \cup InBody
IsNul(b)       == b[2] \in {0} \cup Nuls

\* strstr finds the delimiter that ends at i: the first, with no byte 0 before it.
Found(n, i) == /\ i \in DOMAIN n.data /\ IsDelimiter(n.data[i])
               /\ \A j \in 1..(i - 1) : ~IsDelimiter(n.data[j]) /\ ~IsNul(n.data[j])

\* Mutant of Content: the header is looked for in every payload.
ContentOfAny(n) ==
    IF \E i \in DOMAIN n.data : Found(n, i)
    THEN SelectSeq(n.data, LAMBDA b : b[2] > HeaderLen) ELSE <<>>

\* What is written of payload n.  The first in sorted order begins after the
\* delimiter; without one strstr gives NULL and the write from there fails.
Content(n) ==
    IF Cardinality(pending) < Len(nodes) THEN n.data
    ELSE IF \E i \in DOMAIN n.data : Found(n, i)
    THEN LET at == CHOOSE i \in DOMAIN n.data : Found(n, i)
         IN  SubSeq(n.data, at + 1, Len(n.data))
    ELSE <<>>

Write(k) ==
    /\ pc = "write"
    /\ \A j \in pending : Before(nodes[k], nodes[j])
    /\ pending' = pending \ {k}
    /\ IF Repeated(nodes[k]) THEN UNCHANGED <<prevSequenceNumber, image>>
       ELSE /\ prevSequenceNumber' = nodes[k].sequenceNumber
            /\ image' = image \o Content(nodes[k])
    /\ UNCHANGED <<pc, isn, format, ended, nodes>>

Return == /\ pc = "write"
          /\ pending = {}
          /\ pc' = "done"
          /\ UNCHANGED <<isn, format, ended, nodes, pending, prevSequenceNumber, image>>

Next == \/ Truncated \/ EndOfFile \/ Return
        \/ \E f \in Formats : Mismatch(f) \/ OtherPacket(f)
        \/ \E f \in Formats, number \in 0..(Modulus - 1) : OtherPayload(f, number)
        \/ \E c \in Conn, first, last, end \in 1..StreamLen :
              first <= end /\ end <= last /\ Payload(c, first, last, end)
        \/ \E k \in pending : Write(k)

Spec == Init /\ [][Next]_vars

-----------------------------------------------------------------------------
\* Type invariant.
TypeOK ==
    /\ pc \in {"read", "write", "done", "CAPTURE_TRUNCATED", "CAPTURE_INVALID"}
    /\ isn \in Isns
    /\ format \in Formats \cup {None}
    /\ ended \in BOOLEAN
    /\ nodes \in Seq([sequenceNumber : 0..(Modulus - 1), data : Seq(Bytes)])
    /\ pending \subseteq DOMAIN nodes
    /\ prevSequenceNumber \in 0..(Modulus - 1)
    /\ image \in Seq(Bytes)

In(b, n)   == \E i \in DOMAIN n.data : n.data[i] = b
Captured(b) == \E k \in DOMAIN nodes : In(b, nodes[k])

\* Two payloads share bytes and are not the same segment.
Overlap == \E j, k \in DOMAIN nodes :
              nodes[j] # nodes[k] /\ \E b \in Bytes : In(b, nodes[j]) /\ In(b, nodes[k])

\* The numbers of a connection's captured bytes wrap.
Wrapped == \E c \in Conn, i \in 1..StreamLen : Captured(<<c, i>>) /\ isn[c] + i >= Modulus

\* The lowest byte captured is in a segment with the delimiter.
HeaderFirst(c) ==
    \E k \in DOMAIN nodes :
        /\ In(<<c, HeaderLen>>, nodes[k])
        /\ \A j \in 1..(HeaderLen - 1) : Captured(<<c, j>>) => In(<<c, j>>, nodes[k])

\* A capture of connection c alone that has no wrapped number, no partial overlap
\* and the whole header in one segment.
Clean(c) == /\ ~ended /\ ~Overlap /\ ~Wrapped /\ HeaderFirst(c)
            /\ \A d \in Conn \ {c}, i \in 1..StreamLen : ~Captured(<<d, i>>)

\* Reordered and repeated segments of one connection give the stream after the
\* header, all that was captured of it, nothing else and in order, if segments do
\* not overlap in part, no sequence number wraps, and one segment holds the whole
\* header.
StreamRestored ==
    \A c \in Conn : pc = "done" /\ Clean(c) =>
        /\ {image[j] : j \in DOMAIN image} =
             {b \in {c} \X ((HeaderLen + 1)..StreamLen) : Captured(b)}
        /\ \A j, k \in DOMAIN image : j < k => image[j][2] < image[k][2]

\* A byte comes twice only from segments of different sequence numbers that share
\* it, however the capture is ordered and wrapped.
TwiceOnlyFromOverlap ==
    \A i, j \in DOMAIN image :
        i # j /\ image[i] = image[j] /\ image[i] \notin {Zero, Foreign} =>
            \E k, l \in DOMAIN nodes :
                /\ nodes[k].sequenceNumber # nodes[l].sequenceNumber
                /\ In(image[i], nodes[k]) /\ In(image[i], nodes[l])

\* A byte captured is missing from the image only if it is of the header, or if
\* each segment with it has the number 0, shares its number with a different
\* segment, or has the lowest number and before the byte neither a delimiter nor
\* the end of what strstr looks at.
MissingCauses ==
    pc = "done" => \A k \in DOMAIN nodes, i \in 1..StreamLen, c \in Conn :
        In(<<c, i>>, nodes[k]) /\ ~(\E j \in DOMAIN image : image[j] = <<c, i>>) =>
            LET n == nodes[k]
            IN  \/ i <= HeaderLen
                \/ n.sequenceNumber = 0
                \/ \E m \in DOMAIN nodes : /\ nodes[m].sequenceNumber = n.sequenceNumber
                                              /\ nodes[m] # n
                \/ /\ \A m \in DOMAIN nodes : Before(n, nodes[m])
                   /\ \A j \in DOMAIN n.data :
                         n.data[j] = <<c, i>> => \A h \in 1..(j - 1) : ~Found(n, h)
=============================================================================
