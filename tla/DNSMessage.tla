------------------------------ MODULE DNSMessage ------------------------------
(***************************************************************************)
(* DNS messages as RFC 1035 has them: what servers write and what a        *)
(* message means.  External to the client of networks/dns-prework, whose   *)
(* own reading of the same bytes is DNSClient.  A message is a sequence of *)
(* bytes; positions count from 0, and past its end the client's buffer of  *)
(* 1024 holds zeros.                                                       *)
(***************************************************************************)
EXTENDS Integers, Sequences, SequencesExt

TypeA     == 1
TypeCNAME == 5

Byte(msg, p) == IF p < Len(msg) THEN msg[p + 1] ELSE 0
Word(msg, p) == 256 * Byte(msg, p) + Byte(msg, p + 1)
MaxWord      == 65535
ToWord(n)    == <<n \div 256, n % 256>>

Pointer(p)    == ToWord(49152 + p)
Labels(name)  == FlattenSeq([i \in DOMAIN name |-> <<Len(name[i])>> \o name[i]])
Plainly(name) == Labels(name) \o <<0>>

\* The texts of the first labels of a name, none to all, with a dot (46) between.
DottedTo(name) ==
    LET text[i \in 0..Len(name)] ==
          IF i = 0 THEN <<>>
          ELSE text[i - 1] \o (IF i = 1 THEN <<>> ELSE <<46>>) \o name[i]
    IN  text

Dotted(name) == DottedTo(name)[Len(name)]

IsPointer(b)   == b >= 192
Offset(msg, p) == Word(msg, p) - 49152

\* The positions of the labels and pointers of the name at p, as they are read.
Trail(msg, p) ==
    LET at[i \in 0..Len(msg)] ==
          IF i = 0 THEN p
          ELSE LET q == at[i - 1]
               IN  IF IsPointer(Byte(msg, q)) THEN Offset(msg, q) ELSE q + 1 + Byte(msg, q)
    IN  at

\* The name at p ends after n of them: there is a zero.
EndsAfter(msg, p, n) == /\ Byte(msg, Trail(msg, p)[n]) = 0
                        /\ \A i \in 0..(n - 1) : Byte(msg, Trail(msg, p)[i]) # 0

EndOf(msg, p) == CHOOSE n \in 0..Len(msg) : EndsAfter(msg, p, n)

LabelAt(msg, q) == [i \in 1..Byte(msg, q) |-> Byte(msg, q + i)]

\* The labels among the first positions of the trail, none to all.
LabelsTo(msg, p) ==
    LET labels[i \in 0..Len(msg)] ==
          IF i = 0 THEN <<>>
          ELSE LET q == Trail(msg, p)[i - 1]
               IN  IF IsPointer(Byte(msg, q)) THEN labels[i - 1]
                   ELSE Append(labels[i - 1], LabelAt(msg, q))
    IN  labels

NameAt(msg, p) == LabelsTo(msg, p)[EndOf(msg, p)]

\* The position after the name at p: it goes on up to its end or first pointer.
StopsAfter(msg, p, n) ==
    LET stops(i) == Byte(msg, Trail(msg, p)[i]) = 0 \/ IsPointer(Byte(msg, Trail(msg, p)[i]))
    IN  stops(n) /\ \A i \in 0..(n - 1) : ~stops(i)

AfterName(msg, p) ==
    LET q == Trail(msg, p)[CHOOSE n \in 0..Len(msg) : StopsAfter(msg, p, n)]
    IN  IF Byte(msg, q) = 0 THEN q + 1 ELSE q + 2

\* Where the k-th answer starts: after the question and the answers before it.
AnswerAt(msg, k) ==
    LET after[i \in 0..Word(msg, 6)] ==
          IF i = 0 THEN AfterName(msg, 12) + 4
          ELSE LET fields == AfterName(msg, after[i - 1])
               IN  fields + 10 + Word(msg, fields + 8)
    IN  after[k - 1]

\* What the k-th answer says.
Answer(msg, k) ==
    LET p      == AnswerAt(msg, k)
        fields == AfterName(msg, p)
        type   == Word(msg, fields)
    IN  [name |-> Dotted(NameAt(msg, p)),
         type |-> type,
         data |-> IF type = TypeCNAME THEN Dotted(NameAt(msg, fields + 10))
                  ELSE SubSeq(msg, fields + 11, fields + 10 + Word(msg, fields + 8))]

\* A record as servers write it, of class IN and with some TTL.
Record(owner, type, data) ==
    owner \o ToWord(type) \o ToWord(1) \o <<0, 0, 0, 25>> \o ToWord(Len(data)) \o data

Reply(name, records) ==
    <<3, 232, 129, 128>> \o ToWord(1) \o ToWord(Len(records)) \o <<0, 0, 0, 0>>
      \o Plainly(name) \o ToWord(TypeA) \o ToWord(1) \o FlattenSeq(records)

-----------------------------------------------------------------------------
(* What may be relied on in a message that is written well.                *)

\* A name one can look up: its labels have 1 to 63 bytes, none of them zero.
IsName(name) == /\ name \in Seq(Seq(1..255)) /\ name # <<>>
                /\ \A i \in DOMAIN name : Len(name[i]) \in 1..63

\* A name at p: it ends, and a pointer leads back to what was written before p.
WrittenName(msg, p) ==
    LET at   == Trail(msg, p)
        n    == EndOf(msg, p)
        b(i) == Byte(msg, at[i])
    IN  /\ \E i \in 0..Len(msg) : EndsAfter(msg, p, i)
        /\ \A i \in 0..(n - 1) :
              IsPointer(b(i)) \/ (b(i) < 64 /\ \A j \in 1..b(i) : Byte(msg, at[i] + j) # 0)
        /\ \A i \in 0..(n - 1) : IsPointer(b(i)) => \A j \in (i + 1)..n : at[j] < p

WrittenRecord(msg, p) ==
    LET fields == AfterName(msg, p)
        type   == Word(msg, fields)
        len    == Word(msg, fields + 8)
    IN  /\ WrittenName(msg, p)
        /\ type = TypeA => /\ Word(msg, fields + 2) = 1 /\ len = 4
                           /\ fields + 14 <= Len(msg)
        /\ type = TypeCNAME => /\ WrittenName(msg, fields + 10)
                               /\ AfterName(msg, fields + 10) = fields + 10 + len

\* A reply to the question for the address of a name.
WrittenReply(msg, name) ==
    /\ msg \in Seq(0..255)
    /\ Word(msg, 4) = 1
    /\ WrittenName(msg, 12) /\ NameAt(msg, 12) = name
    /\ \A i \in 0..(EndOf(msg, 12) - 1) : ~IsPointer(Byte(msg, Trail(msg, 12)[i]))
    /\ Word(msg, AfterName(msg, 12)) = TypeA
    /\ AnswerAt(msg, 1) <= Len(msg)
    /\ \A k \in 1..Word(msg, 6) : WrittenRecord(msg, AnswerAt(msg, k))
=============================================================================
