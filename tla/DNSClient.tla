------------------------------- MODULE DNSClient -------------------------------
(***************************************************************************)
(* The DNS client, networks/dns-prework/dns.go: one query over UDP, and    *)
(* the decoding of the reply byte by byte.  A user may interrupt a run and *)
(* start the next one; each binds the same port, connects to the same      *)
(* server and uses the same ID.                                            *)
(*                                                                         *)
(* The network may delay and lose datagrams.  The server, external, knows  *)
(* the names of Zone and answers each query once.                          *)
(***************************************************************************)
EXTENDS DNSMessage

CONSTANTS Zone,    \* Zone[name]: the server's reply for a name
          MaxRuns  \* bound on the runs of the program

\* Replies are well written and short, as those of up to 512 bytes, the most DNS sends
\* over UDP, are: what the client takes for records is inside its buffer of 1024.
ASSUME ZoneAssumption ==
    \A name \in DOMAIN Zone :
        /\ IsName(name) /\ WrittenReply(Zone[name], name)
        /\ Len(Zone[name]) + 11 * Word(Zone[name], 6) + 16 <= 1023
ASSUME MaxRunsAssumption == MaxRuns \in Nat

VARIABLES step,      \* "down", "wait", or the step of the decoding
          domain,    \* the name to look up
          network,   \* datagrams on their way
          reply,     \* the buffer the reply was received in
          pos,       \* positionInReply
          left,      \* iterations left in the loops over questions and answers
          dec,       \* variables of decodeDomain
          record,    \* the resource record in the making
          shown,     \* what was printed: a question and the answers
          runs, lost, abandoned  \* histories: runs started, whether this run
                     \* lost a datagram, names whose run ended without their reply

dnsVars == <<step, domain, network, reply, pos, left, dec, record, shown, runs, lost,
             abandoned>>
outside == <<domain, network, reply, runs, lost, abandoned>>

Decoding == {"question", "answer", "mask", "octets", "fields", "show"}
NoRecord == [name |-> <<>>, type |-> 0, data |-> <<>>]
NoDomain == [at |-> 0, maxPos |-> 0, octets |-> 0, text |-> <<>>]

MaxOf(a, b) == IF a > b THEN a ELSE b
B(p)        == Byte(reply, p)

\* encodeDNSHeader for ID 1000, recursion desired, one question.
QueryHeader == <<3, 232, 1, 32, 0, 1, 0, 0, 0, 0, 0, 0>>

\* Mutant of EncodedName: a length counts its own byte.
EncodedLonger(name) ==
    FlattenSeq([i \in DOMAIN name |-> <<Len(name[i]) + 1>> \o name[i]]) \o <<0>>

\* The labels of encodeDNSQuestion.
EncodedName(name) ==
    FlattenSeq([i \in DOMAIN name |-> <<Len(name[i]) % 256>> \o name[i]]) \o <<0>>

Query(name) == QueryHeader \o EncodedName(name) \o ToWord(TypeA) \o ToWord(1)

\* Mutant of Requests: the name is asked for twice, for any type too.
RequestsTwo(name) ==
    {[to |-> "server", msg |-> QueryHeader \o EncodedName(name) \o ToWord(t) \o ToWord(1)] :
        t \in {TypeA, 255}}

Requests(name) == {[to |-> "server", msg |-> Query(name)]}

DNSInit == /\ step = "down"
           /\ domain = <<>>
           /\ network = {}
           /\ reply = <<>>
           /\ pos = 0
           /\ left = [questions |-> 0, answers |-> 0]
           /\ dec = NoDomain
           /\ record = NoRecord
           /\ shown = [question |-> NoRecord, answers |-> <<>>]
           /\ runs = 0
           /\ lost = FALSE
           /\ abandoned = {}

-----------------------------------------------------------------------------
(* The environment                                                         *)

Answers(q) == LET name == NameAt(q, 12)
              IN  IF name \in DOMAIN Zone THEN {[to |-> "client", msg |-> Zone[name]]}
                  ELSE {}

Serve(q) == /\ q.to = "server"
            /\ network' = (network \ {q}) \cup Answers(q.msg)
            /\ UNCHANGED <<step, domain, reply, pos, left, dec, record, shown, runs,
                           lost, abandoned>>

Lose(d) == /\ network' = network \ {d}
           /\ lost' = TRUE
           /\ UNCHANGED <<step, domain, reply, pos, left, dec, record, shown, runs,
                          abandoned>>

\* The run ends; it has heard what it asked for, or not.
End == /\ step' = "down"
       /\ abandoned' = IF step # "wait" /\ NameAt(reply, 12) = domain THEN abandoned
                       ELSE abandoned \cup {domain}
       /\ UNCHANGED <<domain, network, reply, pos, left, dec, record, shown, runs, lost>>

\* The user stops a run that waits or decodes.
Interrupt == step # "down" /\ End

-----------------------------------------------------------------------------
(* queryDomainNameService                                                  *)

\* Bind, connect and send.
Send(name) == /\ step = "down"
              /\ runs < MaxRuns
              /\ runs' = runs + 1
              /\ step' = "wait"
              /\ domain' = name
              /\ network' = network \cup Requests(name)
              /\ shown' = [question |-> NoRecord, answers |-> <<>>]
              /\ reply' = <<>>
              /\ lost' = FALSE
              /\ UNCHANGED <<pos, left, dec, record, abandoned>>

\* decodeDNSHeader: the two counts that are used.
Counts(msg) == [questions |-> Word(msg, 4), answers |-> Word(msg, 6)]

\* Recvfrom.  The ID is printed and not compared with the query's.
Receive == /\ step = "wait"
           /\ \E d \in network : /\ d.to = "client"
                                 /\ network' = network \ {d}
                                 /\ reply' = d.msg
                                 /\ left' = Counts(d.msg)
           /\ pos' = 12
           /\ step' = "question"
           /\ UNCHANGED <<domain, dec, record, shown, runs, lost, abandoned>>

ZeroAfter(p) == CHOOSE q \in p..1023 : B(q) = 0 /\ \A r \in p..(q - 1) : B(r) # 0
OrDot(b)     == IF b < 64 THEN 46 ELSE b

\* Mutant of QuestionText: the first length byte is not skipped.
QuestionTextAll(p) == [i \in 1..(ZeroAfter(p) - p) |-> OrDot(B(p + i - 1))]

\* decodeDomainName with skipDot: every byte below 64 becomes a dot, whether it
\* is a length, a digit or a hyphen.
QuestionText(p) == [i \in 1..(ZeroAfter(p) - p - 1) |-> OrDot(B(p + i))]

\* decodeDNSQuestion
Question == /\ step = "question"
            /\ left.questions > 0
            /\ LET text      == QuestionText(pos)
                   typeIndex == pos + Len(text) + 2
               IN  /\ shown' = [shown EXCEPT !.question =
                                  [NoRecord EXCEPT !.name = text,
                                                   !.type = Word(reply, typeIndex)]]
                   /\ pos' = typeIndex + 4
            /\ left' = [left EXCEPT !.questions = @ - 1]
            /\ UNCHANGED <<step, dec, record, outside>>

QuestionsDone == /\ step = "question"
                 /\ left.questions = 0
                 /\ step' = "answer"
                 /\ UNCHANGED <<pos, left, dec, record, shown, outside>>

\* The loop over the answers calls decodeResourceRecord, which calls decodeDomain.
AtDomain(p) == /\ step' = "mask"
               /\ dec' = [NoDomain EXCEPT !.at = p, !.maxPos = p]

NextAnswer == /\ step = "answer"
              /\ left.answers > 0
              /\ left' = [left EXCEPT !.answers = @ - 1]
              /\ record' = NoRecord
              /\ AtDomain(pos)
              /\ UNCHANGED <<pos, shown, outside>>

\* The end of queryDomainNameService closes the socket.
Finish == /\ step = "answer"
          /\ left.answers = 0
          /\ End

-----------------------------------------------------------------------------
(* decodeDomain                                                            *)

\* Mutant of Masked: any byte that is not zero.
MaskedNonZero(b) == b # 0

\* b & 80, with 80 = 64 + 16
Masked(b) == (b \div 64) % 2 = 1 \/ (b \div 16) % 2 = 1

\* Mutant of Moved: maxPos follows the end of the pointer only.
MovedShort(at, seen) == [dec EXCEPT !.at = at]

\* currentPos becomes at, after it was at seen.
Moved(at, seen) == [dec EXCEPT !.at = at, !.maxPos = MaxOf(@, seen)]

\* The loop that follows pointers at the start.
SkipMasked == /\ step = "mask"
              /\ Masked(B(dec.at))
              /\ dec' = Moved(B(dec.at + 1), dec.at + 1)
              /\ UNCHANGED <<step, pos, left, record, shown, outside>>

FirstLabel == /\ step = "mask"
              /\ ~Masked(B(dec.at))
              /\ dec' = [dec EXCEPT !.octets = B(dec.at), !.at = @ + 1]
              /\ step' = "octets"
              /\ UNCHANGED <<pos, left, record, shown, outside>>

Octet == /\ step = "octets"
         /\ B(dec.at) # 0
         /\ UNCHANGED <<step, pos, left, record, shown, outside>>

CopyOctet == /\ Octet
             /\ dec.octets > 0
             /\ dec' = [Moved(dec.at + 1, dec.at + 1) EXCEPT
                          !.octets = @ - 1, !.text = Append(@, B(dec.at))]

FollowPointer == /\ Octet
                 /\ dec.octets = 0
                 /\ B(dec.at) >= 128
                 /\ dec' = Moved(B(dec.at + 1), dec.at + 1)

NextLabel == /\ Octet
             /\ dec.octets = 0
             /\ B(dec.at) < 128
             /\ dec' = [Moved(dec.at + 1, dec.at + 1) EXCEPT
                          !.octets = B(dec.at), !.text = Append(@, 46)]

\* decodeDomain returns its text, and maxPos + 1 is where the name ends: with it
\* the owner's name or the data of a CNAME is complete.
DomainDone == /\ step = "octets"
              /\ B(dec.at) = 0
              /\ IF record.type = 0
                 THEN /\ record' = [record EXCEPT !.name = dec.text]
                      /\ step' = "fields"
                 ELSE /\ record' = [record EXCEPT !.data = dec.text]
                      /\ step' = "show"
              /\ pos' = dec.maxPos + 1
              /\ UNCHANGED <<left, dec, shown, outside>>

-----------------------------------------------------------------------------
(* decodeResourceRecord, after the owner's name                            *)

Fields == /\ step = "fields"
          /\ LET type == Word(reply, pos)
                 isA  == type = TypeA /\ Word(reply, pos + 2) = 1
             IN  /\ record' = [record EXCEPT
                       !.type = type,
                       !.data = IF isA THEN [i \in 1..4 |-> B(pos + 9 + i)] ELSE @]
                 /\ pos' = pos + 10 + (IF isA THEN 4 ELSE 0)
                 /\ IF type = TypeCNAME THEN AtDomain(pos + 10)
                    ELSE step' = "show" /\ UNCHANGED dec
          /\ UNCHANGED <<left, shown, outside>>

\* printResourceRecord
Show == /\ step = "show"
        /\ shown' = [shown EXCEPT !.answers = Append(@, record)]
        /\ step' = "answer"
        /\ UNCHANGED <<pos, left, dec, record, outside>>

Decode == \/ Question \/ QuestionsDone \/ NextAnswer \/ Finish
          \/ SkipMasked \/ FirstLabel \/ CopyOctet \/ FollowPointer \/ NextLabel
          \/ DomainDone \/ Fields \/ Show

Serving == \E d \in network : Serve(d)

DNSNext == \/ \E name \in DOMAIN Zone : Send(name)
           \/ Serving
           \/ \E d \in network : Lose(d)
           \/ Interrupt
           \/ Receive
           \/ Decode

DNSSpec == DNSInit /\ [][DNSNext]_dnsVars

\* The program runs on and the server answers; users and losses are free.
FairSpec == DNSSpec /\ WF_dnsVars(Decode) /\ WF_dnsVars(Receive) /\ WF_dnsVars(Serving)

-----------------------------------------------------------------------------
Replies == {Zone[name] : name \in DOMAIN Zone}

\* Type invariant.
DNSTypeOK == /\ step \in {"down", "wait"} \cup Decoding
             /\ domain \in DOMAIN Zone \cup {<<>>}
             /\ \A d \in network : d.to \in {"server", "client"}
             /\ reply \in Replies \cup {<<>>}
             /\ pos \in 0..1023
             /\ left \in [questions : 0..1, answers : 0..MaxWord]
             /\ dec.at \in 0..1023 /\ dec.maxPos \in 0..1023 /\ dec.octets \in 0..255
             /\ dec.text \in Seq(0..255)
             /\ runs \in 0..MaxRuns /\ lost \in BOOLEAN /\ abandoned \subseteq DOMAIN Zone

\* The name at p is plain: it has a label, its pointers stay within the first 256
\* bytes, and the length of its first label, read through them, has bit 4 clear.
PlainName(msg, p) ==
    LET at == Trail(msg, p)
        n  == EndOf(msg, p)
        pointer(i) == IsPointer(Byte(msg, at[i]))
    IN  /\ \E i \in 0..(n - 1) : ~pointer(i)
        /\ \A i \in 0..(n - 1) : pointer(i) => Offset(msg, at[i]) < 256
        /\ \A i \in 0..(n - 1) :
              ~pointer(i) /\ (\A j \in 0..(i - 1) : pointer(j))
                 => (Byte(msg, at[i]) \div 16) % 2 = 0

PlainRecord(msg, k) ==
    LET fields == AfterName(msg, AnswerAt(msg, k))
    IN  /\ PlainName(msg, AnswerAt(msg, k))
        /\ Word(msg, fields) \in {TypeA, TypeCNAME}
        /\ Word(msg, fields) = TypeCNAME => PlainName(msg, fields + 10)

\* The plain records of a reply.
Plain == [msg \in Replies |-> {k \in 1..Word(msg, 6) : PlainRecord(msg, k)}]

\* The answers are those the server sent, up to the first record of another
\* type, name of the root, pointer past byte 255 or first label whose length has bit 4
\* set (16 to 31 and 48 to 63).  From there on they need not be.  The variables keep
\* their types.
AnswersAreTheServers ==
    /\ DNSTypeOK
    /\ \A k \in 1..Len(shown.answers) :
          1..k \subseteq Plain[reply] => shown.answers[k] = Answer(reply, k)

\* The question printed is the one in the reply, but for digits and hyphens.
QuestionIsTheReplys ==
    shown.question # NoRecord =>
        LET asked == Dotted(NameAt(reply, 12))
        IN  /\ shown.question.type = TypeA
            /\ Len(shown.question.name) = Len(asked)
            /\ \A i \in DOMAIN asked :
                  asked[i] >= 64 => shown.question.name[i] = asked[i]

\* A reply to another question is taken for the answer only if it comes late, for a
\* query whose run ended before it had its own reply: the user stopped it, or it took
\* the reply to yet another.
StrangeReplyIsLate ==
    reply # <<>> => NameAt(reply, 12) \in {domain} \cup abandoned

\* Only a lost datagram, or the user, leaves a run waiting.
HeardUnlessLost == step = "wait" ~> step # "wait" \/ lost

\* The pointers of a name are followed to an end, if the record and those before
\* it are plain.
DecodingEnds ==
    step \in {"mask", "octets"} /\ 1..(Len(shown.answers) + 1) \subseteq Plain[reply]
        ~> step \notin {"mask", "octets"}
=============================================================================
