-------------------------- MODULE TCPServers_proofs --------------------------
(***************************************************************************)
(* For every set of clients and every size of messages and of the buffer:  *)
(* forward mode keeps the bytes of clients apart and loses none, and echo  *)
(* mode ends only by the client it serves.                                 *)
(***************************************************************************)
EXTENDS TCPServers, TLAPS

Byte == Client \X (1..MsgLen)
Running == pc \in {"accept", "serve"}
Serving == pc = "serve"
Queued(c) == \E i \in DOMAIN queue : queue[i] = c

\* How many bytes of c's message the server has taken.
Taken(c) == MsgLen - Len(unread[c])

\* A client is new, waits in the queue, is being served or was left.
Waiting ==
    /\ \A i, j \in DOMAIN queue : queue[i] = queue[j] => i = j
    /\ \A c \in Client : Queued(c) => cstate[c] # "new" /\ ~(Serving /\ current = c)
    /\ Serving => current \in Client /\ cstate[current] # "new"

\* What is unread is the end of the message.
UnreadIsEnd ==
    \A c \in Client :
        IF cstate[c] = "sent"
        THEN /\ Len(unread[c]) <= MsgLen
             /\ \A i \in DOMAIN unread[c] : unread[c][i] = <<c, Taken(c) + i>>
        ELSE unread[c] = <<>> /\ \A i \in 1..MsgLen : ~Forwarded(<<c, i>>)

\* What was taken was forwarded.
TakenIsForwarded ==
    Running /\ mode = "forward" =>
        \A c \in Client, i \in 1..MsgLen :
            cstate[c] = "sent" => (Forwarded(<<c, i>>) <=> i <= Taken(c))

\* The clients in the queue come after all that was forwarded.
QueuedLater ==
    \A c \in Client, i \in 1..MsgLen : Queued(c) => ~Forwarded(<<c, i>>)

\* The last byte forwarded is the last one taken of the client being served, or
\* the end of a message, and then the client being served has not begun.
LastByte ==
    Running /\ dest # <<>> =>
        IF Serving /\ dest[Len(dest)][1] = current
        THEN dest[Len(dest)][2] = Taken(current)
        ELSE /\ dest[Len(dest)][2] = MsgLen
             /\ Serving => \A i \in 1..MsgLen : ~Forwarded(<<current, i>>)

\* The echo server has read nothing of the clients it has not answered.
EchoReadsOnce ==
    Running /\ mode = "echo" =>
        \A c \in Client :
            cstate[c] = "sent" /\ (Queued(c) \/ (Serving /\ current = c)) =>
                Len(unread[c]) = MsgLen

\* A client that was answered had sent its message, and was left.
AnsweredIsLeft ==
    \A c \in answered : /\ cstate[c] = "sent"
                        /\ ~Queued(c)
                        /\ Serving => current # c

Blocks ==
    \A i \in 1..(Len(dest) - 1) :
        IF dest[i][1] = dest[i + 1][1]
        THEN dest[i + 1][2] = dest[i][2] + 1
        ELSE dest[i][2] = MsgLen /\ dest[i + 1][2] = 1

Once == \A i, j \in DOMAIN dest : dest[i] = dest[j] => i = j

SInv == /\ TypeOK
        /\ Waiting
        /\ UnreadIsEnd
        /\ TakenIsForwarded
        /\ QueuedLater
        /\ LastByte
        /\ EchoReadsOnce
        /\ AnsweredIsLeft
        /\ Blocks
        /\ Once
        /\ mode = "echo" => dest = <<>>
        /\ EchoEndsByItsClient

-----------------------------------------------------------------------------
LEMMA Initial == Init => SInv
<1> SUFFICES ASSUME Init PROVE SInv
  OBVIOUS
<1>1. TypeOK
  BY DEF Init, TypeOK
<1>2. Waiting /\ UnreadIsEnd /\ TakenIsForwarded /\ QueuedLater /\ LastByte
  BY DEF Init, Waiting, UnreadIsEnd, TakenIsForwarded, QueuedLater, LastByte, Queued,
         Serving, Forwarded
<1>3. EchoReadsOnce /\ AnsweredIsLeft /\ Blocks /\ Once /\ EchoEndsByItsClient
  BY DEF Init, EchoReadsOnce, AnsweredIsLeft, Blocks, Once, EchoEndsByItsClient
<1> QED
  BY <1>1, <1>2, <1>3 DEF Init, SInv

\* What the invariant says of dest alone.
LEMMA DestUnchanged ==
    ASSUME SInv, UNCHANGED <<dest, mode>>
    PROVE  Blocks' /\ Once' /\ (mode' = "echo" => dest' = <<>>)
  BY DEF SInv, Blocks, Once

LEMMA ConnectKeeps == ASSUME SInv, NEW c \in Client, Connect(c) PROVE SInv'
<1>1. /\ queue \in Seq(Client) /\ cstate[c] = "new" /\ Running
      /\ cstate' = [cstate EXCEPT ![c] = "open"] /\ queue' = Append(queue, c)
      /\ UNCHANGED <<mode, pc, current, closed, unread, dest, answered>>
      /\ cstate \in [Client -> {"new", "open", "sent"}]
  BY DEF Connect, SInv, TypeOK, Running
<1>2. \A d : Queued(d)' <=> Queued(d) \/ d = c
  <2>1. /\ DOMAIN queue = 1..Len(queue) /\ Len(queue) \in Nat
        /\ DOMAIN queue' = 1..(Len(queue) + 1)
        /\ queue'[Len(queue) + 1] = c
        /\ \A i \in DOMAIN queue : queue'[i] = queue[i]
    BY <1>1
  <2> QED
    BY <2>1 DEF Queued
<1>3. TypeOK'
  BY <1>1 DEF SInv, TypeOK
<1>4. Waiting'
  <2>1. ~Queued(c) /\ ~(Serving /\ current = c)
    BY <1>1 DEF SInv, Waiting
  <2>2. \A i, j \in DOMAIN queue' : queue'[i] = queue'[j] => i = j
    BY <1>1, <2>1 DEF SInv, Waiting, Queued
  <2> QED
    BY <1>1, <1>2, <2>1, <2>2 DEF SInv, Waiting, Serving
<1>5. UnreadIsEnd'
  BY <1>1 DEF SInv, UnreadIsEnd, Taken, Forwarded
<1>6. TakenIsForwarded'
  BY <1>1 DEF SInv, TakenIsForwarded, Running, Taken, Forwarded
<1>7. QueuedLater'
  BY <1>1, <1>2 DEF SInv, QueuedLater, UnreadIsEnd, Forwarded
<1>8. LastByte'
  BY <1>1 DEF SInv, LastByte, Running, Serving, Taken, Forwarded
<1>9. EchoReadsOnce'
  BY <1>1, <1>2 DEF SInv, EchoReadsOnce, Running, Serving
<1>10. EchoEndsByItsClient'
  BY <1>1 DEF SInv, EchoEndsByItsClient, Running
<1>11. AnsweredIsLeft'
  BY <1>1, <1>2 DEF SInv, AnsweredIsLeft, Serving, TypeOK
<1> QED
  BY <1>1, <1>3, <1>4, <1>5, <1>6, <1>7, <1>8, <1>9, <1>10, <1>11, DestUnchanged DEF SInv

LEMMA SendMessageKeeps == ASSUME SInv, NEW c \in Client, SendMessage(c) PROVE SInv'
<1>1. /\ cstate[c] = "open" /\ c \notin closed
      /\ cstate' = [cstate EXCEPT ![c] = "sent"]
      /\ unread' = [unread EXCEPT ![c] = Message(c)]
      /\ UNCHANGED <<mode, pc, current, queue, closed, dest, answered>>
      /\ cstate \in [Client -> {"new", "open", "sent"}]
      /\ unread \in [Client -> Seq(Byte)]
  BY DEF SendMessage, SInv, TypeOK, Byte
<1>2. /\ Message(c) \in Seq(Byte) /\ Len(Message(c)) = MsgLen /\ MsgLen \in Nat \ {0}
      /\ DOMAIN Message(c) = 1..MsgLen /\ \A i \in 1..MsgLen : Message(c)[i] = <<c, i>>
  BY SizeAssumption DEF Message, Byte
<1>3. /\ unread'[c] = Message(c) /\ Taken(c)' = 0
      /\ \A d \in Client \ {c} : /\ unread'[d] = unread[d] /\ cstate'[d] = cstate[d]
                                 /\ Taken(d)' = Taken(d)
      /\ \A i \in 1..MsgLen : ~Forwarded(<<c, i>>)
      /\ cstate'[c] = "sent"
  BY <1>1, <1>2 DEF Taken, SInv, UnreadIsEnd
<1>4. \A d : Queued(d)' = Queued(d) /\ Forwarded(d)' = Forwarded(d)
  BY <1>1 DEF Queued, Forwarded
<1>5. TypeOK'
  BY <1>1, <1>2 DEF SInv, TypeOK, Byte
<1>6. Waiting'
  BY <1>1, <1>3, <1>4 DEF SInv, Waiting, Serving
<1>7. UnreadIsEnd'
  <2>1. ASSUME NEW i \in 1..MsgLen PROVE Message(c)[i] = <<c, 0 + i>>
    BY <1>2
  <2> QED
    BY <1>2, <1>3, <1>4, <2>1 DEF SInv, UnreadIsEnd
<1>8. TakenIsForwarded'
  BY <1>1, <1>2, <1>3, <1>4 DEF SInv, TakenIsForwarded, Running
<1>9. QueuedLater'
  BY <1>4 DEF SInv, QueuedLater
<1>10. LastByte'
  <2>1. ASSUME dest # <<>> PROVE dest[Len(dest)] \in Byte /\ Forwarded(dest[Len(dest)])
    BY <2>1 DEF SInv, TypeOK, Byte, Forwarded
  <2>2. dest # <<>> => dest[Len(dest)][1] # c
    BY <1>3, <2>1 DEF Byte
  <2> QED
    BY <1>1, <1>3, <1>4, <2>2 DEF SInv, LastByte, Running, Serving, Waiting
<1>11. EchoReadsOnce'
  BY <1>1, <1>2, <1>3, <1>4 DEF SInv, EchoReadsOnce, Running, Serving
<1>12. EchoEndsByItsClient'
  BY <1>1, <1>3 DEF SInv, EchoEndsByItsClient, TypeOK
<1>13. AnsweredIsLeft'
  BY <1>1, <1>3, <1>4 DEF SInv, AnsweredIsLeft, Serving, TypeOK
<1> QED
  BY <1>1, <1>5, <1>6, <1>7, <1>8, <1>9, <1>10, <1>11, <1>12, <1>13, DestUnchanged DEF SInv

LEMMA CloseEndKeeps == ASSUME SInv, NEW c \in Client, CloseEnd(c) PROVE SInv'
<1>1. /\ closed' = closed \cup {c}
      /\ UNCHANGED <<mode, pc, current, queue, cstate, unread, dest, answered>>
  BY DEF CloseEnd
<1>2. TypeOK'
  BY <1>1 DEF SInv, TypeOK
<1>3. /\ Waiting' /\ UnreadIsEnd' /\ TakenIsForwarded' /\ QueuedLater' /\ LastByte'
      /\ EchoReadsOnce' /\ AnsweredIsLeft'
  BY <1>1 DEF SInv, Waiting, UnreadIsEnd, TakenIsForwarded, QueuedLater, LastByte,
              EchoReadsOnce, AnsweredIsLeft, Queued, Serving, Running, Taken, Forwarded
<1>4. EchoEndsByItsClient'
  BY <1>1 DEF SInv, EchoEndsByItsClient
<1> QED
  BY <1>1, <1>2, <1>3, <1>4, DestUnchanged DEF SInv

LEMMA AcceptKeeps == ASSUME SInv, Accept PROVE SInv'
<1>1. /\ pc = "accept" /\ pc' = "serve" /\ queue # <<>> /\ queue \in Seq(Client)
      /\ current' = Head(queue) /\ queue' = Tail(queue)
      /\ UNCHANGED <<mode, cstate, closed, unread, dest, answered>>
  BY DEF Accept, SInv, TypeOK
<1>2. /\ DOMAIN queue = 1..Len(queue) /\ Len(queue) \in Nat \ {0} /\ 1 \in DOMAIN queue
      /\ queue[1] \in Client /\ queue' \in Seq(Client)
      /\ DOMAIN queue' = 1..(Len(queue) - 1)
      /\ \A i \in DOMAIN queue' : i + 1 \in DOMAIN queue /\ queue'[i] = queue[i + 1]
  BY <1>1
<1> PICK c \in Client : c = queue[1] /\ current' = c
  BY <1>1, <1>2
<1>3. Queued(c) /\ ~Queued(c)' /\ \A d : Queued(d)' => Queued(d)
  <2>1. Queued(c)
    BY <1>2 DEF Queued
  <2>2. ASSUME NEW i \in DOMAIN queue' PROVE queue'[i] # c
    <3>1. i + 1 # 1 /\ i + 1 \in DOMAIN queue
      BY <1>2
    <3> QED
      BY <1>2, <3>1 DEF SInv, Waiting
  <2>3. ~Queued(c)'
    BY <2>2 DEF Queued
  <2>4. ASSUME NEW d, Queued(d)' PROVE Queued(d)
    BY <1>2, <2>4 DEF Queued
  <2> QED
    BY <2>1, <2>3, <2>4
<1>4. TypeOK'
  BY <1>1, <1>2 DEF SInv, TypeOK
<1>5. Waiting'
  <2>1. \A i, j \in DOMAIN queue' : queue'[i] = queue'[j] => i = j
    <3>1. ASSUME NEW i \in DOMAIN queue', NEW j \in DOMAIN queue', queue'[i] = queue'[j]
          PROVE  i = j
      <4>1. i + 1 = j + 1
        BY <1>2, <3>1 DEF SInv, Waiting
      <4> QED
        BY <1>2, <3>1, <4>1
    <3> QED
      BY <3>1
  <2>2. ASSUME NEW d \in Client, Queued(d)' PROVE cstate'[d] # "new" /\ current' # d
    BY <1>1, <1>3, <2>2 DEF SInv, Waiting
  <2>3. current' \in Client /\ cstate'[current'] # "new"
    BY <1>1, <1>3 DEF SInv, Waiting
  <2> QED
    BY <2>1, <2>2, <2>3 DEF Waiting, Serving
<1>6. UnreadIsEnd' /\ TakenIsForwarded'
  BY <1>1 DEF SInv, UnreadIsEnd, TakenIsForwarded, Running, Taken, Forwarded
<1>7. QueuedLater'
  BY <1>1, <1>3 DEF SInv, QueuedLater, Forwarded
<1>8. LastByte'
  <2>1. \A i \in 1..MsgLen : ~Forwarded(<<c, i>>)
    BY <1>2, <1>3 DEF SInv, QueuedLater
  <2>2. ASSUME dest # <<>> PROVE dest[Len(dest)] \in Byte /\ Forwarded(dest[Len(dest)])
    BY <2>2 DEF SInv, TypeOK, Byte, Forwarded
  <2>3. dest # <<>> => dest[Len(dest)][1] # c /\ dest[Len(dest)][2] = MsgLen
    BY <1>1, <2>1, <2>2 DEF Byte, SInv, LastByte, Running, Serving
  <2> QED
    BY <1>1, <2>1, <2>3 DEF LastByte, Forwarded
<1>9. EchoReadsOnce'
  BY <1>1, <1>3 DEF SInv, EchoReadsOnce, Running, Serving
<1>10. EchoEndsByItsClient'
  BY <1>1 DEF EchoEndsByItsClient
<1>11. AnsweredIsLeft'
  BY <1>1, <1>3 DEF SInv, AnsweredIsLeft
<1> QED
  BY <1>1, <1>4, <1>5, <1>6, <1>7, <1>8, <1>9, <1>10, <1>11, DestUnchanged DEF SInv

LEMMA CutProperties ==
    ASSUME NEW s \in Seq(Byte), NEW n \in Nat, n <= Len(s)
    PROVE  /\ SubSeq(s, n + 1, Len(s)) \in Seq(Byte)
           /\ Len(SubSeq(s, n + 1, Len(s))) = Len(s) - n
           /\ DOMAIN SubSeq(s, n + 1, Len(s)) = 1..(Len(s) - n)
           /\ \A i \in 1..(Len(s) - n) : SubSeq(s, n + 1, Len(s))[i] = s[n + i]
  OBVIOUS

\* What a receive leaves unread is still the end of the message.
LEMMA ReceiveCuts ==
    ASSUME SInv, current \in Client, NEW n \in 1..MsgLen, n <= Len(unread[current]),
           unread' = [unread EXCEPT ![current] = SubSeq(@, n + 1, Len(@))],
           UNCHANGED cstate
    PROVE  /\ \A d \in Client : cstate[d] = "sent" =>
                 /\ Len(unread'[d]) <= MsgLen
                 /\ \A i \in DOMAIN unread'[d] :
                       unread'[d][i] = <<d, MsgLen - Len(unread'[d]) + i>>
           /\ UNCHANGED dest => UnreadIsEnd'
           /\ unread' \in [Client -> Seq(Byte)]
           /\ \A d \in Client \ {current} : unread'[d] = unread[d]
           /\ cstate[current] = "sent"
           /\ Len(unread'[current]) = Len(unread[current]) - n
           /\ Len(unread[current]) \in 1..MsgLen
           /\ \A i \in 1..n : unread[current][i] = <<current, Taken(current) + i>>
<1> PICK c \in Client : c = current
  OBVIOUS
<1> DEFINE u == unread[c]
           v == SubSeq(u, n + 1, Len(u))
<1>1. /\ u \in Seq(Byte) /\ Len(u) \in Nat /\ DOMAIN u = 1..Len(u) /\ n \in Nat /\ n >= 1
      /\ MsgLen \in Nat /\ unread \in [Client -> Seq(Byte)]
  <2>1. unread \in [Client -> Seq(Byte)]
    BY DEF SInv, TypeOK, Byte
  <2>2. u \in Seq(Byte)
    BY <2>1
  <2>3. Len(u) \in Nat /\ DOMAIN u = 1..Len(u)
    BY <2>2
  <2>4. MsgLen \in Nat /\ n \in Nat /\ n >= 1
    BY SizeAssumption
  <2> QED
    BY <2>1, <2>2, <2>3, <2>4
<1> HIDE DEF u
<1>2. /\ v \in Seq(Byte) /\ Len(v) = Len(u) - n /\ DOMAIN v = 1..(Len(u) - n)
      /\ \A i \in 1..(Len(u) - n) : v[i] = u[n + i]
  <2>1. n <= Len(u)
    BY DEF u
  <2> QED
    BY <1>1, <2>1, CutProperties
<1>3. cstate[c] = "sent"
  BY <1>1 DEF SInv, UnreadIsEnd, u
<1>4. Len(u) <= MsgLen /\ \A i \in 1..Len(u) : u[i] = <<c, MsgLen - Len(u) + i>>
  BY <1>1, <1>3 DEF SInv, UnreadIsEnd, Taken, u
<1>5. /\ unread'[c] = v /\ unread' \in [Client -> Seq(Byte)]
      /\ \A d \in Client \ {c} : unread'[d] = unread[d]
      /\ n <= Len(u)
  BY <1>1, <1>2 DEF u
<1> HIDE DEF v
<1>6. \A i \in 1..(Len(u) - n) : v[i] = <<c, MsgLen - Len(v) + i>>
  <2>1. ASSUME NEW i \in 1..(Len(u) - n) PROVE v[i] = <<c, MsgLen - Len(v) + i>>
    <3>1. n + i \in 1..Len(u) /\ MsgLen - Len(u) + (n + i) = MsgLen - Len(v) + i
      BY <1>1, <1>2
    <3> QED
      BY <1>2, <1>4, <3>1
  <2> QED
    BY <2>1
<1>7. /\ \A d \in Client : cstate[d] = "sent" =>
            /\ Len(unread'[d]) <= MsgLen
            /\ \A i \in DOMAIN unread'[d] :
                  unread'[d][i] = <<d, MsgLen - Len(unread'[d]) + i>>
      /\ UNCHANGED dest => UnreadIsEnd'
  <2>1. Len(v) <= MsgLen
    BY <1>1, <1>2, <1>4
  <2>2. ASSUME NEW d \in Client, cstate[d] = "sent"
        PROVE  /\ Len(unread'[d]) <= MsgLen
               /\ \A i \in DOMAIN unread'[d] :
                     unread'[d][i] = <<d, MsgLen - Len(unread'[d]) + i>>
    <3>1. CASE d = c
      BY <1>2, <1>5, <1>6, <2>1, <3>1
    <3>2. CASE d # c
      BY <1>5, <2>2, <3>2 DEF SInv, UnreadIsEnd, Taken
    <3> QED
      BY <3>1, <3>2
  <2>3. ASSUME UNCHANGED dest, NEW d \in Client, cstate[d] # "sent"
        PROVE  unread'[d] = <<>> /\ \A i \in 1..MsgLen : ~Forwarded(<<d, i>>)'
    BY <1>3, <1>5, <2>3 DEF SInv, UnreadIsEnd, Forwarded
  <2> QED
    BY <2>2, <2>3 DEF UnreadIsEnd, Taken
<1>8. Len(unread'[c]) = Len(u) - n /\ Len(u) \in 1..MsgLen
  <2>1. Len(unread'[c]) = Len(u) - n
    BY <1>2, <1>5
  <2>2. n <= Len(u) /\ Len(u) <= MsgLen
    BY <1>4, <1>5
  <2>3. Len(u) \in 1..MsgLen
    BY <1>1, <2>2
  <2> QED
    BY <2>1, <2>3
<1>9. \A i \in 1..n : u[i] = <<c, MsgLen - Len(u) + i>>
  BY <1>1, <1>4, <1>5
<1> QED
  BY <1>3, <1>5, <1>7, <1>8, <1>9 DEF Taken, u

\* A receive that ended the server.
LEMMA FatalKeeps ==
    ASSUME SInv, NEW n \in 1..MsgLen, Receive(n), Fatal, mode = "forward" \/ current \in closed
    PROVE  SInv'
<1>1. /\ pc = "serve" /\ pc' = "fatal" /\ current \in Client
      /\ n <= Len(unread[current])
      /\ unread' = [unread EXCEPT ![current] = SubSeq(@, n + 1, Len(@))]
      /\ UNCHANGED <<mode, current, queue, cstate, closed, dest, answered>>
  BY DEF Receive, Fatal, SInv, Waiting, Serving
<1>2. UnreadIsEnd' /\ unread' \in [Client -> Seq(Byte)]
  BY <1>1, ReceiveCuts
<1>3. TypeOK'
  BY <1>1, <1>2 DEF SInv, TypeOK, Byte
<1>4. Waiting' /\ QueuedLater'
  BY <1>1 DEF SInv, Waiting, QueuedLater, Queued, Serving, Forwarded
<1>5. TakenIsForwarded' /\ LastByte' /\ EchoReadsOnce'
  BY <1>1 DEF TakenIsForwarded, LastByte, EchoReadsOnce, Running
<1>6. AnsweredIsLeft' /\ EchoEndsByItsClient'
  BY <1>1 DEF SInv, AnsweredIsLeft, EchoEndsByItsClient, Queued, Serving
<1> QED
  BY <1>1, <1>2, <1>3, <1>4, <1>5, <1>6, DestUnchanged DEF SInv

LEMMA ReceiveFailsKeeps == ASSUME SInv, ReceiveFails PROVE SInv'
<1>1. /\ pc = "serve" /\ pc' = "fatal" /\ current \in closed
      /\ UNCHANGED <<mode, current, queue, cstate, closed, unread, dest, answered>>
  BY DEF ReceiveFails, Fatal
<1>2. TypeOK'
  BY <1>1 DEF SInv, TypeOK
<1>3. Waiting' /\ UnreadIsEnd' /\ QueuedLater'
  BY <1>1 DEF SInv, Waiting, UnreadIsEnd, QueuedLater, Queued, Serving, Taken, Forwarded
<1>4. TakenIsForwarded' /\ LastByte' /\ EchoReadsOnce'
  BY <1>1 DEF TakenIsForwarded, LastByte, EchoReadsOnce, Running
<1>5. AnsweredIsLeft' /\ EchoEndsByItsClient'
  BY <1>1 DEF SInv, AnsweredIsLeft, EchoEndsByItsClient, Queued, Serving
<1> QED
  BY <1>1, <1>2, <1>3, <1>4, <1>5, DestUnchanged DEF SInv

LEMMA EchoAnswerKeeps == ASSUME SInv, EchoAnswer PROVE SInv'
<1>1. PICK n \in 1..MsgLen : Receive(n)
  BY DEF EchoAnswer
<1>2. CASE current \in closed /\ Fatal
  BY <1>1, <1>2, FatalKeeps
<1>3. CASE /\ answered' = answered \cup {current}
           /\ pc' = "accept"
           /\ current' = None
           /\ UNCHANGED <<mode, queue, cstate, closed, dest>>
  <2>1. /\ pc = "serve" /\ current \in Client /\ mode = "echo"
        /\ n <= Len(unread[current])
        /\ unread' = [unread EXCEPT ![current] = SubSeq(@, n + 1, Len(@))]
        /\ dest = <<>>
    BY <1>1 DEF EchoAnswer, Receive, SInv, Waiting, Serving
  <2>2. /\ UnreadIsEnd' /\ unread' \in [Client -> Seq(Byte)]
        /\ \A d \in Client \ {current} : unread'[d] = unread[d]
    BY <1>3, <2>1, ReceiveCuts
  <2>3. TypeOK'
    BY <1>3, <2>1, <2>2 DEF SInv, TypeOK, Byte
  <2>4. Waiting' /\ QueuedLater'
    BY <1>3, <2>1 DEF SInv, Waiting, QueuedLater, Queued, Serving, Forwarded
  <2>5. TakenIsForwarded' /\ LastByte'
    BY <1>3, <2>1 DEF TakenIsForwarded, LastByte
  <2>6. EchoReadsOnce'
    <3>1. ASSUME NEW d \in Client, Queued(d) PROVE d # current
      BY <2>1, <3>1 DEF SInv, Waiting, Serving
    <3> QED
      BY <1>3, <2>1, <2>2, <3>1 DEF SInv, EchoReadsOnce, Queued, Serving, Running
  <2>7. EchoEndsByItsClient'
    BY <1>3 DEF EchoEndsByItsClient
  <2>8. AnsweredIsLeft'
    <3>1. cstate[current] = "sent"
      BY <1>3, <2>1, ReceiveCuts
    <3>2. ~Queued(current)
      BY <2>1 DEF SInv, Waiting, Serving
    <3> QED
      BY <1>3, <2>1, <3>1, <3>2 DEF SInv, AnsweredIsLeft, Queued, Serving
  <2> QED
    BY <1>3, <2>2, <2>3, <2>4, <2>5, <2>6, <2>7, <2>8, DestUnchanged DEF SInv
<1> QED
  BY <1>2, <1>3 DEF EchoAnswer

LEMMA EchoReturnKeeps == ASSUME SInv, EchoReturn PROVE SInv'
<1>1. /\ mode = "echo" /\ pc = "serve" /\ current \in closed /\ unread[current] = <<>>
      /\ pc' = "stopped" /\ current' = None
      /\ UNCHANGED <<mode, queue, cstate, closed, unread, dest, answered>>
  BY DEF EchoReturn, ReceiveNothing
<1>2. TypeOK'
  BY <1>1 DEF SInv, TypeOK
<1>3. Waiting' /\ UnreadIsEnd' /\ QueuedLater'
  BY <1>1 DEF SInv, Waiting, UnreadIsEnd, QueuedLater, Queued, Serving, Taken, Forwarded
<1>4. TakenIsForwarded' /\ LastByte' /\ EchoReadsOnce'
  BY <1>1 DEF TakenIsForwarded, LastByte, EchoReadsOnce, Running
<1>5. EchoEndsByItsClient'
  <2>1. current \in Client /\ cstate[current] \in {"new", "open", "sent"} /\ cstate[current] # "new"
    BY <1>1 DEF SInv, TypeOK, Waiting, Serving
  <2>2. cstate[current] # "sent"
    BY <1>1, <2>1, SizeAssumption DEF SInv, EchoReadsOnce, Running, Serving
  <2>3. current \notin answered
    BY <1>1 DEF SInv, AnsweredIsLeft, Serving
  <2> QED
    BY <1>1, <2>1, <2>2, <2>3 DEF EchoEndsByItsClient
<1>6. AnsweredIsLeft'
  BY <1>1 DEF SInv, AnsweredIsLeft, Queued, Serving
<1> QED
  BY <1>1, <1>2, <1>3, <1>4, <1>5, <1>6, DestUnchanged DEF SInv

LEMMA ForwardEndKeeps == ASSUME SInv, ForwardEnd PROVE SInv'
<1>1. /\ mode = "forward" /\ pc = "serve" /\ current \in closed /\ unread[current] = <<>>
      /\ pc' = "accept" /\ current' = None
      /\ UNCHANGED <<mode, queue, cstate, closed, unread, dest, answered>>
  BY DEF ForwardEnd, ReceiveNothing
<1>2. TypeOK'
  BY <1>1 DEF SInv, TypeOK
<1>3. Waiting' /\ UnreadIsEnd' /\ QueuedLater' /\ TakenIsForwarded'
  BY <1>1 DEF SInv, Waiting, UnreadIsEnd, QueuedLater, TakenIsForwarded, Queued, Serving,
              Running, Taken, Forwarded
<1>4. LastByte'
  <2>1. Taken(current) = MsgLen
    BY <1>1, SizeAssumption DEF Taken
  <2> QED
    BY <1>1, <2>1 DEF SInv, LastByte, Running, Serving
<1>5. EchoReadsOnce' /\ EchoEndsByItsClient' /\ AnsweredIsLeft'
  BY <1>1 DEF SInv, EchoReadsOnce, EchoEndsByItsClient, AnsweredIsLeft, Queued, Serving
<1> QED
  BY <1>1, <1>2, <1>3, <1>4, <1>5, DestUnchanged DEF SInv

LEMMA ForwardFailsKeeps == ASSUME SInv, ForwardFails PROVE SInv'
  BY FatalKeeps DEF ForwardFails

LEMMA Concatenation ==
    ASSUME NEW s \in Seq(Byte), NEW t \in Seq(Byte)
    PROVE  /\ s \o t \in Seq(Byte)
           /\ Len(s \o t) = Len(s) + Len(t)
           /\ \A i \in 1..Len(s \o t) :
                 (s \o t)[i] = IF i <= Len(s) THEN s[i] ELSE t[i - Len(s)]
  OBVIOUS

LEMMA Prefix ==
    ASSUME NEW s \in Seq(Byte), NEW n \in Nat, n <= Len(s)
    PROVE  /\ SubSeq(s, 1, n) \in Seq(Byte)
           /\ Len(SubSeq(s, 1, n)) = n
           /\ \A i \in 1..n : SubSeq(s, 1, n)[i] = s[i]
  OBVIOUS

\* The next bytes of the client being served join those forwarded.
LEMMA ForwardSomeKeeps == ASSUME SInv, ForwardSome PROVE SInv'
<1>1. PICK n \in 1..MsgLen :
          /\ Receive(n)
          /\ dest' = dest \o SubSeq(unread[current], 1, n)
  BY DEF ForwardSome
<1>2. /\ mode = "forward" /\ pc = "serve" /\ current \in Client
      /\ n <= Len(unread[current])
      /\ unread' = [unread EXCEPT ![current] = SubSeq(@, n + 1, Len(@))]
      /\ UNCHANGED <<mode, pc, current, queue, cstate, closed, answered>>
  BY <1>1 DEF ForwardSome, Receive, SInv, Waiting, Serving
<1> PICK c \in Client : c = current
  BY <1>2
<1> DEFINE t == Taken(c)
           k == Len(dest)
<1>3. /\ unread' \in [Client -> Seq(Byte)]
      /\ \A d \in Client \ {c} : unread'[d] = unread[d]
      /\ cstate[c] = "sent"
      /\ Len(unread'[c]) = Len(unread[c]) - n
      /\ Len(unread[c]) \in 1..MsgLen
      /\ \A i \in 1..n : unread[c][i] = <<c, t + i>>
  BY <1>2, ReceiveCuts
<1>4. /\ dest \in Seq(Byte) /\ unread[c] \in Seq(Byte) /\ k \in Nat /\ DOMAIN dest = 1..k
      /\ n \in Nat \ {0} /\ MsgLen \in Nat \ {0}
  <2>1. dest \in Seq(Byte) /\ unread \in [Client -> Seq(Byte)]
    BY DEF SInv, TypeOK, Byte
  <2> QED
    BY <2>1, SizeAssumption
<1>5. t \in Nat /\ t + n <= MsgLen
  BY <1>2, <1>3, <1>4 DEF Taken
<1>6. /\ dest' \in Seq(Byte) /\ Len(dest') = k + n /\ DOMAIN dest' = 1..(k + n)
      /\ \A i \in 1..k : dest'[i] = dest[i]
      /\ \A i \in (k + 1)..(k + n) : dest'[i] = <<c, t + i - k>>
  <2> DEFINE p == SubSeq(unread[c], 1, n)
  <2>1. p \in Seq(Byte) /\ Len(p) = n /\ \A i \in 1..n : p[i] = <<c, t + i>>
    <3>1. unread[c] \in Seq(Byte) /\ n \in Nat /\ n <= Len(unread[c])
      BY <1>2, <1>4
    <3>2. p \in Seq(Byte) /\ Len(p) = n /\ \A i \in 1..n : p[i] = unread[c][i]
      BY <3>1, Prefix
    <3> QED
      BY <1>3, <3>2
  <2> HIDE DEF p
  <2>2. dest' = dest \o p
    BY <1>1 DEF p
  <2>3. /\ dest' \in Seq(Byte) /\ Len(dest') = k + n
        /\ \A i \in 1..(k + n) : dest'[i] = IF i <= k THEN dest[i] ELSE p[i - k]
    BY <1>4, <2>1, <2>2, Concatenation
  <2>4. ASSUME NEW i \in (k + 1)..(k + n) PROVE dest'[i] = <<c, t + i - k>>
    <3>1. i \in 1..(k + n) /\ ~(i <= k) /\ i - k \in 1..n /\ t + (i - k) = t + i - k
      BY <1>4, <1>5
    <3> QED
      BY <2>1, <2>3, <3>1
  <2> QED
    BY <1>4, <2>3, <2>4
<1> HIDE DEF t, k
<1>7. ASSUME NEW d \in Client, NEW i \in 1..MsgLen
      PROVE  Forwarded(<<d, i>>)' <=> Forwarded(<<d, i>>) \/ (d = c /\ i > t /\ i <= t + n)
  <2>1. Forwarded(<<d, i>>) => Forwarded(<<d, i>>)'
    <3>1. \A j \in DOMAIN dest : j \in DOMAIN dest' /\ dest'[j] = dest[j]
      BY <1>4, <1>6
    <3> QED
      BY <3>1 DEF Forwarded
  <2>2. CASE d = c /\ i > t /\ i <= t + n
    <3>1. k + i - t \in (k + 1)..(k + n) /\ t + (k + i - t) - k = i /\ k + i - t \in 1..(k + n)
      BY <1>4, <1>5, <2>2
    <3>2. dest'[k + i - t] = <<c, i>>
      BY <1>6, <3>1
    <3> QED
      BY <1>6, <2>2, <3>1, <3>2 DEF Forwarded
  <2>3. ASSUME NEW j \in 1..(k + n), dest'[j] = <<d, i>>, ~Forwarded(<<d, i>>)
        PROVE  d = c /\ i > t /\ i <= t + n
    <3>1. j \in (k + 1)..(k + n)
      <4>1. j \in 1..k \/ j \in (k + 1)..(k + n)
        BY <1>4
      <4>2. ASSUME j \in 1..k PROVE FALSE
        BY <1>4, <1>6, <2>3, <4>2 DEF Forwarded
      <4> QED
        BY <4>1, <4>2
    <3>2. d = c /\ i = t + j - k
      BY <1>6, <2>3, <3>1
    <3> QED
      BY <1>4, <1>5, <3>1, <3>2
  <2> QED
    BY <1>6, <2>1, <2>2, <2>3 DEF Forwarded
<1>8. /\ \A i \in 1..MsgLen : Forwarded(<<c, i>>) <=> i <= t
      /\ Taken(c)' = t + n /\ \A d \in Client \ {c} : Taken(d)' = Taken(d)
  <2>1. \A i \in 1..MsgLen : Forwarded(<<c, i>>) <=> i <= t
    BY <1>2, <1>3 DEF SInv, TakenIsForwarded, Running, t
  <2>2. Taken(c)' = t + n
    BY <1>3, <1>4 DEF Taken, t
  <2> QED
    BY <1>3, <2>1, <2>2 DEF Taken
<1>9. TypeOK'
  BY <1>2, <1>3, <1>6 DEF SInv, TypeOK, Byte
<1>10. Waiting'
  BY <1>2 DEF SInv, Waiting, Queued, Serving
<1>11. UnreadIsEnd'
  <2>1. ASSUME NEW d \in Client, cstate[d] # "sent"
        PROVE  unread'[d] = <<>> /\ \A i \in 1..MsgLen : ~Forwarded(<<d, i>>)'
    <3>1. d # c
      BY <1>3, <2>1
    <3>2. unread[d] = <<>> /\ \A i \in 1..MsgLen : ~Forwarded(<<d, i>>)
      BY <2>1 DEF SInv, UnreadIsEnd
    <3> QED
      BY <1>3, <1>7, <3>1, <3>2
  <2>2. ASSUME NEW d \in Client, cstate[d] = "sent"
        PROVE  /\ Len(unread'[d]) <= MsgLen
               /\ \A i \in DOMAIN unread'[d] : unread'[d][i] = <<d, MsgLen - Len(unread'[d]) + i>>
    BY <1>2, <2>2, ReceiveCuts
  <2> QED
    BY <1>2, <2>1, <2>2 DEF UnreadIsEnd, Taken
<1>12. TakenIsForwarded'
  <2>1. ASSUME NEW d \in Client, NEW i \in 1..MsgLen, cstate[d] = "sent"
        PROVE  Forwarded(<<d, i>>)' <=> i <= Taken(d)'
    <3>1. CASE d = c
      BY <1>4, <1>5, <1>7, <1>8, <3>1
    <3>2. CASE d # c
      BY <1>2, <1>7, <1>8, <2>1, <3>2 DEF SInv, TakenIsForwarded, Running
    <3> QED
      BY <3>1, <3>2
  <2> QED
    BY <1>2, <2>1 DEF TakenIsForwarded
<1>13. QueuedLater'
  <2>1. ASSUME NEW d \in Client, Queued(d) PROVE d # c
    BY <1>2, <2>1 DEF SInv, Waiting, Serving
  <2> QED
    BY <1>2, <1>7, <2>1 DEF SInv, QueuedLater, Queued
<1>14. dest'[k + n] = <<c, t + n>> /\ Len(dest') = k + n
  <2>1. k + n \in (k + 1)..(k + n) /\ t + (k + n) - k = t + n
    BY <1>4, <1>5
  <2> QED
    BY <1>6, <2>1
<1>15. LastByte'
  BY <1>2, <1>8, <1>14 DEF LastByte, Serving
<1>16. Once'
  <2>1. \A i \in 1..k : \A j \in (k + 1)..(k + n) : dest'[i] # dest'[j]
    <3>1. ASSUME NEW i \in 1..k, NEW j \in (k + 1)..(k + n), dest'[i] = dest'[j] PROVE FALSE
      <4>1. t + j - k \in 1..MsgLen /\ t + j - k > t
        BY <1>4, <1>5
      <4>2. dest[i] = <<c, t + j - k>>
        BY <1>6, <3>1
      <4>3. Forwarded(<<c, t + j - k>>)
        BY <1>4, <4>2 DEF Forwarded
      <4> QED
        BY <1>4, <1>5, <1>8, <4>1, <4>3
    <3> QED
      BY <3>1
  <2>2. \A i, j \in 1..k : dest'[i] = dest'[j] => i = j
    BY <1>4, <1>6 DEF SInv, Once
  <2>3. \A i, j \in (k + 1)..(k + n) : dest'[i] = dest'[j] => i = j
    <3>1. ASSUME NEW i \in (k + 1)..(k + n), NEW j \in (k + 1)..(k + n), dest'[i] = dest'[j]
          PROVE  i = j
      <4>1. t + i - k = t + j - k
        BY <1>6, <3>1
      <4> QED
        BY <1>4, <1>5, <4>1
    <3> QED
      BY <3>1
  <2>4. \A i \in DOMAIN dest' : i \in 1..k \/ i \in (k + 1)..(k + n)
    BY <1>4, <1>6
  <2> QED
    BY <2>1, <2>2, <2>3, <2>4 DEF Once
<1>17. Blocks'
  <2>1. ASSUME NEW i \in 1..(k + n - 1)
        PROVE  IF dest'[i][1] = dest'[i + 1][1]
               THEN dest'[i + 1][2] = dest'[i][2] + 1
               ELSE dest'[i][2] = MsgLen /\ dest'[i + 1][2] = 1
    <3>1. CASE i + 1 <= k
      <4>1. i \in 1..(k - 1) /\ i \in 1..k /\ i + 1 \in 1..k
        BY <1>4, <3>1
      <4>2. dest'[i] = dest[i] /\ dest'[i + 1] = dest[i + 1]
        BY <1>6, <4>1
      <4>3. IF dest[i][1] = dest[i + 1][1] THEN dest[i + 1][2] = dest[i][2] + 1
            ELSE dest[i][2] = MsgLen /\ dest[i + 1][2] = 1
        BY <4>1 DEF SInv, Blocks, k
      <4> QED
        BY <4>2, <4>3
    <3>2. CASE i > k
      <4>1. i \in (k + 1)..(k + n) /\ i + 1 \in (k + 1)..(k + n)
        BY <1>4, <3>2
      <4>2. dest'[i] = <<c, t + i - k>> /\ dest'[i + 1] = <<c, t + (i + 1) - k>>
        BY <1>6, <4>1
      <4> QED
        BY <1>4, <1>5, <4>2
    <3>3. CASE i = k
      <4>1. i \in 1..k /\ i + 1 \in (k + 1)..(k + n) /\ t + (i + 1) - k = t + 1
        BY <1>4, <1>5, <3>3
      <4>2. dest'[i] = dest[k] /\ dest'[i + 1] = <<c, t + 1>> /\ dest # <<>>
        BY <1>4, <1>6, <3>3, <4>1
      <4>3. CASE dest[k][1] = c
        <5>1. dest[k][2] = t
          BY <1>2, <4>2, <4>3 DEF SInv, LastByte, Running, Serving, k, t
        <5> QED
          BY <4>2, <4>3, <5>1
      <4>4. CASE dest[k][1] # c
        <5>1. dest[k][2] = MsgLen /\ \A j \in 1..MsgLen : ~Forwarded(<<c, j>>)
          BY <1>2, <4>2, <4>4 DEF SInv, LastByte, Running, Serving, k
        <5>2. t = 0
          <6>1. ASSUME t # 0 PROVE FALSE
            <7>1. t \in 1..MsgLen /\ t <= t
              BY <1>4, <1>5, <6>1
            <7> QED
              BY <1>8, <5>1, <7>1
          <6> QED
            BY <6>1
        <5> QED
          BY <4>2, <4>4, <5>1, <5>2
      <4> QED
        BY <4>3, <4>4
    <3> QED
      BY <1>4, <3>1, <3>2, <3>3
  <2>2. Len(dest') - 1 = k + n - 1
    BY <1>4, <1>6
  <2>3. \A i \in 1..(Len(dest') - 1) :
           IF dest'[i][1] = dest'[i + 1][1]
           THEN dest'[i + 1][2] = dest'[i][2] + 1
           ELSE dest'[i][2] = MsgLen /\ dest'[i + 1][2] = 1
    BY <2>1, <2>2
  <2> QED
    BY <2>3, Zenon DEF Blocks
<1>18. EchoReadsOnce' /\ EchoEndsByItsClient' /\ AnsweredIsLeft' /\ (mode' = "echo" => dest' = <<>>)
  BY <1>2 DEF SInv, EchoReadsOnce, EchoEndsByItsClient, AnsweredIsLeft, Queued, Serving
<1> QED
  BY <1>9, <1>10, <1>11, <1>12, <1>13, <1>15, <1>16, <1>17, <1>18 DEF SInv

LEMMA Inductive == SInv /\ [Next]_vars => SInv'
<1> SUFFICES ASSUME SInv, [Next]_vars PROVE SInv'
  OBVIOUS
<1>1. CASE UNCHANGED vars
  <2>1. UNCHANGED <<mode, pc, current, queue, cstate, closed, unread, dest, answered>>
    BY <1>1 DEF vars
  <2>2. TypeOK' /\ EchoEndsByItsClient'
    BY <2>1 DEF SInv, TypeOK, EchoEndsByItsClient
  <2>3. /\ Waiting' /\ UnreadIsEnd' /\ TakenIsForwarded' /\ QueuedLater' /\ LastByte'
        /\ EchoReadsOnce' /\ AnsweredIsLeft'
    BY <2>1 DEF SInv, Waiting, UnreadIsEnd, TakenIsForwarded, QueuedLater, LastByte,
                EchoReadsOnce, AnsweredIsLeft, Queued, Serving, Running, Taken, Forwarded
  <2> QED
    BY <2>1, <2>2, <2>3, DestUnchanged DEF SInv
<1>2. CASE \E c \in Client : Connect(c) \/ SendMessage(c) \/ CloseEnd(c)
  BY <1>2, ConnectKeeps, SendMessageKeeps, CloseEndKeeps
<1>3. CASE Server
  BY <1>3, AcceptKeeps, EchoAnswerKeeps, EchoReturnKeeps, ForwardSomeKeeps, ForwardFailsKeeps,
     ForwardEndKeeps DEF Server
<1> QED
  BY <1>1, <1>2, <1>3, ReceiveFailsKeeps DEF Next

LEMMA Invariant == Spec => []SInv
  BY Initial, Inductive, PTL DEF Spec

LEMMA RestOfMessage ==
    ASSUME NEW n \in Nat, NEW u \in Nat, u <= n, NEW i \in 1..n, ~(i <= n - u)
    PROVE  i - (n - u) \in 1..u /\ (n - u) + (i - (n - u)) = i
  OBVIOUS

\* The bytes of the clients stay apart on the one connection, in order, each once, and
\* none is lost while the server runs, for any number of clients and cuts.
THEOREM ForwardingKeepsOrder == Spec => []ForwardedInBlocks
<1>1. SInv => ForwardedInBlocks
  <2> SUFFICES ASSUME SInv PROVE ForwardedInBlocks
    OBVIOUS
  <2>1. ASSUME mode = "forward", pc \in {"accept", "serve"}, NEW c \in Client,
               NEW i \in 1..MsgLen, cstate[c] = "sent", ~Forwarded(<<c, i>>)
        PROVE  \E j \in DOMAIN unread[c] : unread[c][j] = <<c, i>>
    <3>1. /\ Len(unread[c]) \in Nat /\ DOMAIN unread[c] = 1..Len(unread[c])
          /\ Len(unread[c]) <= MsgLen /\ MsgLen \in Nat
          /\ \A j \in DOMAIN unread[c] : unread[c][j] = <<c, Taken(c) + j>>
      BY <2>1, SizeAssumption DEF SInv, TypeOK, UnreadIsEnd
    <3>2. ~(i <= Taken(c)) /\ Taken(c) = MsgLen - Len(unread[c])
      <4>1. TakenIsForwarded
        BY DEF SInv
      <4> QED
        BY <2>1, <4>1 DEF TakenIsForwarded, Running, Taken
    <3>3. i - Taken(c) \in DOMAIN unread[c] /\ Taken(c) + (i - Taken(c)) = i
      <4>1. PICK u \in Nat : u = Len(unread[c])
        BY <3>1
      <4>2. MsgLen \in Nat /\ u <= MsgLen /\ ~(i <= MsgLen - u)
        BY <3>1, <3>2, <4>1
      <4>3. i - (MsgLen - u) \in 1..u /\ (MsgLen - u) + (i - (MsgLen - u)) = i
        BY <4>2, RestOfMessage
      <4> QED
        BY <3>1, <3>2, <4>1, <4>3
    <3> QED
      BY <3>1, <3>3
  <2> QED
    BY <2>1 DEF SInv, ForwardedInBlocks, Blocks, Once
<1> QED
  BY <1>1, Invariant, PTL

\* The echo server reads nothing of a client before it serves it and leaves each
\* client it answers, so only the client it serves ends it: one that closed
\* without a byte, or one that is gone at a receive or a send.
THEOREM OnlyItsClientEndsEcho == Spec => []EchoEndsByItsClient
<1>1. SInv => EchoEndsByItsClient
  BY DEF SInv
<1> QED
  BY <1>1, Invariant, PTL
=============================================================================
