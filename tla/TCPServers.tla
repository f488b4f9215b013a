------------------------------ MODULE TCPServers ------------------------------
(***************************************************************************)
(* The echo and forward modes of networks/http-prework/main.go.  Both take *)
(* one client at a time off the listen queue.  echoServer reads once and   *)
(* answers with a fixed page; forwardingServer copies all a client sends   *)
(* to one connection it opened before the first client came.               *)
(*                                                                         *)
(* Clients are external: each connects, may send a message once, and may   *)
(* close.  A byte is the pair of its client and its position.              *)
(***************************************************************************)
EXTENDS Naturals, Sequences

CONSTANTS Client,   \* the clients
          MsgLen,   \* length of a client's message
          BufSize,  \* MSG_BUFFER_SIZE
          None      \* no client

ASSUME SizeAssumption == MsgLen \in Nat \ {0} /\ BufSize \in Nat \ {0}

VARIABLES mode,      \* the flag -mode
          pc,        \* "accept", "serve", "stopped" (returned) or "fatal"
          current,   \* the client served
          queue,     \* the listen queue
          cstate,    \* cstate[c]: "new", "open", "sent"
          closed,    \* the clients that closed or reset their end
          unread,    \* unread[c]: bytes of c the server has not read
          dest,      \* bytes sent on the destination connection
          answered   \* clients that were sent the page

vars == <<mode, pc, current, queue, cstate, closed, unread, dest, answered>>

Message(c) == [i \in 1..MsgLen |-> <<c, i>>]

Init == /\ mode \in {"echo", "forward"}
        /\ pc = "accept"
        /\ current = None
        /\ queue = <<>>
        /\ cstate = [c \in Client |-> "new"]
        /\ closed = {}
        /\ unread = [c \in Client |-> <<>>]
        /\ dest = <<>>
        /\ answered = {}

Connect(c) == /\ cstate[c] = "new"
              /\ pc \in {"accept", "serve"}
              /\ cstate' = [cstate EXCEPT ![c] = "open"]
              /\ queue' = Append(queue, c)
              /\ UNCHANGED <<mode, pc, current, closed, unread, dest, answered>>

SendMessage(c) == /\ cstate[c] = "open"
                  /\ c \notin closed
                  /\ cstate' = [cstate EXCEPT ![c] = "sent"]
                  /\ unread' = [unread EXCEPT ![c] = Message(c)]
                  /\ UNCHANGED <<mode, pc, current, queue, closed, dest, answered>>

CloseEnd(c) == /\ cstate[c] \in {"open", "sent"}
               /\ c \notin closed
               /\ closed' = closed \cup {c}
               /\ UNCHANGED <<mode, pc, current, queue, cstate, unread, dest, answered>>

\* unix.Accept, in either mode.
Accept == /\ pc = "accept"
          /\ queue # <<>>
          /\ pc' = "serve"
          /\ current' = Head(queue)
          /\ queue' = Tail(queue)
          /\ UNCHANGED <<mode, cstate, closed, unread, dest, answered>>

\* Recvfrom returns some of the bytes that have arrived.
Receive(n) == /\ pc = "serve"
              /\ n <= BufSize /\ n <= Len(unread[current])
              /\ unread' = [unread EXCEPT ![current] =
                               SubSeq(@, n + 1, Len(@))]

\* Recvfrom returns 0: the client closed and all is read.
ReceiveNothing == /\ pc = "serve"
                  /\ current \in closed
                  /\ unread[current] = <<>>

\* handleError: log.Fatal ends the process.
Fatal == /\ pc' = "fatal"
         /\ UNCHANGED <<mode, current, queue, cstate, closed, dest, answered>>

\* Recvfrom fails, in either mode: the client reset the connection.
ReceiveFails == /\ pc = "serve"
                /\ current \in closed
                /\ Fatal
                /\ UNCHANGED unread

\* echoServer: one read, one answer, and the next client.  Sendto fails if the
\* client is gone.
EchoAnswer == /\ mode = "echo"
              /\ \E n \in 1..MsgLen : Receive(n)
              /\ \/ /\ answered' = answered \cup {current}
                    /\ pc' = "accept"
                    /\ current' = None
                    /\ UNCHANGED <<mode, queue, cstate, closed, dest>>
                 \/ current \in closed /\ Fatal

\* Mutant of EchoReturn: any client that closed makes it return.
EchoReturnEarly == /\ mode = "echo"
                   /\ pc = "serve"
                   /\ current \in closed
                   /\ pc' = "stopped"
                   /\ current' = None
                   /\ UNCHANGED <<mode, queue, cstate, closed, unread, dest, answered>>

\* Mutant of EchoReturn: the read is tried again.
EchoSpin == /\ mode = "echo"
            /\ ReceiveNothing
            /\ UNCHANGED vars

\* echoServer: a client that sent nothing makes it return.
EchoReturn == /\ mode = "echo"
              /\ ReceiveNothing
              /\ pc' = "stopped"
              /\ current' = None
              /\ UNCHANGED <<mode, queue, cstate, closed, unread, dest, answered>>

\* runForwardingLoop: message[:receivedBytes] goes to the destination.
ForwardSome == /\ mode = "forward"
               /\ \E n \in 1..MsgLen :
                     /\ Receive(n)
                     /\ dest' = dest \o SubSeq(unread[current], 1, n)
               /\ UNCHANGED <<mode, pc, current, queue, cstate, closed, answered>>

\* Sendto fails: the destination is gone.
ForwardFails == /\ mode = "forward"
                /\ \E n \in 1..MsgLen : Receive(n)
                /\ Fatal

\* Mutant of ForwardEnd: the loop gives way to the next client when it has read
\* all there is.
ForwardYield == /\ mode = "forward"
                /\ pc = "serve"
                /\ pc' = "accept"
                /\ current' = None
                /\ queue' = IF unread[current] = <<>> /\ current \in closed
                            THEN queue ELSE Append(queue, current)
                /\ UNCHANGED <<mode, cstate, closed, unread, dest, answered>>

\* runForwardingLoop: the client closed, the next one is accepted.
ForwardEnd == /\ mode = "forward"
              /\ ReceiveNothing
              /\ pc' = "accept"
              /\ current' = None
              /\ UNCHANGED <<mode, queue, cstate, closed, unread, dest, answered>>

Server == \/ Accept
          \/ EchoAnswer
          \/ EchoReturn
          \/ ForwardSome
          \/ ForwardFails
          \/ ForwardEnd

Next == \/ \E c \in Client : Connect(c) \/ SendMessage(c) \/ CloseEnd(c)
        \/ Server
        \/ ReceiveFails

Spec == Init /\ [][Next]_vars

\* The server goes on when it can; clients owe nothing, and no receive has to fail.
FairSpec == Spec /\ WF_vars(Server)

-----------------------------------------------------------------------------
\* Type invariant.
TypeOK == /\ mode \in {"echo", "forward"}
          /\ pc \in {"accept", "serve", "stopped", "fatal"}
          /\ current \in Client \cup {None}
          /\ queue \in Seq(Client)
          /\ cstate \in [Client -> {"new", "open", "sent"}]
          /\ closed \subseteq Client
          /\ unread \in [Client -> Seq(Client \X (1..MsgLen))]
          /\ dest \in Seq(Client \X (1..MsgLen))
          /\ answered \subseteq Client

Forwarded(b) == \E i \in DOMAIN dest : dest[i] = b

\* The bytes of different clients share the destination connection and never
\* mix: each client's bytes are one block, complete before the next one starts,
\* in the order it sent them, and none comes twice.  None is lost while the server
\* runs: what a client sent is unread or forwarded.  The variables keep their types.
ForwardedInBlocks ==
    /\ TypeOK
    /\ \A i \in 1..(Len(dest) - 1) :
          IF dest[i][1] = dest[i + 1][1]
          THEN dest[i + 1][2] = dest[i][2] + 1
          ELSE dest[i][2] = MsgLen /\ dest[i + 1][2] = 1
    /\ \A i, j \in DOMAIN dest : dest[i] = dest[j] => i = j
    /\ mode = "forward" /\ pc \in {"accept", "serve"} =>
          \A c \in Client, i \in 1..MsgLen :
              cstate[c] = "sent" => \/ Forwarded(<<c, i>>)
                                    \/ \E j \in DOMAIN unread[c] : unread[c][j] = <<c, i>>

\* The echo server ends only by the client it serves, whoever else is waiting, and
\* never by one it has answered: it returns for a client that closed without a
\* byte, and a receive or a send that fails ends it for one that is gone.
EchoEndsByItsClient ==
    /\ pc = "stopped" => \E c \in closed \ answered : cstate[c] = "open"
    /\ pc = "fatal" /\ mode = "echo" => current \in closed \ answered

\* A client being served that has closed its end is done with, whatever it sent
\* before: the server goes on to the next or ends and never waits any longer.
ServedClientIsLeft ==
    \A c \in Client :
        current = c /\ c \in closed ~> current # c \/ pc = "fatal"
=============================================================================
