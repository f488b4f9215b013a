------------------------------- MODULE HTTPProxy -------------------------------
(***************************************************************************)
(* The proxy mode of networks/http-prework/main.go: httpProxyServer serves *)
(* one client at a time; runHTTPProxyLoop relays the request to the server *)
(* and then the response to the client, packet by packet, and the parser   *)
(* of HTTPStream says when each of them ends.  Its state is not reset in   *)
(* between.                                                                *)
(*                                                                         *)
(* TCP delivers bytes in order and in packets of any size.  The clients    *)
(* and the server are external: a client sends one request, or nothing, or *)
(* disappears; the server answers when it holds the whole request, and may *)
(* close or reset the connection at any time: before its answer, within    *)
(* it, after it.                                                           *)
(***************************************************************************)
EXTENDS HTTPStream

CONSTANTS Client,     \* the clients
          Requests,   \* the requests they send
          Responses,  \* the responses the server gives
          BufSize,    \* MSG_BUFFER_SIZE
          Backlog,    \* LISTEN_QUEUE_DEPTH
          None        \* no client

ASSUME MessageAssumption == \A m \in Requests \cup Responses : WellFormed(m)
ASSUME BufSizeAssumption == BufSize \in Nat \ {0}
ASSUME NoneAssumption == None \notin Client

VARIABLES pc,        \* "accept", "request", "response" or "fatal"
          current,   \* the client served
          queue,     \* the clients in the listen queue
          cstate,    \* cstate[c]: "new", "open", "sent", "gone", "closed"
          cIn,       \* cIn[c]: bytes of c the proxy has not read
          request,   \* request[c]: the request c sends
          sent,      \* what the proxy sent to the server on this connection
          sIn,       \* bytes of the server the proxy has not read
          answered,  \* the response the server chose, <<>> before that
          server,    \* its end of the connection: "open", "closed" or "reset"
          toClient,  \* toClient[c]: what the proxy sent to c
          st,        \* the parser
          packets    \* history: how the packets of this connection were cut

vars == <<pc, current, queue, cstate, cIn, request, sent, sIn, answered,
          server, toClient, st, packets>>

connection == <<sent, sIn, answered, server, st, packets>>

\* crlf: some packet ended between a "cr" and its "lf"; first: the first packet
\* of the response held no complete line.
NoCuts == [crlf |-> FALSE, first |-> FALSE]

Init == /\ pc = "accept"
        /\ current = None
        /\ queue = <<>>
        /\ cstate = [c \in Client |-> "new"]
        /\ cIn = [c \in Client |-> <<>>]
        /\ request \in [Client -> Requests]
        /\ sent = <<>>
        /\ sIn = <<>>
        /\ answered = <<>>
        /\ server = "open"
        /\ toClient = [c \in Client |-> <<>>]
        /\ st = Fresh
        /\ packets = NoCuts

-----------------------------------------------------------------------------
(* The clients and the server.                                             *)

Connect(c) == /\ cstate[c] = "new"
              /\ pc # "fatal"
              /\ Len(queue) < Backlog
              /\ cstate' = [cstate EXCEPT ![c] = "open"]
              /\ queue' = Append(queue, c)
              /\ UNCHANGED <<pc, current, cIn, request, toClient, connection>>

SendRequest(c) == /\ cstate[c] = "open"
                  /\ cstate' = [cstate EXCEPT ![c] = "sent"]
                  /\ cIn' = [cIn EXCEPT ![c] = request[c]]
                  /\ UNCHANGED <<pc, current, queue, request, toClient,
                                 connection>>

Disappear(c) == /\ cstate[c] \in {"open", "sent"}
                /\ cstate' = [cstate EXCEPT ![c] = "gone"]
                /\ UNCHANGED <<pc, current, queue, cIn, request, toClient,
                               connection>>

Respond == /\ current # None
           /\ answered = <<>>
           /\ server = "open"
           /\ sent = request[current]
           /\ answered' \in Responses
           /\ sIn' = answered'
           /\ UNCHANGED <<pc, current, queue, cstate, cIn, request, sent,
                          server, toClient, st, packets>>

\* The server closes its end or resets the connection: what it had not sent by
\* then, or what the reset overtakes, never comes.
HangUp == /\ current # None
          /\ pc # "fatal"
          /\ server # "reset"
          /\ server' \in {"closed", "reset"} \ {server}
          /\ \E k \in 0..Len(sIn) : sIn' = SubSeq(sIn, 1, k)
          /\ UNCHANGED <<pc, current, queue, cstate, cIn, request, sent,
                         answered, toClient, st, packets>>

-----------------------------------------------------------------------------
(* The proxy.                                                              *)

\* Mutant of Accept: the parser state of the last connection is kept.
AcceptStale == /\ pc = "accept"
               /\ queue # <<>>
               /\ pc' = "request"
               /\ current' = Head(queue)
               /\ queue' = Tail(queue)
               /\ sent' = <<>>
               /\ sIn' = <<>>
               /\ answered' = <<>>
               /\ server' = "open"
               /\ packets' = NoCuts
               /\ UNCHANGED <<cstate, cIn, request, toClient, st>>

\* httpProxyServer: accept, and a new connection to the server.  The variables
\* of runHTTPProxyLoop start afresh.
Accept == /\ pc = "accept"
          /\ queue # <<>>
          /\ pc' = "request"
          /\ current' = Head(queue)
          /\ queue' = Tail(queue)
          /\ sent' = <<>>
          /\ sIn' = <<>>
          /\ answered' = <<>>
          /\ server' = "open"
          /\ st' = Fresh
          /\ packets' = NoCuts
          /\ UNCHANGED <<cstate, cIn, request, toClient>>

\* handleError: log.Fatal ends the process, for all clients.
Fatal == /\ pc' = "fatal"
         /\ UNCHANGED <<current, queue, cstate, cIn, request, toClient,
                        connection>>

\* httpProxyServer: the connection to the server is refused.
ConnectRefused == /\ pc = "accept"
                  /\ queue # <<>>
                  /\ Fatal

\* How packet p, followed by rest, was cut off the stream.
Cut(p, rest) ==
    [crlf  |-> packets.crlf \/ (EndsWith(p, "cr") /\ rest # <<>>
                                                 /\ Head(rest) = "lf"),
     first |-> packets.first \/ (pc = "response" /\ toClient[current] = <<>>
                                                 /\ LineEnds(p) = {})]

\* Mutant of RelayRequest: the loop does not look at done.
RelayRequestForever ==
    /\ pc = "request"
    /\ cIn[current] # <<>>
    /\ \E n \in 1..Min({BufSize, Len(cIn[current])}) :
         LET p == SubSeq(cIn[current], 1, n)
             rest == SubSeq(cIn[current], n + 1, Len(cIn[current]))
         IN  /\ cIn' = [cIn EXCEPT ![current] = rest]
             /\ sent' = sent \o p
             /\ st' = StreamInHTTPMessage(p, st)
             /\ packets' = Cut(p, rest)
    /\ UNCHANGED <<pc, current, queue, cstate, request, sIn, answered, server,
                   toClient>>

\* One round of the request loop: receive, forward, parse.
RelayRequest ==
    /\ pc = "request"
    /\ cIn[current] # <<>>
    /\ \E n \in 1..Min({BufSize, Len(cIn[current])}) :
         LET p == SubSeq(cIn[current], 1, n)
             rest == SubSeq(cIn[current], n + 1, Len(cIn[current]))
         IN  /\ cIn' = [cIn EXCEPT ![current] = rest]
             /\ sent' = sent \o p
             /\ st' = StreamInHTTPMessage(p, st)
             /\ packets' = Cut(p, rest)
    /\ pc' = IF st'.done THEN "response" ELSE pc
    /\ UNCHANGED <<current, queue, cstate, request, sIn, answered, server,
                   toClient>>

\* The client closed its end: Recvfrom returns 0 and the loop breaks, or it
\* returns ECONNRESET.
RequestEnds ==
    /\ pc = "request"
    /\ cstate[current] = "gone"
    /\ cIn[current] = <<>>
    /\ \/ /\ pc' = "response"
          /\ UNCHANGED <<current, queue, cstate, cIn, request, toClient,
                         connection>>
       \/ Fatal

\* Send on a connection that was reset returns ECONNRESET or EPIPE.
RequestFails == /\ pc = "request"
                /\ cIn[current] # <<>>
                /\ server = "reset"
                /\ Fatal

\* The end of runHTTPProxyLoop, if the parser says so: both ends are closed.
FinishOrGoOn(done) ==
    IF done
    THEN /\ pc' = "accept"
         /\ current' = None
         /\ cstate' = [cstate EXCEPT ![current] =
                          IF @ = "gone" THEN @ ELSE "closed"]
    ELSE UNCHANGED <<pc, current, cstate>>

\* One round of the response loop.
RelayResponse ==
    /\ pc = "response"
    /\ sIn # <<>>
    /\ \E n \in 1..Min({BufSize, Len(sIn)}) :
         LET p == SubSeq(sIn, 1, n)
             rest == SubSeq(sIn, n + 1, Len(sIn))
         IN  /\ sIn' = rest
             /\ toClient' = [toClient EXCEPT ![current] = @ \o p]
             /\ st' = StreamInHTTPMessage(p, st)
             /\ packets' = Cut(p, rest)
             /\ FinishOrGoOn(st'.done)
    /\ UNCHANGED <<queue, cIn, request, sent, answered, server>>

\* The server closed its end: Recvfrom returns 0, now and in every later round,
\* which this loop takes for an empty packet.
RelayNothing ==
    /\ pc = "response"
    /\ sIn = <<>>
    /\ server = "closed"
    /\ ~Panics(<<>>, st)
    /\ st' = StreamInHTTPMessage(<<>>, st)
    /\ FinishOrGoOn(st'.done)
    /\ UNCHANGED <<queue, cIn, request, sent, sIn, answered, server, toClient,
                   packets>>

\* Mutant of ResponseFails: the parser looks at packet[0] of any empty packet.
ResponseFailsOnEmpty ==
    /\ pc = "response"
    /\ \/ sIn = <<>> /\ server # "open"
       \/ sIn # <<>> /\ cstate[current] = "gone"
    /\ Fatal

\* packet[0] of that empty packet is out of range, Recvfrom on a connection that
\* was reset returns ECONNRESET, or a Send to a client that is gone EPIPE.
ResponseFails ==
    /\ pc = "response"
    /\ \/ sIn = <<>> /\ server = "closed" /\ Panics(<<>>, st)
       \/ sIn = <<>> /\ server = "reset"
       \/ sIn # <<>> /\ cstate[current] = "gone"
    /\ Fatal

Proxy == \/ Accept
         \/ ConnectRefused
         \/ RelayRequest
         \/ RequestEnds
         \/ RequestFails
         \/ RelayResponse
         \/ RelayNothing
         \/ ResponseFails

Next == \/ \E c \in Client : Connect(c) \/ SendRequest(c) \/ Disappear(c)
        \/ Respond
        \/ HangUp
        \/ Proxy

Spec == Init /\ [][Next]_vars

\* The proxy, one sequential process, and the server go on when they can.  Clients
\* owe nothing.
Fairness == /\ WF_vars(Proxy)
            /\ WF_vars(Respond)

FairSpec == Spec /\ Fairness

-----------------------------------------------------------------------------
HasBody(m) == \E i \in DOMAIN m : m[i] \in DOMAIN Announced

\* Type invariant.
TypeOK ==
    /\ pc \in {"accept", "request", "response", "fatal"}
    /\ current \in Client \cup {None}
    /\ pc \in {"request", "response"} => current # None
    /\ queue \in Seq(Client)
    /\ cstate \in [Client -> {"new", "open", "sent", "gone", "closed"}]
    /\ server \in {"open", "closed", "reset"}
    /\ st.null \in BOOLEAN /\ st.done \in BOOLEAN
    /\ st.cl \in 0..2 /\ st.rcl \in Nat

\* As long as no packet boundary falls inside a CRLF, the request loop stops
\* exactly at the end of the request, however else the bytes are cut: not
\* earlier, which would leave the server waiting for a body, and not later,
\* which would leave the proxy waiting for a client that waits for the answer.
\* The variables keep their types.
RequestEndDetected ==
    /\ TypeOK
    /\ pc = "request" /\ ~packets.crlf => sent # request[current]
    /\ pc = "response" /\ ~packets.crlf => \/ sent = request[current]
                                           \/ cstate[current] = "gone"

\* The response loop inherits the parser state of the request.  That is harmless
\* for a request without a body, if the first packet of the response holds a
\* whole line and no CRLF is split: when its connection is closed the client has
\* the whole response, or nothing at all if the server hung up.  A response that
\* the server cut short is never passed off as a whole one.
WholeResponseForBodyless ==
    [][pc = "response" /\ pc' = "accept" /\ ~HasBody(request[current])
         /\ ~packets'.crlf /\ ~packets'.first /\ answered # <<>>
            => \/ toClient'[current] = answered
               \/ toClient'[current] = <<>> /\ server # "open"]_vars

\* The last thing the parser read for this connection.
Received == IF toClient[current] = <<>> THEN sent ELSE toClient[current]

\* Nothing but a server that refuses or resets a connection, a client that
\* disappears, or a server that closes when the last byte read is half a CRLF,
\* ends the whole proxy: the empty packet that a closed connection is taken for
\* never trips the parser otherwise, wherever the response stops.
FatalCauses ==
    pc = "fatal" => \/ current = None
                    \/ cstate[current] = "gone"
                    \/ server = "reset"
                    \/ server = "closed" /\ EndsWith(Received, "cr")

\* The server closed or reset the connection within its response.
CutShort == /\ current # None
            /\ answered # <<>>
            /\ toClient[current] \o sIn # answered

\* A client that is being served, has sent its request and stays is served to
\* the end, also when the server hangs up before it answers, unless a CRLF is
\* split over two packets, the proxy fails, or the server hangs up within its
\* response.  In this last case the response loop may spin for ever on receives
\* of 0 bytes, and no client after this one is served.
ServedToTheEnd ==
    current # None /\ cstate[current] = "sent"
        ~> \/ current = None
           \/ cstate[current] = "gone"
           \/ packets.crlf
           \/ pc = "fatal"
           \/ CutShort
=============================================================================
