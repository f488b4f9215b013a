------------------------------ MODULE HTTPStream ------------------------------
(***************************************************************************)
(* The incremental HTTP parser of networks/http-prework/main.go, which     *)
(* decides after each packet whether the message is complete.              *)
(*                                                                         *)
(* A message is a sequence of symbols: "cr" and "lf", the header text      *)
(* "Content-Length: i" as one symbol (see Announced), and any other byte,  *)
(* "x" in a header and "b" in a body.  The parser's state is the record of *)
(* what streamInHTTPMessage takes and returns.                             *)
(***************************************************************************)
EXTENDS Naturals, Sequences, FiniteSetsExt

CRLF == <<"cr", "lf">>

Announced == [n1 |-> 1, n2 |-> 2]

Fresh == [line |-> <<>>, null |-> FALSE, cl |-> 0, rcl |-> 0, done |-> FALSE]

\* parseContentLength: 0 unless the line starts with the header.
ParseContentLength(line) ==
    IF line # <<>> /\ Head(line) \in DOMAIN Announced
    THEN Announced[Head(line)] ELSE 0

\* processCompleteHTTPLine, and the line cleared by its callers.
CompleteLine(st) ==
    [st EXCEPT !.null = st.line = CRLF,
               !.cl   = IF @ = 0 THEN ParseContentLength(st.line) ELSE @,
               !.line = <<>>]

\* The test that precedes every call of streamInHTTPContent.
InContent(st) == st.null /\ st.cl # 0 /\ st.rcl < st.cl

\* Mutant of StreamContent: done as soon as some of the content is there.
StreamContentEager(p, st) ==
    [st EXCEPT !.line = p,
               !.rcl  = @ + Len(p),
               !.null = TRUE,
               !.done = Len(p) > 0]

\* streamInHTTPContent: the packet also replaces the current line.
StreamContent(p, st) ==
    [st EXCEPT !.line = p,
               !.rcl  = @ + Len(p),
               !.null = TRUE,
               !.done = st.cl = st.rcl + Len(p)]

EndsWith(line, s) == Len(line) > 0 /\ line[Len(line)] = s

HasCRLF(line) == /\ Len(line) >= 2
                 /\ SubSeq(line, Len(line) - 1, Len(line)) = CRLF

\* Where the CRLFs of p end, and where the line began that byte i + 1 of p is in.
LineEnds(p) == {i \in 2..Len(p) : p[i - 1] = "cr" /\ p[i] = "lf"}
LineStart(p, i) == Max({0} \cup {j \in LineEnds(p) : j <= i})

\* One round of the loop: what was read is added to the current line.
ReadLine(piece, st) == LET read == [st EXCEPT !.line = @ \o piece]
                       IN  IF HasCRLF(read.line) THEN CompleteLine(read) ELSE read

\* After(p, st)[i]: the parser when the loop has read i bytes of p, up to the end
\* of a line or of p.
After(p, st) ==
    LET after[i \in 0..Len(p)] ==
          IF i = 0 THEN st
          ELSE LET b == LineStart(p, i - 1) IN ReadLine(SubSeq(p, b + 1, i), after[b])
    IN  after

\* The loop over the lines of a packet, and the verdict after it.
StreamLines(p, st) ==
    LET after == After(p, st)
        stops == {i \in LineEnds(p) \cup {Len(p)} : InContent(after[i])}
        last  == after[Len(p)]
    IN  IF stops # {} THEN StreamContent(SubSeq(p, Min(stops) + 1, Len(p)), after[Min(stops)])
                      ELSE [last EXCEPT !.done = last.null /\ last.rcl = last.cl]

\* A CRLF split over two packets.
SplitCRLF(p, st) == EndsWith(st.line, "cr") /\ p[1] = "lf"

\* packet[0] of an empty packet: the index is out of range.
Panics(p, st) == ~InContent(st) /\ EndsWith(st.line, "cr") /\ p = <<>>

\* streamInHTTPMessage.  In the special case := declares a second contentLength
\* and a second receivedNullLine, so that after the block only the line is gone
\* and what the line said is forgotten.
StreamInHTTPMessage(p, st) ==
    IF InContent(st) THEN StreamContent(p, st)
    ELSE IF SplitCRLF(p, st)
    THEN LET inner == CompleteLine([st EXCEPT !.line = Append(@, "lf")])
         IN  IF InContent(inner) THEN StreamContent(Tail(p), inner)
             ELSE StreamLines(Tail(p), [st EXCEPT !.line = <<>>])
    ELSE StreamLines(p, st)

-----------------------------------------------------------------------------
(* A message as HTTP defines it, whatever packets it comes in.             *)

Byte == {"cr", "lf", "x", "b"} \cup DOMAIN Announced

\* The empty line ends the head; the first header that announces a length says
\* how many bytes follow it.
EmptyLines(m) == {i \in LineEnds(m) : i = 2 \/ i - 2 \in LineEnds(m)}
HeadEnd(m)    == Min(EmptyLines(m))
Headers(m)    == {i \in {0} \cup LineEnds(m) : i < HeadEnd(m) /\ m[i + 1] \in DOMAIN Announced}
BodyLength(m) == IF Headers(m) = {} THEN 0 ELSE Announced[m[Min(Headers(m)) + 1]]

WellFormed(m) == /\ m \in Seq(Byte)
                 /\ EmptyLines(m) # {}
                 /\ Len(m) = HeadEnd(m) + BodyLength(m)
=============================================================================
