----------------------------- MODULE MCDNSClient -----------------------------
(* Seven names, whose replies use compression as servers do.               *)
EXTENDS DNSClient

Letters(n, c) == [i \in 1..n |-> c]
WWW == <<119, 119, 119>>
COM == <<99, 111, 109>>
IPv4 == <<142, 250, 65, 228>>
A(p) == Record(Pointer(p), TypeA, IPv4)

\* One address; the second record's owner is written out.
Short == <<WWW, COM>>
ShortReply == Reply(Short, <<A(12), Record(Plainly(Short), TypeA, IPv4)>>)

\* An alias that shares the suffix of the question, and its address.
Alias == <<WWW, <<102, 98>>, COM>>
AliasReply == Reply(Alias,
    <<Record(Pointer(12), TypeCNAME, Labels(<<<<115>>, <<99, 49>>>>) \o Pointer(16)), A(40)>>)

\* A name with a digit and a hyphen.
Hyphen == <<<<97, 45, 49>>, COM>>
HyphenReply == Reply(Hyphen, <<A(12)>>)

\* A record of another type before the address.
Mixed == <<<<109>>, COM>>
MixedReply == Reply(Mixed, <<Record(Pointer(12), 46, <<0, 1, 5>>), A(12)>>)

\* First labels of 17 bytes, and of 63 bytes of one letter.
Long == <<Letters(17, 98), COM>>
LongReply == Reply(Long, <<A(12)>>)
Longest == <<Letters(63, 97), COM>>
LongestReply == Reply(Longest, <<A(12)>>)

\* Aliases that fill more than 256 bytes.
Wide(c) == <<Letters(47, c), Letters(15, c)>>
Far == <<WWW>>
FarReply == Reply(Far, <<Record(Pointer(12), TypeCNAME, Plainly(Wide(112))),
    Record(Pointer(33), TypeCNAME, Plainly(Wide(113))),
    Record(Pointer(110), TypeCNAME, Plainly(Wide(114))),
    Record(Pointer(187), TypeCNAME, Plainly(<<WWW, WWW>>)),
    A(264)>>)

MCZone == [name \in {Short, Alias, Hyphen, Mixed, Long, Longest, Far} |->
             CASE name = Short -> ShortReply [] name = Alias -> AliasReply
               [] name = Hyphen -> HyphenReply [] name = Mixed -> MixedReply
               [] name = Long -> LongReply [] name = Longest -> LongestReply
               [] name = Far -> FarReply]
=============================================================================
