----------------------------- MODULE MCHTTPProxy -----------------------------
(* HTTPProxy on a request without and one with a body, and responses without *)
(* a body, with a body, and with a body that looks like half a CRLF.         *)
EXTENDS HTTPProxy

Line == <<"x", "cr", "lf">>
Get == Line \o CRLF
Post == <<"n1", "cr", "lf">> \o CRLF \o <<"b">>

MCRequests == {Get, Post}
MCResponses == { Line \o CRLF,
                 Line \o <<"n2", "cr", "lf">> \o CRLF \o <<"b", "b">>,
                 <<"n1", "cr", "lf">> \o CRLF \o <<"cr">> }
=============================================================================
