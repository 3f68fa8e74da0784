---------------------------- MODULE MCHttpServer ----------------------------
(* Instance of HttpServer for TLC: a connection of two requests and one of a *)
(* single GET of the description.                                            *)
EXTENDS HttpServer, TLC

CONSTANTS c1, c2

Get == [kind |-> "get", last |-> FALSE, body |-> 0]
Post == [kind |-> "other", last |-> TRUE, body |-> 2]
Refused == [kind |-> "noHost", last |-> TRUE, body |-> 0]

RequestsDef == {Get, Post, Refused}
OffersDef == c1 :> <<{Get, Post, Refused}, {Get, Post}>> @@ c2 :> <<{Get}>>
=============================================================================
