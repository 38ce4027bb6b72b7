-------------------------- MODULE MCQueryStream --------------------------
(***************************************************************************)
(* Model values for QueryStream: a host, a fallback list that repeats the  *)
(* host and has a blank entry, and estimates on both sides of each limit.  *)
(***************************************************************************)
EXTENDS QueryStream

CONSTANTS h1, h2

Fallbacks == <<h1, NoHost, h2>>
Bytes == {1, 2, 3}
==========================================================================
