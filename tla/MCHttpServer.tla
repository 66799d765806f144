----------------------------- MODULE MCHttpServer -----------------------------
(***************************************************************************)
(* HttpServer for TLC: two workers, a pool that two connections exhaust,   *)
(* and a spare descriptor for the connection main holds meanwhile.         *)
(***************************************************************************)
EXTENDS HttpServer, TLC

\* Workers, Requests and descriptors are interchangeable (safety runs only).
Symmetric ==
  Permutations(Workers) \cup Permutations(Requests) \cup Permutations(Fds)
=============================================================================
