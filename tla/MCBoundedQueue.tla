---------------------------- MODULE MCBoundedQueue ----------------------------
(***************************************************************************)
(* BoundedQueue for TLC: a few threads, two pointers and a ring small      *)
(* enough to wrap and to fill.                                             *)
(***************************************************************************)
EXTENDS BoundedQueue, TLC

\* Threads and pointers are interchangeable (safety runs only).
Symmetric == Permutations(Threads) \cup Permutations(Elems)
=============================================================================
