----------------------------- MODULE MCSharedFile -----------------------------
(***************************************************************************)
(* SharedFile for TLC: four PUTs with bodies of no, one, two and two bytes *)
(* and a GET, on a file that is absent, empty or three bytes long.         *)
(***************************************************************************)
EXTENDS SharedFile

CONSTANTS p0, p1, p2, p3
Lengths == [p \in Puts |-> IF p = p0 THEN 0 ELSE IF p = p1 THEN 1 ELSE 2]
=============================================================================
