------------------------------- MODULE Exchange -------------------------------
(***************************************************************************)
(* What handle_request promises the client of a connection, whatever the   *)
(* stages inside do: there is at most one answer.  Nothing is sent while   *)
(* the request is being received; then the status and the Content-Length   *)
(* are settled once, for good, and the body follows, never more of it than *)
(* was announced.  The connection may be closed at any time, and then      *)
(* nothing is sent any more.                                               *)
(***************************************************************************)
EXTENDS Naturals

CONSTANTS
  Answers,    \* the statuses an answer may have
  NoAnswer    \* no answer yet

VARIABLES
  phase,      \* "receiving", "answering" or "closed"
  answer,     \* the status
  promised,   \* the Content-Length
  delivered   \* bytes of the body handed to the socket

vars == <<phase, answer, promised, delivered>>

Init ==
  /\ phase = "receiving"
  /\ answer = NoAnswer
  /\ promised = 0 /\ delivered = 0

\* The head of the answer is built.
Decide ==
  /\ phase = "receiving"
  /\ phase' = "answering"
  /\ answer' \in Answers
  /\ promised' \in Nat
  /\ UNCHANGED delivered

\* Bytes of the body leave, possibly the last ones.
Deliver ==
  /\ phase = "answering"
  /\ delivered' \in delivered..promised
  /\ phase' \in {"answering", "closed"}
  /\ UNCHANGED <<answer, promised>>

\* The connection is given up before there is an answer.
Abandon ==
  /\ phase = "receiving"
  /\ phase' = "closed"
  /\ UNCHANGED <<answer, promised, delivered>>

Next == Decide \/ Deliver \/ Abandon

Spec == Init /\ [][Next]_vars
=============================================================================
