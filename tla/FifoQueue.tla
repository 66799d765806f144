------------------------------ MODULE FifoQueue ------------------------------
(***************************************************************************)
(* What queue.c promises its callers: a bounded first-in first-out queue   *)
(* on which every call takes effect in one indivisible step.  A thread     *)
(* opens a call, and the call completes (effect and return at once) when   *)
(* the queue allows it: a push when there is room, a pop when there is an  *)
(* element.  Outside a call a thread does what it likes with the variable  *)
(* it passes as `elem`.                                                    *)
(*                                                                         *)
(* PoolSpec adds the way httpserver.c uses its two queues: the elements    *)
(* that circulate never outnumber the slots, so that a push never finds    *)
(* the queue full.                                                         *)
(***************************************************************************)
EXTENDS Naturals, Sequences, FiniteSets

CONSTANTS
  Threads,   \* the threads that share the queue
  Elems,     \* the pointers that may be queued
  NoElem,    \* the value of a thread's variable before its first call
  Capacity   \* the size given to queue_new

VARIABLES
  items,     \* the queued elements, oldest first
  call,      \* call[t]: the operation thread t is in, or "none"
  elem       \* elem[t]: the argument of t's push, the result of t's last pop

vars == <<items, call, elem>>

TypeOK ==
  /\ items \in Seq(Elems)
  /\ Len(items) <= Capacity
  /\ call \in [Threads -> {"none", "push", "pop"}]
  /\ elem \in [Threads -> Elems \cup {NoElem}]

Init ==
  /\ items = <<>>
  /\ call = [t \in Threads |-> "none"]
  /\ elem = [t \in Threads |-> NoElem]

\* Outside the queue: the thread's variable changes, or not.
Local(t) ==
  /\ call[t] = "none"
  /\ \E e \in Elems \cup {NoElem} : elem' = [elem EXCEPT ![t] = e]
  /\ UNCHANGED <<items, call>>

CallPush(t) ==
  /\ call[t] = "none"
  /\ call' = [call EXCEPT ![t] = "push"]
  /\ \E e \in Elems : elem' = [elem EXCEPT ![t] = e]
  /\ UNCHANGED items

CallPop(t) ==
  /\ call[t] = "none"
  /\ call' = [call EXCEPT ![t] = "pop"]
  /\ UNCHANGED <<items, elem>>

Push(t) ==
  /\ call[t] = "push"
  /\ Len(items) < Capacity
  /\ items' = Append(items, elem[t])
  /\ call' = [call EXCEPT ![t] = "none"]
  /\ UNCHANGED elem

Pop(t) ==
  /\ call[t] = "pop"
  /\ items # <<>>
  /\ items' = Tail(items)
  /\ elem' = [elem EXCEPT ![t] = Head(items)]
  /\ call' = [call EXCEPT ![t] = "none"]

Next ==
  \E t \in Threads :
    Local(t) \/ CallPush(t) \/ CallPop(t) \/ Push(t) \/ Pop(t)

Spec == Init /\ [][Next]_vars

-----------------------------------------------------------------------------
Pushing == {t \in Threads : call[t] = "push"}

\* A push is opened only when the slots not yet spoken for leave room for it.
PoolCallPush(t) ==
  /\ Len(items) + Cardinality(Pushing) < Capacity
  /\ CallPush(t)

PoolNext ==
  \E t \in Threads :
    Local(t) \/ PoolCallPush(t) \/ CallPop(t) \/ Push(t) \/ Pop(t)

PoolSpec == Init /\ [][PoolNext]_vars
=============================================================================
