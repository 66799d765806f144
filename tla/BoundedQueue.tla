----------------------------- MODULE BoundedQueue -----------------------------
(***************************************************************************)
(* queue.c: a ring of `capacity` slots, one mutex (head_mutex, taken by    *)
(* push and by pop; tail_mutex is created and never locked) and ONE        *)
(* condition variable on which pushers wait for room and poppers wait for  *)
(* elements, each signalled with pthread_cond_signal.                      *)
(*                                                                         *)
(* A call is four kinds of step: the caller asks for the mutex, gets it,   *)
(* tests the loop condition, and either goes to sleep on `wait` (releasing *)
(* the mutex) or runs the body, signals one sleeper and releases the       *)
(* mutex.  The body runs under the mutex, so it is one step.  A sleeper    *)
(* that is woken asks for the mutex again and tests again, exactly like a  *)
(* new caller, so the two share the program counter "lock".                *)
(***************************************************************************)
EXTENDS Naturals, Sequences, FiniteSets

CONSTANTS
  Threads,    \* the threads that share the queue
  Elems,      \* the pointers that may be queued
  NoElem,     \* an unset pointer
  NoThread,   \* the owner of a free mutex
  Capacity    \* queue_new(size)

ASSUME CapacityAssumption == Capacity \in Nat \ {0}
ASSUME ThreadsAssumption == IsFiniteSet(Threads) /\ NoThread \notin Threads
ASSUME ElemsAssumption == NoElem \notin Elems

VARIABLES
  head,       \* next slot to fill
  tail,       \* next slot to drain
  len,        \* number of queued elements
  buf,        \* the slots
  mutex,      \* owner of head_mutex
  pc,         \* pc[t] \in {"out", "lock", "test", "wait"}
  call,       \* call[t] \in {"none", "push", "pop"}
  elem        \* elem[t]: what t pushes, or the last element it popped

vars == <<head, tail, len, buf, mutex, pc, call, elem>>

Slots == 0..Capacity-1

TypeOK ==
  /\ head \in Slots
  /\ tail \in Slots
  /\ len \in 0..Capacity
  /\ buf \in [Slots -> Elems \cup {NoElem}]
  /\ mutex \in Threads \cup {NoThread}
  /\ pc \in [Threads -> {"out", "lock", "test", "wait"}]
  /\ call \in [Threads -> {"none", "push", "pop"}]
  /\ elem \in [Threads -> Elems \cup {NoElem}]

\* queue_new: an empty ring, its slots not yet written.
Init ==
  /\ head = 0
  /\ tail = 0
  /\ len = 0
  /\ buf = [i \in Slots |-> NoElem]
  /\ mutex = NoThread
  /\ pc = [t \in Threads |-> "out"]
  /\ call = [t \in Threads |-> "none"]
  /\ elem = [t \in Threads |-> NoElem]

wrap(a, n) == a % n

Sleepers == {t \in Threads : pc[t] = "wait"}

-----------------------------------------------------------------------------
(***************************************************************************)
(* The mutex and the condition variable.                                   *)
(***************************************************************************)

\* pthread_mutex_lock, at the call and again inside pthread_cond_wait.
Lock(t) ==
  /\ pc[t] = "lock"
  /\ mutex = NoThread
  /\ mutex' = t
  /\ pc' = [pc EXCEPT ![t] = "test"]
  /\ UNCHANGED <<head, tail, len, buf, call, elem>>

\* pthread_cond_wait: sleep and release the mutex in one step.
CondWait(t) ==
  /\ pc' = [pc EXCEPT ![t] = "wait"]
  /\ mutex' = NoThread
  /\ UNCHANGED <<head, tail, len, buf, call, elem>>

\* Faulty variant: unlock and return, the signal forgotten.
Bug_ReturnWithoutSignal(t) ==
  /\ mutex' = NoThread
  /\ call' = [call EXCEPT ![t] = "none"]
  /\ pc' = [pc EXCEPT ![t] = "out"]

\* pthread_cond_signal, pthread_mutex_unlock, return: if anyone sleeps, one
\* sleeper, whichever, competes for the mutex again.
SignalAndReturn(t) ==
  /\ mutex' = NoThread
  /\ call' = [call EXCEPT ![t] = "none"]
  /\ \/ /\ Sleepers = {}
        /\ pc' = [pc EXCEPT ![t] = "out"]
     \/ \E s \in Sleepers : pc' = [pc EXCEPT ![t] = "out", ![s] = "lock"]

\* POSIX lets pthread_cond_wait return without a signal.
SpuriousWakeup(t) ==
  /\ pc[t] = "wait"
  /\ pc' = [pc EXCEPT ![t] = "lock"]
  /\ UNCHANGED <<head, tail, len, buf, mutex, call, elem>>

-----------------------------------------------------------------------------
(***************************************************************************)
(* queue_push and queue_pop.                                               *)
(***************************************************************************)
CallPush(t, e) ==
  /\ pc[t] = "out"
  /\ call' = [call EXCEPT ![t] = "push"]
  /\ elem' = [elem EXCEPT ![t] = e]
  /\ pc' = [pc EXCEPT ![t] = "lock"]
  /\ UNCHANGED <<head, tail, len, buf, mutex>>

CallPop(t) ==
  /\ pc[t] = "out"
  /\ call' = [call EXCEPT ![t] = "pop"]
  /\ pc' = [pc EXCEPT ![t] = "lock"]
  /\ UNCHANGED <<head, tail, len, buf, mutex, elem>>

\* Faulty variant: the ring index is not wrapped.
Bug_PushNoWrap(t) ==
  /\ pc[t] = "test" /\ call[t] = "push"
  /\ len # Capacity
  /\ head' = head + 1
  /\ buf' = [buf EXCEPT ![head] = elem[t]]
  /\ len' = len + 1
  /\ SignalAndReturn(t)
  /\ UNCHANGED <<tail, elem>>

\* Faulty variant: a push into a full ring overwrites the oldest element.
Bug_PushIntoFull(t) ==
  /\ pc[t] = "test" /\ call[t] = "push"
  /\ head' = wrap(head + 1, Capacity)
  /\ buf' = [buf EXCEPT ![head] = elem[t]]
  /\ len' = IF len = Capacity THEN len ELSE len + 1
  /\ SignalAndReturn(t)
  /\ UNCHANGED <<tail, elem>>

\* Faulty variant: full is taken to be one element too early.
Bug_PushWaitEarly(t) ==
  /\ pc[t] = "test" /\ call[t] = "push"
  /\ len >= Capacity - 1
  /\ CondWait(t)

PushWait(t) ==
  /\ pc[t] = "test" /\ call[t] = "push"
  /\ len = Capacity
  /\ CondWait(t)

PushBody(t) ==
  /\ pc[t] = "test" /\ call[t] = "push"
  /\ len # Capacity
  /\ head' = wrap(head + 1, Capacity)
  /\ buf' = [buf EXCEPT ![head] = elem[t]]
  /\ len' = len + 1
  /\ SignalAndReturn(t)
  /\ UNCHANGED <<tail, elem>>

PopWait(t) ==
  /\ pc[t] = "test" /\ call[t] = "pop"
  /\ len = 0
  /\ CondWait(t)

\* Faulty variant: the pop takes the newest element.
Bug_PopNewest(t) ==
  /\ pc[t] = "test" /\ call[t] = "pop"
  /\ len # 0
  /\ head' = wrap(head + Capacity - 1, Capacity)
  /\ elem' = [elem EXCEPT ![t] = buf[wrap(head + Capacity - 1, Capacity)]]
  /\ len' = len - 1
  /\ SignalAndReturn(t)
  /\ UNCHANGED <<tail, buf>>

PopBody(t) ==
  /\ pc[t] = "test" /\ call[t] = "pop"
  /\ len # 0
  /\ tail' = wrap(tail + 1, Capacity)
  /\ elem' = [elem EXCEPT ![t] = buf[tail]]
  /\ len' = len - 1
  /\ SignalAndReturn(t)
  /\ UNCHANGED <<head, buf>>

\* What a thread inside a call does.
Inside(t) == Lock(t) \/ PushWait(t) \/ PushBody(t) \/ PopWait(t) \/ PopBody(t)

Next ==
  \E t \in Threads :
    \/ Inside(t)
    \/ SpuriousWakeup(t)
    \/ CallPop(t)
    \/ \E e \in Elems : CallPush(t, e)

Spec == Init /\ [][Next]_vars

-----------------------------------------------------------------------------
(***************************************************************************)
(* The client of httpserver.c: at most Capacity elements are queued or on  *)
(* their way into the queue.                                               *)
(***************************************************************************)
Pushing == {t \in Threads : call[t] = "push"}

PoolCallPush(t, e) ==
  /\ len + Cardinality(Pushing) < Capacity
  /\ CallPush(t, e)

PoolNext ==
  \E t \in Threads :
    \/ Inside(t)
    \/ SpuriousWakeup(t)
    \/ CallPop(t)
    \/ \E e \in Elems : PoolCallPush(t, e)

PoolSpec == Init /\ [][PoolNext]_vars

\* The scheduler runs a thread that can run; nothing forces a caller to call
\* or a sleeper to wake by itself.
FairPoolSpec == PoolSpec /\ \A t \in Threads : WF_vars(Inside(t))

-----------------------------------------------------------------------------
(***************************************************************************)
(* Properties.                                                             *)
(***************************************************************************)

\* The queued elements, oldest first, as the ring stores them.
Queued == [i \in 1..len |-> buf[wrap(tail + i - 1, Capacity)]]

\* The three counters agree (head is len slots past tail) and every slot
\* between them has been written: queue_pop never returns an unset pointer.
RingConsistent ==
  /\ head = wrap(tail + len, Capacity)
  /\ \A i \in 1..len : Queued[i] \in Elems

\* Exactly the thread between pthread_mutex_lock and the unlock (or the
\* wait) owns head_mutex, so that the bodies of push and pop never overlap.
MutexOwnership == \A t \in Threads : mutex = t <=> pc[t] = "test"

\* queue_push and queue_pop, with their sleeping, waking and re-testing,
\* behave for every mix of callers like calls that take effect at once on a
\* first-in first-out queue of Capacity elements.
Fifo == INSTANCE FifoQueue WITH items <- Queued
ImplementsFifo == Fifo!Spec

\* With the pool client no push ever sleeps: only poppers use `wait`, which
\* is what makes one condition variable for both conditions harmless.
OnlyPoppersSleep == \A t \in Sleepers : call[t] = "pop"

\* Poppers that hold the mutex or compete for it.
AwakePoppers == {t \in Threads : call[t] = "pop" /\ pc[t] \in {"lock", "test"}}

\* No lost wakeup: while a popper sleeps, every queued element has an awake
\* popper on its way to it (queue.c signals one sleeper per push and per pop).
NoLostWakeup == Sleepers # {} => len <= Cardinality(AwakePoppers)

\* A popper asleep while there is an element is woken, or the element goes to
\* another popper: an element and a sleeper never stay side by side for ever.
SleeperIsServed ==
  \A t \in Threads :
    (pc[t] = "wait" /\ len > 0) ~> (pc[t] # "wait" \/ len = 0)
=============================================================================
