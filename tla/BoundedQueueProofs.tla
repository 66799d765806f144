-------------------------- MODULE BoundedQueueProofs --------------------------
(***************************************************************************)
(* queue.c is correct for every capacity, every finite set of threads and  *)
(* every set of pointers: the ring stays consistent, the bodies of push    *)
(* and pop exclude each other, the code implements FifoQueue, and with the *)
(* pool client of httpserver.c no push sleeps and no wakeup is lost.       *)
(***************************************************************************)
EXTENDS BoundedQueue, FiniteSetTheorems, SequenceTheorems, TLAPS

-----------------------------------------------------------------------------
(***************************************************************************)
(* Ring arithmetic.                                                        *)
(***************************************************************************)

\* queue.c wraps indices that are less than two turns of the ring.
LEMMA WrapValue ==
  ASSUME NEW a \in 0..2*Capacity-1
  PROVE  wrap(a, Capacity) = IF a < Capacity THEN a ELSE a - Capacity
<1>1. Capacity \in Nat \ {0}
  BY CapacityAssumption
<1>2. CASE a < Capacity
  BY <1>1, <1>2 DEF wrap
<1>3. CASE ~(a < Capacity)
  BY <1>1, <1>3 DEF wrap
<1> QED
  BY <1>2, <1>3

\* A function on 1..n is a sequence of length n.
LEMMA FunIsSeq ==
  ASSUME NEW S, NEW n \in Nat, NEW f \in [1..n -> S]
  PROVE  f \in Seq(S) /\ Len(f) = n /\ (n = 0 <=> f = <<>>)
<1>1. f \in Seq(S)
  BY SeqDef, Zenon
<1>2. Len(f) = n
  <2>1. DOMAIN f = 1..Len(f) /\ Len(f) \in Nat
    BY <1>1, LenProperties, Zenon
  <2>2. DOMAIN f = 1..n
    OBVIOUS
  <2> QED
    BY <2>1, <2>2
<1>3. n = 0 <=> f = <<>>
  BY <1>1, <1>2, EmptySeq
<1> QED
  BY <1>1, <1>2, <1>3

-----------------------------------------------------------------------------
(***************************************************************************)
(* The inductive invariant: the checked invariants and two facts about     *)
(* program counters that they need.  A thread is inside a call exactly     *)
(* while pc says so, and a pusher carries a real pointer.                  *)
(***************************************************************************)
CallMatchesPC == \A t \in Threads : pc[t] = "out" <=> call[t] = "none"

PusherHasElem == \A t \in Threads : call[t] = "push" => elem[t] \in Elems

Inv ==
  /\ TypeOK
  /\ RingConsistent
  /\ MutexOwnership
  /\ CallMatchesPC
  /\ PusherHasElem

\* queue_new establishes the invariant.
LEMMA InitInv == Init => Inv
<1> SUFFICES ASSUME Init PROVE Inv
  OBVIOUS
<1> USE CapacityAssumption, ThreadsAssumption, ElemsAssumption
<1>1. TypeOK
  BY DEF Init, TypeOK, Slots
<1>2. RingConsistent
  <2>1. wrap(0, Capacity) = 0
    BY WrapValue
  <2> QED
    BY <2>1 DEF Init, RingConsistent
<1>3. MutexOwnership /\ CallMatchesPC /\ PusherHasElem
  BY DEF Init, MutexOwnership, CallMatchesPC, PusherHasElem
<1> QED
  BY <1>1, <1>2, <1>3 DEF Inv

-----------------------------------------------------------------------------
(***************************************************************************)
(* The ring part of the invariant, one lemma per operation.                *)
(***************************************************************************)

\* What SignalAndReturn does to the program counters, whoever it wakes.
LEMMA SignalEffect ==
  ASSUME Inv, NEW t \in Threads, pc[t] = "test", SignalAndReturn(t)
  PROVE  /\ mutex' = NoThread
         /\ call' = [call EXCEPT ![t] = "none"]
         /\ pc' \in [Threads -> {"out", "lock", "test", "wait"}]
         /\ pc'[t] = "out"
         /\ \A u \in Threads \ {t} : pc'[u] = pc[u] \/ (pc[u] = "wait" /\ pc'[u] = "lock")
  BY DEF Inv, TypeOK, SignalAndReturn, Sleepers

\* Unlocking keeps the facts about program counters and the mutex.
LEMMA SignalKeepsControl ==
  ASSUME Inv, NEW t \in Threads, pc[t] = "test", SignalAndReturn(t)
  PROVE  MutexOwnership' /\ CallMatchesPC'
<1> USE ThreadsAssumption
<1>1. \A u \in Threads \ {t} : pc'[u] = pc[u] \/ (pc[u] = "wait" /\ pc'[u] = "lock")
  BY SignalEffect
<1>2. pc'[t] = "out" /\ mutex' = NoThread /\ call' = [call EXCEPT ![t] = "none"]
  BY SignalEffect
<1>3. MutexOwnership'
  <2>1. \A u \in Threads : pc'[u] # "test"
    BY <1>1, <1>2 DEF Inv, MutexOwnership
  <2> QED
    BY <1>2, <2>1 DEF MutexOwnership
<1>4. CallMatchesPC'
  BY <1>1, <1>2 DEF Inv, TypeOK, CallMatchesPC
<1> QED
  BY <1>3, <1>4

\* A push puts its element behind the queued ones and moves none of them.
LEMMA PushRing ==
  ASSUME Inv, NEW t \in Threads, PushBody(t)
  PROVE  /\ head' \in Slots
         /\ len' \in 0..Capacity
         /\ buf' \in [Slots -> Elems \cup {NoElem}]
         /\ Queued' = Append(Queued, elem[t])
         /\ RingConsistent'
<1> USE CapacityAssumption, ElemsAssumption
<1>1. /\ head \in 0..Capacity-1 /\ tail \in 0..Capacity-1 /\ len \in 0..Capacity-1
      /\ buf \in [Slots -> Elems \cup {NoElem}]
      /\ elem[t] \in Elems
      /\ head = wrap(tail + len, Capacity)
      /\ \A i \in 1..len : Queued[i] \in Elems
  BY DEF Inv, TypeOK, Slots, PushBody, RingConsistent, PusherHasElem
<1>2. /\ head' = wrap(head + 1, Capacity) /\ tail' = tail /\ len' = len + 1
      /\ buf' = [buf EXCEPT ![head] = elem[t]]
  BY DEF PushBody
<1>3. head' \in 0..Capacity-1 /\ head' = wrap(tail + len + 1, Capacity)
  <2>1. head = IF tail + len < Capacity THEN tail + len ELSE tail + len - Capacity
    BY <1>1, WrapValue
  <2>2. head' = IF head + 1 < Capacity THEN head + 1 ELSE head + 1 - Capacity
    BY <1>1, <1>2, WrapValue
  <2>3. wrap(tail + len + 1, Capacity)
          = IF tail + len + 1 < Capacity THEN tail + len + 1
            ELSE tail + len + 1 - Capacity
    BY <1>1, WrapValue
  <2> QED
    BY <1>1, <2>1, <2>2, <2>3
<1>4. \A i \in 1..len : wrap(tail + i - 1, Capacity) \in Slots \ {head}
  <2> SUFFICES ASSUME NEW i \in 1..len
               PROVE  wrap(tail + i - 1, Capacity) \in Slots \ {head}
    OBVIOUS
  <2>1. wrap(tail + i - 1, Capacity)
          = IF tail + i - 1 < Capacity THEN tail + i - 1 ELSE tail + i - 1 - Capacity
    BY <1>1, WrapValue
  <2>2. head = IF tail + len < Capacity THEN tail + len ELSE tail + len - Capacity
    BY <1>1, WrapValue
  <2> QED
    BY <1>1, <2>1, <2>2 DEF Slots
<1>5. /\ head \in Slots
      /\ buf' \in [Slots -> Elems \cup {NoElem}]
      /\ buf'[head] = elem[t]
      /\ \A j \in Slots \ {head} : buf'[j] = buf[j]
  BY <1>1, <1>2 DEF Slots
<1>6. Queued' = Append(Queued, elem[t])
  <2>1. Queued' = [i \in 1..len+1 |-> buf'[wrap(tail + i - 1, Capacity)]]
    BY <1>2 DEF Queued
  <2>2. \A i \in 1..len : Queued'[i] = Queued[i]
    <3> SUFFICES ASSUME NEW i \in 1..len PROVE Queued'[i] = Queued[i]
      OBVIOUS
    <3>1. Queued'[i] = buf'[wrap(tail + i - 1, Capacity)]
      <4>1. i \in 1..len+1
        BY <1>1
      <4> QED
        BY <2>1, <4>1
    <3>2. Queued[i] = buf[wrap(tail + i - 1, Capacity)]
      BY DEF Queued
    <3> QED
      BY <1>4, <1>5, <3>1, <3>2
  <2>3. Queued'[len + 1] = elem[t]
    <3>1. tail + (len + 1) - 1 = tail + len
      BY <1>1
    <3> QED
      BY <1>1, <1>5, <2>1, <3>1
  <2>4. Queued \in Seq(Elems) /\ Len(Queued) = len
    BY <1>1, FunIsSeq DEF Queued
  <2>5. Queued' \in [1..len+1 -> Elems]
    <3>1. \A i \in 1..len+1 : Queued'[i] \in Elems
      BY <1>1, <2>2, <2>3
    <3> QED
      BY <2>1, <3>1
  <2>6. Queued' \in Seq(Elems) /\ Len(Queued') = len + 1
    BY <1>1, <2>5, FunIsSeq
  <2>7. /\ Append(Queued, elem[t]) \in Seq(Elems)
        /\ Len(Append(Queued, elem[t])) = len + 1
        /\ \A i \in 1..len : Append(Queued, elem[t])[i] = Queued[i]
        /\ Append(Queued, elem[t])[len + 1] = elem[t]
    BY <1>1, <2>4, AppendProperties
  <2>8. \A i \in 1..len+1 : Queued'[i] = Append(Queued, elem[t])[i]
    BY <1>1, <2>2, <2>3, <2>7
  <2> QED
    BY <1>1, <2>6, <2>7, <2>8, SeqEqual
<1>7. RingConsistent'
  <2>1. head' = wrap(tail' + len', Capacity)
    <3>1. tail + (len + 1) = tail + len + 1
      BY <1>1
    <3> QED
      BY <1>2, <1>3, <3>1
  <2>2. \A i \in 1..len+1 : Queued'[i] \in Elems
    <3>1. Queued \in Seq(Elems) /\ Len(Queued) = len
      BY <1>1, FunIsSeq DEF Queued
    <3>2. Append(Queued, elem[t]) \in Seq(Elems) /\ Len(Append(Queued, elem[t])) = len + 1
      BY <1>1, <3>1, AppendProperties
    <3> QED
      BY <1>6, <3>2, ElementOfSeq
  <2> QED
    BY <1>2, <2>1, <2>2 DEF RingConsistent
<1> QED
  BY <1>1, <1>2, <1>3, <1>5, <1>6, <1>7 DEF Slots

\* A pop returns the oldest queued element and leaves the others in order.
LEMMA PopRing ==
  ASSUME Inv, NEW t \in Threads, PopBody(t)
  PROVE  /\ tail' \in Slots
         /\ len' \in 0..Capacity
         /\ Queued # <<>>
         /\ elem' = [elem EXCEPT ![t] = Head(Queued)]
         /\ Head(Queued) \in Elems
         /\ Queued' = Tail(Queued)
         /\ RingConsistent'
<1> USE CapacityAssumption, ElemsAssumption
<1>1. /\ head \in 0..Capacity-1 /\ tail \in 0..Capacity-1 /\ len \in 1..Capacity
      /\ head = wrap(tail + len, Capacity)
      /\ \A i \in 1..len : Queued[i] \in Elems
  BY DEF Inv, TypeOK, Slots, PopBody, RingConsistent
<1>2. /\ tail' = wrap(tail + 1, Capacity) /\ head' = head /\ len' = len - 1
      /\ buf' = buf /\ elem' = [elem EXCEPT ![t] = buf[tail]]
  BY DEF PopBody
<1>3. tail' = IF tail + 1 < Capacity THEN tail + 1 ELSE tail + 1 - Capacity
  BY <1>1, <1>2, WrapValue
<1>4. Queued \in Seq(Elems) /\ Len(Queued) = len /\ Queued # <<>>
  BY <1>1, FunIsSeq DEF Queued
<1>5. Head(Queued) = buf[tail] /\ Head(Queued) \in Elems
  <2>1. Head(Queued) = Queued[1]
    BY <1>4
  <2>2. Queued[1] = buf[wrap(tail + 1 - 1, Capacity)] /\ Queued[1] \in Elems
    BY <1>1 DEF Queued
  <2>3. tail + 1 - 1 = tail /\ wrap(tail, Capacity) = tail
    BY <1>1, WrapValue
  <2> QED
    BY <2>1, <2>2, <2>3
<1>6. \A i \in 1..len-1 : Queued'[i] = Queued[i + 1]
  <2> SUFFICES ASSUME NEW i \in 1..len-1 PROVE Queued'[i] = Queued[i + 1]
    OBVIOUS
  <2>1. Queued'[i] = buf[wrap(tail' + i - 1, Capacity)]
    BY <1>2 DEF Queued
  <2>2. Queued[i + 1] = buf[wrap(tail + (i + 1) - 1, Capacity)]
    <3>1. i + 1 \in 1..len
      BY <1>1
    <3> QED
      BY <3>1 DEF Queued
  <2>3. wrap(tail' + i - 1, Capacity) = wrap(tail + (i + 1) - 1, Capacity)
    <3>1. wrap(tail' + i - 1, Capacity)
            = IF tail' + i - 1 < Capacity THEN tail' + i - 1
              ELSE tail' + i - 1 - Capacity
      BY <1>1, <1>3, WrapValue
    <3>2. wrap(tail + (i + 1) - 1, Capacity)
            = IF tail + (i + 1) - 1 < Capacity THEN tail + (i + 1) - 1
              ELSE tail + (i + 1) - 1 - Capacity
      BY <1>1, WrapValue
    <3> QED
      BY <1>1, <1>3, <3>1, <3>2
  <2> QED
    BY <2>1, <2>2, <2>3
<1>7. Queued' \in Seq(Elems) /\ Len(Queued') = len - 1
  <2>1. \A i \in 1..len-1 : Queued'[i] \in Elems
    BY <1>1, <1>6
  <2>2. Queued' \in [1..len-1 -> Elems]
    BY <1>2, <2>1 DEF Queued
  <2> QED
    BY <1>1, <2>2, FunIsSeq
<1>8. Queued' = Tail(Queued)
  <2>1. /\ Tail(Queued) \in Seq(Elems)
        /\ Len(Tail(Queued)) = len - 1
        /\ \A i \in 1..len-1 : Tail(Queued)[i] = Queued[i + 1]
    BY <1>4, HeadTailProperties
  <2> QED
    BY <1>6, <1>7, <2>1, SeqEqual
<1>9. RingConsistent'
  <2>1. head' = wrap(tail' + len', Capacity)
    <3>1. head = IF tail + len < Capacity THEN tail + len ELSE tail + len - Capacity
      BY <1>1, WrapValue
    <3>2. wrap(tail' + (len - 1), Capacity)
            = IF tail' + (len - 1) < Capacity THEN tail' + (len - 1)
              ELSE tail' + (len - 1) - Capacity
      BY <1>1, <1>3, WrapValue
    <3> QED
      BY <1>1, <1>2, <1>3, <3>1, <3>2
  <2>2. \A i \in 1..len' : Queued'[i] \in Elems
    BY <1>2, <1>7, ElementOfSeq
  <2> QED
    BY <2>1, <2>2 DEF RingConsistent
<1>10. tail' \in Slots /\ len' \in 0..Capacity
  BY <1>1, <1>2, <1>3 DEF Slots
<1> QED
  BY <1>2, <1>4, <1>5, <1>8, <1>9, <1>10

-----------------------------------------------------------------------------
(***************************************************************************)
(* Every step preserves the invariant.                                     *)
(***************************************************************************)

\* A step that leaves the ring alone leaves it consistent.
LEMMA RingUntouched ==
  ASSUME RingConsistent, UNCHANGED <<head, tail, len, buf>>
  PROVE  RingConsistent' /\ Queued' = Queued
  BY DEF RingConsistent, Queued

\* Going to sleep preserves the invariant.
LEMMA CondWaitInv ==
  ASSUME Inv, NEW t \in Threads, pc[t] = "test", CondWait(t)
  PROVE  Inv'
<1> USE ThreadsAssumption
<1>1. TypeOK'
  BY DEF Inv, TypeOK, CondWait
<1>2. RingConsistent'
  BY RingUntouched DEF Inv, CondWait
<1>3. MutexOwnership'
  BY DEF Inv, TypeOK, MutexOwnership, CondWait
<1>4. CallMatchesPC' /\ PusherHasElem'
  BY DEF Inv, TypeOK, CallMatchesPC, PusherHasElem, CondWait
<1> QED
  BY <1>1, <1>2, <1>3, <1>4 DEF Inv

\* The three ways into the queue's code: a call, the mutex, a wakeup.
LEMMA EntryInv ==
  ASSUME Inv, NEW t \in Threads,
         \/ Lock(t)
         \/ SpuriousWakeup(t)
         \/ CallPop(t)
         \/ \E e \in Elems : CallPush(t, e)
  PROVE  Inv'
<1> USE ThreadsAssumption
<1>1. CASE Lock(t)
  <2>1. TypeOK' /\ MutexOwnership' /\ CallMatchesPC' /\ PusherHasElem'
    BY <1>1 DEF Inv, TypeOK, MutexOwnership, CallMatchesPC, PusherHasElem, Lock
  <2>2. RingConsistent'
    BY <1>1, RingUntouched DEF Inv, Lock
  <2> QED
    BY <2>1, <2>2 DEF Inv
<1>2. CASE SpuriousWakeup(t)
  <2>1. TypeOK' /\ MutexOwnership' /\ CallMatchesPC' /\ PusherHasElem'
    BY <1>2 DEF Inv, TypeOK, MutexOwnership, CallMatchesPC, PusherHasElem, SpuriousWakeup
  <2>2. RingConsistent'
    BY <1>2, RingUntouched DEF Inv, SpuriousWakeup
  <2> QED
    BY <2>1, <2>2 DEF Inv
<1>3. CASE CallPop(t)
  <2>1. TypeOK' /\ MutexOwnership' /\ CallMatchesPC' /\ PusherHasElem'
    BY <1>3 DEF Inv, TypeOK, MutexOwnership, CallMatchesPC, PusherHasElem, CallPop
  <2>2. RingConsistent'
    BY <1>3, RingUntouched DEF Inv, CallPop
  <2> QED
    BY <2>1, <2>2 DEF Inv
<1>4. CASE \E e \in Elems : CallPush(t, e)
  <2>0. PICK e \in Elems : CallPush(t, e)
    BY <1>4
  <2>1. TypeOK' /\ MutexOwnership' /\ CallMatchesPC' /\ PusherHasElem'
    BY <2>0 DEF Inv, TypeOK, MutexOwnership, CallMatchesPC, PusherHasElem, CallPush
  <2>2. RingConsistent'
    BY <2>0, RingUntouched DEF Inv, CallPush
  <2> QED
    BY <2>1, <2>2 DEF Inv
<1> QED
  BY <1>1, <1>2, <1>3, <1>4

\* The bodies of queue_push and queue_pop preserve the invariant.
LEMMA BodyInv ==
  ASSUME Inv, NEW t \in Threads, PushBody(t) \/ PopBody(t)
  PROVE  Inv'
<1> USE ThreadsAssumption
<1>1. pc[t] = "test" /\ SignalAndReturn(t)
  BY DEF PushBody, PopBody
<1>2. MutexOwnership' /\ CallMatchesPC'
  BY <1>1, SignalKeepsControl
<1>3. /\ mutex' = NoThread
      /\ call' = [call EXCEPT ![t] = "none"]
      /\ pc' \in [Threads -> {"out", "lock", "test", "wait"}]
  BY <1>1, SignalEffect
<1>4. CASE PushBody(t)
  <2>1. TypeOK'
    BY <1>3, <1>4, PushRing DEF Inv, TypeOK, PushBody
  <2>2. PusherHasElem'
    BY <1>3, <1>4 DEF Inv, TypeOK, PusherHasElem, PushBody
  <2> QED
    BY <1>2, <1>4, <2>1, <2>2, PushRing DEF Inv
<1>5. CASE PopBody(t)
  <2>1. TypeOK'
    BY <1>3, <1>5, PopRing DEF Inv, TypeOK, PopBody
  <2>2. PusherHasElem'
    BY <1>3, <1>5, PopRing DEF Inv, TypeOK, PusherHasElem
  <2> QED
    BY <1>2, <1>5, <2>1, <2>2, PopRing DEF Inv
<1> QED
  BY <1>4, <1>5

\* Every step of any client preserves the invariant.
LEMMA NextInv == Inv /\ [Next]_vars => Inv'
<1> SUFFICES ASSUME Inv, [Next]_vars PROVE Inv'
  OBVIOUS
<1>1. CASE UNCHANGED vars
  BY <1>1 DEF Inv, TypeOK, RingConsistent, Queued, MutexOwnership, CallMatchesPC,
              PusherHasElem, vars
<1>2. ASSUME NEW t \in Threads, PushWait(t) \/ PopWait(t) PROVE Inv'
  BY <1>2, CondWaitInv DEF PushWait, PopWait
<1> QED
  BY <1>1, <1>2, BodyInv, EntryInv DEF Next, Inside

\* queue.c, whoever calls it: its counters and slots agree, a slot that is
\* popped was written, and push and pop bodies exclude each other.
THEOREM QueueIsConsistent == Spec => [](TypeOK /\ RingConsistent /\ MutexOwnership)
<1>1. Inv => TypeOK /\ RingConsistent /\ MutexOwnership
  BY DEF Inv
<1> QED
  BY <1>1, InitInv, NextInv, PTL DEF Spec

\* Every field of the queue keeps its type, whoever calls it: the indices stay
\* in the ring and len within the capacity.
THEOREM QueueTypes == Spec => []TypeOK
  BY QueueIsConsistent, PTL

-----------------------------------------------------------------------------
(***************************************************************************)
(* Refinement: a body that completes is the abstract operation, a call is  *)
(* the abstract call, and everything about the mutex and the condition     *)
(* variable is a stutter.                                                  *)
(***************************************************************************)

\* The ring's contents are a sequence of pointers, as long as len says.
LEMMA QueuedType == Inv => Queued \in Seq(Elems) /\ Len(Queued) = len
<1> SUFFICES ASSUME Inv PROVE Queued \in Seq(Elems) /\ Len(Queued) = len
  OBVIOUS
<1>1. len \in Nat /\ Queued \in [1..len -> Elems]
  BY CapacityAssumption DEF Inv, TypeOK, RingConsistent, Queued
<1> QED
  BY <1>1, FunIsSeq

\* Steps that only move the mutex and the sleepers are invisible.
LEMMA StutterStep ==
  ASSUME Inv, UNCHANGED <<head, tail, len, buf, call, elem>>
  PROVE  UNCHANGED Fifo!vars
  BY RingUntouched DEF Inv, Fifo!vars

\* Each step of the code is a step of the abstract queue, or a stutter.
LEMMA StepRefines ==
  ASSUME Inv, [Next]_vars
  PROVE  [Fifo!Next]_Fifo!vars
<1>1. CASE UNCHANGED vars
  BY <1>1, StutterStep DEF vars
<1>2. CASE Next
  <2>1. PICK t \in Threads : \/ Inside(t) \/ SpuriousWakeup(t) \/ CallPop(t)
                            \/ \E e \in Elems : CallPush(t, e)
    BY <1>2 DEF Next
  <2>2. CASE Lock(t) \/ SpuriousWakeup(t) \/ PushWait(t) \/ PopWait(t)
    BY <2>2, StutterStep DEF Lock, SpuriousWakeup, PushWait, PopWait, CondWait
  <2>3. CASE CallPop(t)
    <3>1. Fifo!CallPop(t)
      BY <2>3, RingUntouched DEF Inv, CallMatchesPC, CallPop, Fifo!CallPop
    <3> QED
      BY <3>1 DEF Fifo!Next
  <2>4. CASE \E e \in Elems : CallPush(t, e)
    <3>1. Fifo!CallPush(t)
      BY <2>4, RingUntouched DEF Inv, CallMatchesPC, CallPush, Fifo!CallPush
    <3> QED
      BY <3>1 DEF Fifo!Next
  <2>5. CASE PushBody(t)
    <3>1. call[t] = "push" /\ call' = [call EXCEPT ![t] = "none"] /\ elem' = elem
      BY <2>5, SignalEffect DEF PushBody
    <3>2. Len(Queued) < Capacity
      BY <2>5, QueuedType, CapacityAssumption DEF Inv, TypeOK, PushBody
    <3>3. Fifo!Push(t)
      BY <2>5, <3>1, <3>2, PushRing DEF Fifo!Push
    <3> QED
      BY <3>3 DEF Fifo!Next
  <2>6. CASE PopBody(t)
    <3>1. call[t] = "pop" /\ call' = [call EXCEPT ![t] = "none"]
      BY <2>6, SignalEffect DEF PopBody
    <3>2. Fifo!Pop(t)
      BY <2>6, <3>1, PopRing DEF Fifo!Pop
    <3> QED
      BY <3>2 DEF Fifo!Next
  <2> QED
    BY <2>1, <2>2, <2>3, <2>4, <2>5, <2>6 DEF Inside
<1> QED
  BY <1>1, <1>2

\* An empty ring is the empty queue.
LEMMA InitRefines == Init => Fifo!Init
<1> SUFFICES ASSUME Init PROVE Fifo!Init
  OBVIOUS
<1>1. Queued = <<>>
  BY InitInv, QueuedType, EmptySeq DEF Init
<1> QED
  BY <1>1 DEF Init, Fifo!Init

\* For every capacity and every set of callers, queue_push and queue_pop
\* implement indivisible operations on a bounded FIFO queue.
THEOREM QueueImplementsFifo == Spec => ImplementsFifo
<1>1. Inv /\ [Next]_vars => [Fifo!Next]_Fifo!vars
  BY StepRefines
<1> QED
  BY <1>1, InitInv, NextInv, InitRefines, PTL DEF Spec, ImplementsFifo, Fifo!Spec

-----------------------------------------------------------------------------
(***************************************************************************)
(* The pool client: what is queued and what is being pushed fit in the     *)
(* ring (PoolFits), so a push never sleeps, so every sleeper is a popper   *)
(* and a signal always reaches someone who can use it.                     *)
(***************************************************************************)
PoolFits == len + Cardinality(Pushing) <= Capacity

PoolInv == Inv /\ PoolFits /\ OnlyPoppersSleep /\ NoLostWakeup

\* The sets counted below are finite.
LEMMA CountsAreNat ==
  /\ IsFiniteSet(Pushing) /\ Cardinality(Pushing) \in Nat
  /\ IsFiniteSet(AwakePoppers) /\ Cardinality(AwakePoppers) \in Nat
<1>1. Pushing \subseteq Threads /\ AwakePoppers \subseteq Threads
  BY DEF Pushing, AwakePoppers
<1> QED
  BY <1>1, ThreadsAssumption, FS_Subset, FS_CardinalityType

\* A pool client's step is a step of some client.
LEMMA PoolNextIsNext == [PoolNext]_vars => [Next]_vars
  BY DEF PoolNext, Next, PoolCallPush

\* The queue starts empty and with nobody inside.
LEMMA PoolInit == Init => PoolInv
<1> SUFFICES ASSUME Init PROVE PoolInv
  OBVIOUS
<1>1. Pushing = {} /\ Sleepers = {}
  BY DEF Init, Pushing, Sleepers
<1>2. PoolFits
  BY <1>1, FS_EmptySet, CapacityAssumption DEF Init, PoolFits
<1> QED
  BY <1>1, <1>2, InitInv DEF PoolInv, OnlyPoppersSleep, NoLostWakeup

\* No step lets the pushes in progress outnumber the free slots.
LEMMA PoolFitsStep ==
  ASSUME Inv, PoolFits, [PoolNext]_vars
  PROVE  PoolFits'
<1> USE CountsAreNat, CapacityAssumption
<1>0. len \in Nat /\ call \in [Threads -> {"none", "push", "pop"}]
  BY DEF Inv, TypeOK
<1>1. CASE len' = len /\ call' = call
  BY <1>1 DEF PoolFits, Pushing
<1>2. ASSUME NEW t \in Threads, CallPop(t) PROVE PoolFits'
  <2>1. Pushing' = Pushing /\ len' = len
    BY <1>0, <1>2 DEF CallPop, Pushing, Inv, CallMatchesPC
  <2> QED
    BY <2>1 DEF PoolFits
<1>3. ASSUME NEW t \in Threads, \E e \in Elems : PoolCallPush(t, e) PROVE PoolFits'
  <2>1. Pushing' = Pushing \cup {t} /\ len' = len
    BY <1>0, <1>3 DEF PoolCallPush, CallPush, Pushing
  <2>2. Cardinality(Pushing') <= Cardinality(Pushing) + 1
    BY <2>1, FS_AddElement
  <2>3. Cardinality(Pushing') \in Nat
    BY <2>1, FS_AddElement, FS_CardinalityType
  <2> QED
    BY <1>0, <1>3, <2>1, <2>2, <2>3 DEF PoolFits, PoolCallPush
<1>4. ASSUME NEW t \in Threads, PushBody(t) PROVE PoolFits'
  <2>1. Pushing' = Pushing \ {t} /\ t \in Pushing /\ len' = len + 1
    BY <1>0, <1>4, SignalEffect DEF PushBody, Pushing
  <2>2. Cardinality(Pushing') = Cardinality(Pushing) - 1
    BY <2>1, FS_RemoveElement
  <2> QED
    BY <1>0, <2>1, <2>2 DEF PoolFits
<1>5. ASSUME NEW t \in Threads, PopBody(t) PROVE PoolFits'
  <2>1. Pushing' = Pushing /\ len' = len - 1
    BY <1>0, <1>5, SignalEffect DEF PopBody, Pushing
  <2> QED
    BY <1>0, <2>1 DEF PoolFits
<1> QED
  BY <1>1, <1>2, <1>3, <1>4, <1>5 DEF PoolNext, Inside, Lock, SpuriousWakeup, PushWait,
     PopWait, CondWait, vars

\* With room for every push in progress, no push goes to sleep.
LEMMA NoPushWaits == ASSUME Inv, PoolFits, NEW t \in Threads PROVE ~PushWait(t)
<1> SUFFICES ASSUME PushWait(t) PROVE FALSE
  OBVIOUS
<1>1. Pushing # {} /\ len = Capacity
  BY DEF PushWait, Pushing
<1>2. Cardinality(Pushing) # 0
  BY <1>1, CountsAreNat, FS_EmptySet
<1> QED
  BY <1>1, <1>2, CountsAreNat, CapacityAssumption DEF PoolFits

\* Only a thread inside queue_pop goes to sleep.
LEMMA OnlyPoppersSleepStep ==
  ASSUME Inv, PoolFits, OnlyPoppersSleep, [PoolNext]_vars
  PROVE  OnlyPoppersSleep'
<1>0. /\ pc \in [Threads -> {"out", "lock", "test", "wait"}]
      /\ call \in [Threads -> {"none", "push", "pop"}]
  BY DEF Inv, TypeOK
<1>1. CASE UNCHANGED vars
  BY <1>1 DEF vars, OnlyPoppersSleep, Sleepers
<1>2. ASSUME NEW t \in Threads, Inside(t) PROVE OnlyPoppersSleep'
  <2>1. CASE Lock(t) \/ PopWait(t)
    BY <1>0, <2>1 DEF OnlyPoppersSleep, Sleepers, Lock, PopWait, CondWait
  <2>2. CASE PushBody(t) \/ PopBody(t)
    <3>1. /\ call' = [call EXCEPT ![t] = "none"]
          /\ pc'[t] = "out"
          /\ \A u \in Threads \ {t} : pc'[u] = pc[u] \/ pc'[u] = "lock"
      BY <2>2, SignalEffect DEF PushBody, PopBody
    <3> QED
      BY <1>0, <3>1 DEF OnlyPoppersSleep, Sleepers
  <2> QED
    BY <1>2, <2>1, <2>2, NoPushWaits DEF Inside
<1>3. ASSUME NEW t \in Threads,
             SpuriousWakeup(t) \/ CallPop(t) \/ \E e \in Elems : PoolCallPush(t, e)
      PROVE  OnlyPoppersSleep'
  BY <1>0, <1>3 DEF OnlyPoppersSleep, Sleepers, SpuriousWakeup, CallPop, PoolCallPush,
                    CallPush
<1> QED
  BY <1>1, <1>2, <1>3 DEF PoolNext

\* A returning call wakes a sleeper if there is one, and no one else.
LEMMA SignalWakes ==
  ASSUME Inv, OnlyPoppersSleep, NEW t \in Threads, pc[t] = "test", SignalAndReturn(t)
  PROVE  \/ Sleepers' = {}
         \/ \E s \in Threads : /\ s \notin AwakePoppers
                             /\ s # t
                             /\ AwakePoppers' = (AwakePoppers \ {t}) \cup {s}
<1>0. /\ pc \in [Threads -> {"out", "lock", "test", "wait"}]
      /\ call \in [Threads -> {"none", "push", "pop"}]
      /\ call' = [call EXCEPT ![t] = "none"]
  BY DEF Inv, TypeOK, SignalAndReturn
<1>1. CASE Sleepers = {} /\ pc' = [pc EXCEPT ![t] = "out"]
  BY <1>0, <1>1 DEF Sleepers
<1>2. CASE \E s \in Sleepers : pc' = [pc EXCEPT ![t] = "out", ![s] = "lock"]
  <2>1. PICK s \in Sleepers : pc' = [pc EXCEPT ![t] = "out", ![s] = "lock"]
    BY <1>2
  <2>2. s \in Threads /\ pc[s] = "wait" /\ call[s] = "pop" /\ s # t
    BY DEF OnlyPoppersSleep, Sleepers
  <2>3. /\ pc'[s] = "lock" /\ pc'[t] = "out" /\ call'[s] = "pop" /\ call'[t] = "none"
        /\ \A u \in Threads \ {s, t} : pc'[u] = pc[u] /\ call'[u] = call[u]
    BY <1>0, <2>1, <2>2
  <2>4. AwakePoppers' = (AwakePoppers \ {t}) \cup {s}
    BY <2>2, <2>3 DEF AwakePoppers
  <2>5. s \notin AwakePoppers
    BY <2>2 DEF AwakePoppers
  <2> QED
    BY <2>2, <2>4, <2>5
<1> QED
  BY <1>1, <1>2 DEF SignalAndReturn

\* No step of the pool client leaves a sleeper beside an element nobody is
\* on the way to.
LEMMA NoLostWakeupStep ==
  ASSUME Inv, PoolFits, OnlyPoppersSleep, NoLostWakeup, [PoolNext]_vars
  PROVE  NoLostWakeup'
<1> USE CountsAreNat
<1>0. /\ pc \in [Threads -> {"out", "lock", "test", "wait"}]
      /\ call \in [Threads -> {"none", "push", "pop"}]
      /\ len \in Nat
  BY DEF Inv, TypeOK
<1>1. CASE UNCHANGED vars
  BY <1>1 DEF vars, NoLostWakeup, Sleepers, AwakePoppers
<1>2. ASSUME NEW t \in Threads, Lock(t) \/ \E e \in Elems : PoolCallPush(t, e)
      PROVE  NoLostWakeup'
  <2>1. Sleepers' = Sleepers /\ AwakePoppers' = AwakePoppers /\ len' = len
    BY <1>0, <1>2 DEF Inv, CallMatchesPC, Lock, PoolCallPush, CallPush, Sleepers, AwakePoppers
  <2> QED
    BY <2>1 DEF NoLostWakeup
<1>3. ASSUME NEW t \in Threads, SpuriousWakeup(t) \/ CallPop(t) PROVE NoLostWakeup'
  <2>1. /\ Sleepers' \subseteq Sleepers
        /\ AwakePoppers' = AwakePoppers \cup {t}
        /\ len' = len
    BY <1>0, <1>3 DEF SpuriousWakeup, CallPop, Sleepers, AwakePoppers, OnlyPoppersSleep
  <2>2. \/ Cardinality(AwakePoppers') = Cardinality(AwakePoppers)
        \/ Cardinality(AwakePoppers') = Cardinality(AwakePoppers) + 1
    BY <2>1, FS_AddElement
  <2>3. Cardinality(AwakePoppers') \in Nat
    BY <2>1, FS_AddElement, FS_CardinalityType
  <2>4. Sleepers' # {} => len <= Cardinality(AwakePoppers)
    BY <2>1 DEF NoLostWakeup
  <2>5. Sleepers' # {} => len' <= Cardinality(AwakePoppers')
    BY <1>0, <2>1, <2>2, <2>3, <2>4
  <2> QED
    BY <2>5 DEF NoLostWakeup
<1>4. ASSUME NEW t \in Threads, PopWait(t) PROVE NoLostWakeup'
  <2>1. AwakePoppers' = AwakePoppers \ {t} /\ len' = 0
    BY <1>0, <1>4 DEF PopWait, CondWait, AwakePoppers
  <2>2. Cardinality(AwakePoppers') \in Nat
    BY <2>1, FS_RemoveElement, FS_CardinalityType
  <2> QED
    BY <2>1, <2>2 DEF NoLostWakeup
<1>5. ASSUME NEW t \in Threads, PushBody(t) PROVE NoLostWakeup'
  <2>1. t \notin AwakePoppers /\ len' = len + 1 /\ pc[t] = "test" /\ SignalAndReturn(t)
    BY <1>5 DEF PushBody, AwakePoppers
  <2>2. CASE Sleepers' = {}
    BY <2>2 DEF NoLostWakeup
  <2>3. CASE Sleepers' # {}
    <3>1. PICK s \in Threads : s \notin AwakePoppers
                              /\ AwakePoppers' = (AwakePoppers \ {t}) \cup {s}
      BY <2>1, <2>3, SignalWakes
    <3>2. AwakePoppers' = AwakePoppers \cup {s}
      BY <2>1, <3>1
    <3>3. Cardinality(AwakePoppers') = Cardinality(AwakePoppers) + 1
      BY <3>1, <3>2, FS_AddElement
    <3>4. Sleepers # {}
      BY <2>1, <2>3, SignalEffect DEF Sleepers
    <3> QED
      BY <1>0, <2>1, <3>3, <3>4 DEF NoLostWakeup
  <2> QED
    BY <2>2, <2>3
<1>6. ASSUME NEW t \in Threads, PopBody(t) PROVE NoLostWakeup'
  <2>1. t \in AwakePoppers /\ len' = len - 1 /\ pc[t] = "test" /\ SignalAndReturn(t)
    BY <1>6 DEF PopBody, AwakePoppers
  <2>2. CASE Sleepers' = {}
    BY <2>2 DEF NoLostWakeup
  <2>3. CASE Sleepers' # {}
    <3>1. PICK s \in Threads : /\ s \notin AwakePoppers
                              /\ AwakePoppers' = (AwakePoppers \ {t}) \cup {s}
      BY <2>1, <2>3, SignalWakes
    <3>2. /\ IsFiniteSet(AwakePoppers \ {t})
          /\ Cardinality(AwakePoppers \ {t}) = Cardinality(AwakePoppers) - 1
      BY <2>1, FS_RemoveElement
    <3>3. Cardinality(AwakePoppers') = Cardinality(AwakePoppers)
      <4>1. s \notin AwakePoppers \ {t}
        BY <3>1
      <4>2. Cardinality(AwakePoppers') = Cardinality(AwakePoppers \ {t}) + 1
        BY <3>1, <3>2, <4>1, FS_AddElement
      <4> QED
        BY <3>2, <4>2
    <3>4. Sleepers # {}
      BY <2>1, <2>3, SignalEffect DEF Sleepers
    <3> QED
      BY <1>0, <2>1, <3>3, <3>4 DEF NoLostWakeup
  <2> QED
    BY <2>2, <2>3
<1> QED
  BY <1>1, <1>2, <1>3, <1>4, <1>5, <1>6, NoPushWaits DEF PoolNext, Inside

\* With the pool client of httpserver.c only poppers ever sleep on the one
\* condition variable, and no wakeup is lost.
THEOREM PoolLosesNoWakeup == PoolSpec => [](OnlyPoppersSleep /\ NoLostWakeup)
<1>1. PoolInv /\ [PoolNext]_vars => PoolInv'
  BY NextInv, PoolNextIsNext, PoolFitsStep, OnlyPoppersSleepStep, NoLostWakeupStep DEF PoolInv
<1>2. PoolInv => OnlyPoppersSleep /\ NoLostWakeup
  BY DEF PoolInv
<1> QED
  BY <1>1, <1>2, PoolInit, PTL DEF PoolSpec

\* With the pool client of httpserver.c no push ever goes to sleep.
THEOREM PoolPushesNeverSleep == PoolSpec => []OnlyPoppersSleep
  BY PoolLosesNoWakeup, PTL
=============================================================================
