------------------------ MODULE HttpServerQueueProofs ------------------------
(***************************************************************************)
(* How httpserver.c uses its semaphore and its queues, for every number of *)
(* workers and every pool size: a worker inside queue_pop always has a     *)
(* job coming, and both queues are used as the pool client that queue.c    *)
(* needs (BoundedQueueProofs!PoolLosesNoWakeup).                           *)
(***************************************************************************)
EXTENDS HttpServerProofs

-----------------------------------------------------------------------------
(***************************************************************************)
(* The semaphore.  Until term is set, what q_size announces and the        *)
(* workers that have taken an announcement and not yet a job match the     *)
(* jobs on the queue or on their way to it, one to one.  Once term is set  *)
(* no worker goes on to queue_pop, so that the shutdown posts, for which   *)
(* there are no jobs, send nobody there.                                   *)
(***************************************************************************)
At(where) == Cardinality(WorkersAt(where))

SemaphoreExact == ~term => sem + At("termtest") + At("pop") = Len(taken) + Announced

\* There are finitely many workers at each place.
LEMMA AtType == \A x : IsFiniteSet(WorkersAt(x)) /\ At(x) \in Nat
<1> SUFFICES ASSUME NEW x PROVE IsFiniteSet(WorkersAt(x)) /\ At(x) \in Nat
  OBVIOUS
<1>1. WorkersAt(x) \subseteq Workers
  BY DEF WorkersAt
<1> QED
  BY <1>1, WorkersAssumption, FS_Subset, FS_CardinalityType DEF At

\* A worker that moves is counted at its new place instead of its old one.
LEMMA MoveWorker ==
  ASSUME Control, NEW w \in Workers, NEW to \in WorkerPCs,
         workerPC' = [workerPC EXCEPT ![w] = to], workerPC[w] # to
  PROVE  \A x \in WorkerPCs :
           At(x)' = IF x = to THEN At(x) + 1 ELSE IF x = workerPC[w] THEN At(x) - 1 ELSE At(x)
<1> SUFFICES ASSUME NEW x \in WorkerPCs
             PROVE  At(x)' = IF x = to THEN At(x) + 1
                             ELSE IF x = workerPC[w] THEN At(x) - 1 ELSE At(x)
  OBVIOUS
<1>0. workerPC \in [Workers -> WorkerPCs] /\ IsFiniteSet(WorkersAt(x))
  BY AtType DEF Control, TypeOK
<1>1. CASE x = to
  <2>1. WorkersAt(x)' = WorkersAt(x) \cup {w} /\ w \notin WorkersAt(x)
    BY <1>0, <1>1 DEF WorkersAt
  <2> QED
    BY <1>0, <1>1, <2>1, FS_AddElement DEF At
<1>2. CASE x # to /\ x = workerPC[w]
  <2>1. WorkersAt(x)' = WorkersAt(x) \ {w} /\ w \in WorkersAt(x)
    BY <1>0, <1>2 DEF WorkersAt
  <2> QED
    BY <1>0, <1>2, <2>1, FS_RemoveElement DEF At
<1>3. CASE x # to /\ x # workerPC[w]
  <2>1. WorkersAt(x)' = WorkersAt(x)
    BY <1>0, <1>3 DEF WorkersAt
  <2> QED
    BY <1>3, <2>1 DEF At
<1> QED
  BY <1>1, <1>2, <1>3

\* Steps that move no job and no announcement; a signal only loosens what
\* must hold.
LEMMA QuietSemaphore ==
  ASSUME Control, SemaphoreExact, NoStrandedWorker,
         \/ Arrive \/ SendSignal \/ sigterm_handler \/ GotoStep \/ UNCHANGED vars
         \/ FillNext \/ FillPush \/ Accept \/ AcceptError \/ PopFree
  PROVE  SemaphoreExact' /\ NoStrandedWorker'
<1>1. UNCHANGED <<taken, sem, workerPC>>
  BY GotoEffect DEF Control, Arrive, SendSignal, sigterm_handler, FillNext, FillPush, Accept,
     AcceptError, PopFree, TakeFree, vars, workerVars
<1>2. mainPC' = "push" <=> mainPC = "push"
  BY GotoEffect DEF Control, Arrive, SendSignal, sigterm_handler, FillNext, FillPush, Accept,
     AcceptError, PopFree, TakeFree, vars, mainVars
<1>3. ~term' => ~term
  BY GotoTerm DEF Control, Arrive, SendSignal, sigterm_handler, FillNext, FillPush, Accept,
     AcceptError, PopFree, TakeFree, vars
<1>4. Announced' = Announced /\ \A x : At(x)' = At(x) /\ Cardinality(WorkersAt(x))' = At(x)
  BY <1>1, <1>2 DEF Announced, At, WorkersAt
<1>5. SemaphoreExact'
  BY <1>1, <1>3, <1>4 DEF SemaphoreExact
<1>6. NoStrandedWorker'
  BY <1>1, <1>4 DEF NoStrandedWorker, At
<1> QED
  BY <1>5, <1>6

\* Main announces a job before it pushes it, and posts without jobs only
\* after it has seen term.
LEMMA MainSemaphore ==
  ASSUME Control, SemaphoreExact, NoStrandedWorker, Prepare \/ PushTaken \/ PostAll
  PROVE  SemaphoreExact' /\ NoStrandedWorker'
<1>0. /\ sem \in Nat /\ Len(taken) \in Nat
      /\ At("termtest") \in Nat /\ At("pop") \in Nat /\ At("pushback") \in Nat
  BY AtType, LenProperties DEF Control, TypeOK
<1>1. UNCHANGED <<workerPC, term>>
  BY DEF Prepare, PrepareWith, PushTaken, PostAll, PostTimes, workerVars
<1>2. \A x : At(x)' = At(x)
  BY <1>1 DEF At, WorkersAt
<1>3. CASE Prepare
  <2>1. sem' = sem + 1 /\ taken' = taken /\ Announced = At("pushback")
        /\ Announced' = At("pushback") + 1
    BY <1>0, <1>2, <1>3 DEF Prepare, PrepareWith, Announced, At
  <2> QED
    BY <1>0, <1>1, <1>2, <2>1 DEF SemaphoreExact, NoStrandedWorker, At
<1>4. CASE PushTaken
  <2>1. Len(taken') = Len(taken) + 1
    BY <1>4, PushedQueue DEF PushTaken, Control, TypeOK, HolderHasRequest, MainHolding
  <2>2. sem' = sem /\ Announced = At("pushback") + 1 /\ Announced' = At("pushback")
    BY <1>0, <1>2, <1>4 DEF PushTaken, Announced, At
  <2> QED
    BY <1>0, <1>1, <1>2, <2>1, <2>2 DEF SemaphoreExact, NoStrandedWorker, At
<1>5. CASE PostAll
  <2>1. term
    BY <1>5 DEF PostAll, PostTimes, Control, PostsInRange, StopPCs
  <2>2. taken' = taken /\ Announced' = Announced
    BY <1>2, <1>5 DEF PostAll, PostTimes, Announced, At
  <2> QED
    BY <1>1, <1>2, <2>1, <2>2 DEF SemaphoreExact, NoStrandedWorker, At
<1> QED
  BY <1>3, <1>4, <1>5

\* A worker takes an announcement, and then a job only if it saw term unset;
\* a job that goes back is announced before it is pushed.
LEMMA WorkerSemaphore ==
  ASSUME Control, SemaphoreExact, NoStrandedWorker, NEW w \in Workers, request_workers(w)
  PROVE  SemaphoreExact' /\ NoStrandedWorker'
<1> DEFINE m == IF mainPC = "push" THEN 1 ELSE 0
<1>0. /\ sem \in Nat /\ Len(taken) \in Nat /\ m \in Nat
      /\ At("termtest") \in Nat /\ At("pop") \in Nat /\ At("pushback") \in Nat
      /\ {"start", "semwait", "termtest", "pop", "handle", "pushfree", "pushback", "exited"}
           = WorkerPCs
  BY AtType, LenProperties DEF Control, TypeOK, WorkerPCs
<1>1. mainPC' = mainPC /\ term' = term
  BY DEF request_workers, WorkerMask, SemWait, WorkerTest, PopJob, HandleFinished,
         CloseConnection, PushFree, HandleAgain, PushBack, mainVars
<1>2. Announced = At("pushback") + m /\ Announced' = At("pushback")' + m
  BY <1>1 DEF Announced, At
<1>a. /\ At("pop") <= Len(taken) + (At("pushback") + m)
      /\ ~term => sem + At("termtest") + At("pop") = Len(taken) + (At("pushback") + m)
  BY <1>2 DEF NoStrandedWorker, SemaphoreExact, At
<1>b. ASSUME At("pop")' <= Len(taken') + (At("pushback")' + m)
      PROVE  NoStrandedWorker'
  BY <1>2, <1>b DEF NoStrandedWorker, At
<1>c. ASSUME ~term => sem' + At("termtest")' + At("pop")' = Len(taken') + (At("pushback")' + m)
      PROVE  SemaphoreExact'
  BY <1>1, <1>2, <1>c DEF SemaphoreExact
<1> HIDE DEF m
<1>3. CASE WorkerMask(w) \/ HandleFinished(w) \/ PushFree(w)
  <2>1. /\ sem' = sem /\ taken' = taken
        /\ At("termtest")' = At("termtest") /\ At("pop")' = At("pop")
        /\ At("pushback")' = At("pushback")
    BY <1>0, <1>3, MoveWorker DEF WorkerMask, HandleFinished, CloseConnection, PushFree
  <2> QED
    BY <1>1, <1>2, <2>1 DEF SemaphoreExact, NoStrandedWorker, At
<1>4. CASE SemWait(w)
  <2>1. /\ sem' = sem - 1 /\ sem > 0 /\ taken' = taken
        /\ At("termtest")' = At("termtest") + 1 /\ At("pop")' = At("pop")
        /\ At("pushback")' = At("pushback")
    BY <1>0, <1>4, MoveWorker DEF SemWait
  <2> QED
    BY <1>0, <1>1, <1>2, <2>1 DEF SemaphoreExact, NoStrandedWorker, At
<1>5. CASE WorkerTest(w)
  <2>1. sem' = sem /\ taken' = taken
    BY <1>5 DEF WorkerTest
  <2>2. CASE term
    <3>1. At("pop")' = At("pop") /\ At("pushback")' = At("pushback")
      BY <1>0, <1>5, <2>2, MoveWorker DEF WorkerTest
    <3> QED
      BY <1>1, <1>2, <2>1, <2>2, <3>1 DEF SemaphoreExact, NoStrandedWorker, At
  <2>3. CASE ~term
    <3>1. /\ At("termtest")' = At("termtest") - 1 /\ At("pop")' = At("pop") + 1
          /\ At("pushback")' = At("pushback")
      BY <1>0, <1>5, <2>3, MoveWorker DEF WorkerTest
    <3>2. At("termtest") >= 1
      <4>1. WorkersAt("termtest") # {}
        BY <1>5 DEF WorkerTest, WorkersAt
      <4> QED
        BY <1>0, <4>1, AtType, FS_EmptySet DEF At
    <3>3. sem + At("termtest") + At("pop") = Len(taken) + At("pushback") + m
      BY <1>0, <1>2, <2>3 DEF SemaphoreExact
    <3>4. SemaphoreExact'
      BY <1>0, <1>1, <1>2, <2>1, <3>1, <3>3 DEF SemaphoreExact
    <3>5. At("pop")' <= Len(taken') + Announced'
      BY <1>0, <1>2, <2>1, <3>1, <3>2, <3>3
    <3> QED
      BY <3>4, <3>5 DEF NoStrandedWorker, At
  <2> QED
    BY <2>2, <2>3
<1>6. CASE PopJob(w)
  <2>1. Len(taken') = Len(taken) - 1 /\ sem' = sem
    BY <1>6, PoppedQueue DEF PopJob, Control, TypeOK
  <2>2. /\ At("termtest")' = At("termtest") /\ At("pop")' = At("pop") - 1
        /\ At("pushback")' = At("pushback")
    <3>1. workerPC' = [workerPC EXCEPT ![w] = "semwait"]
            \/ workerPC' = [workerPC EXCEPT ![w] = "handle"]
      BY <1>6 DEF PopJob
    <3>2. workerPC[w] = "pop"
      BY <1>6 DEF PopJob
    <3> QED
      BY <1>0, <3>1, <3>2, MoveWorker
  <2>3. SemaphoreExact'
    <3>1. ~term => sem' + At("termtest")' + At("pop")' = Len(taken') + (At("pushback")' + m)
      BY <1>0, <1>a, <2>1, <2>2
    <3> QED
      BY <1>c, <3>1
  <2>4. NoStrandedWorker'
    BY <1>0, <1>a, <1>b, <2>1, <2>2
  <2> QED
    BY <2>3, <2>4
<1>7. CASE HandleAgain(w)
  <2>1. /\ sem' = sem + 1 /\ taken' = taken
        /\ At("termtest")' = At("termtest") /\ At("pop")' = At("pop")
        /\ At("pushback")' = At("pushback") + 1
    BY <1>0, <1>7, MoveWorker DEF HandleAgain
  <2>2. SemaphoreExact'
    BY <1>0, <1>a, <1>c, <2>1
  <2>3. NoStrandedWorker'
    BY <1>0, <1>a, <1>b, <2>1
  <2> QED
    BY <2>2, <2>3
<1>8. CASE PushBack(w)
  <2>1. Len(taken') = Len(taken) + 1 /\ sem' = sem
    BY <1>8, PushedQueue DEF PushBack, Control, TypeOK, HolderHasRequest, Holding
  <2>2. /\ At("termtest")' = At("termtest") /\ At("pop")' = At("pop")
        /\ At("pushback")' = At("pushback") - 1
    BY <1>0, <1>8, MoveWorker DEF PushBack
  <2>3. SemaphoreExact'
    BY <1>0, <1>a, <1>c, <2>1, <2>2
  <2>4. NoStrandedWorker'
    BY <1>0, <1>a, <1>b, <2>1, <2>2
  <2> QED
    BY <2>3, <2>4
<1> QED
  BY <1>3, <1>4, <1>5, <1>6, <1>7, <1>8 DEF request_workers

SemaphoreInv == Control /\ SemaphoreExact /\ NoStrandedWorker

\* At start nothing is announced and nobody is past the semaphore.
LEMMA InitSemaphore == Init => SemaphoreInv
<1> SUFFICES ASSUME Init PROVE SemaphoreInv
  OBVIOUS
<1>1. WorkersAt("termtest") = {} /\ WorkersAt("pop") = {} /\ WorkersAt("pushback") = {}
  BY DEF Init, WorkersAt
<1>2. At("termtest") = 0 /\ At("pop") = 0 /\ At("pushback") = 0
  BY <1>1, FS_EmptySet DEF At
<1>3. Len(taken) = 0 /\ sem = 0 /\ mainPC # "push"
  BY EmptyQueue DEF Init
<1> QED
  BY <1>2, <1>3, InitControl DEF SemaphoreInv, SemaphoreExact, NoStrandedWorker, Announced,
     At

\* For every number of workers and every pool: no worker is ever left inside
\* queue_pop without a job that is queued or about to be pushed, so that main
\* can join it.
THEOREM NobodyIsStranded == Spec => []NoStrandedWorker
<1>1. SemaphoreInv /\ [Next]_vars => SemaphoreInv'
  BY NextControl, QuietSemaphore, MainSemaphore, WorkerSemaphore
     DEF SemaphoreInv, Next, MainStep, GotoStep
<1>2. SemaphoreInv => NoStrandedWorker
  BY DEF SemaphoreInv
<1> QED
  BY <1>1, <1>2, InitSemaphore, PTL DEF Spec

-----------------------------------------------------------------------------
(***************************************************************************)
(* Refinement: each queue is used as FifoQueue's pool client uses it.  The *)
(* arithmetic behind it is a pigeonhole argument: what is queued, what is  *)
(* being pushed and what is about to be pushed are different Requests.     *)
(***************************************************************************)
Owner(t) == IF t = Main THEN MainHolding ELSE Holding(t)

\* What the threads hold are Requests, all different, and none is queued.
LEMMA HandsAreDistinct ==
  ASSUME ExclusiveOwnership
  PROVE  /\ \A t \in Workers \cup {Main} : Owner(t) =>
              Hand[t] \in Requests /\ Hand[t] \notin Range(free) \cup Range(taken)
         /\ \A t, u \in Workers \cup {Main} :
              Owner(t) /\ Owner(u) /\ Hand[t] = Hand[u] => t = u
<1>1. \A t \in Workers : t # Main
  BY WorkersAssumption
<1> QED
  BY <1>1 DEF ExclusiveOwnership, Owner, Hand

\* A queue without duplicates holds as many Requests as it is long.
LEMMA DistinctLength ==
  ASSUME NEW s \in Seq(Requests), Distinct(s)
  PROVE  IsFiniteSet(Range(s)) /\ Cardinality(Range(s)) = Len(s)
<1>1. Len(s) \in Nat /\ DOMAIN s = 1..Len(s) /\ s \in [1..Len(s) -> Requests]
  BY LenProperties
<1>2. s \in Bijection(1..Len(s), Range(s))
  <2>1. s \in [1..Len(s) -> Range(s)]
    BY <1>1 DEF Range
  <2> QED
    BY <1>1, <2>1 DEF Bijection, Injection, Surjection, IsInjective, Range, Distinct
<1>3. ExistsBijection(1..Len(s), Range(s))
  BY <1>2 DEF ExistsBijection
<1>4. IsFiniteSet(1..Len(s))
  BY <1>1, FS_Interval
<1> QED
  BY <1>1, <1>3, <1>4, FS_Bijection, FS_CountingElements

\* Pigeonhole: a queue, the threads T that push onto it and one more Request
\* r need less room than there is without r.
LEMMA RoomToPush ==
  ASSUME ExclusiveOwnership, NEW s \in Seq(Requests), Distinct(s),
         Range(s) \subseteq Range(free) \cup Range(taken),
         NEW T \in SUBSET (Workers \cup {Main}), \A t \in T : Owner(t),
         NEW r \in Requests, r \notin Range(s), \A t \in T : Hand[t] # r
  PROVE  Len(s) + Cardinality(T) < PoolSize
<1> DEFINE h == [t \in T |-> Hand[t]]
           H == Range(h)
<1>1. IsFiniteSet(T) /\ Cardinality(T) \in Nat
  <2>1. IsFiniteSet(Workers \cup {Main})
    BY WorkersAssumption, FS_AddElement
  <2> QED
    BY <2>1, FS_Subset, FS_CardinalityType
<1>2. h \in Bijection(T, H)
  <2>1. h \in [T -> H]
    BY DEF Range
  <2>2. IsInjective(h)
    BY HandsAreDistinct DEF IsInjective
  <2>3. \A x \in H : \E t \in T : h[t] = x
    BY DEF Range
  <2> QED
    BY <2>1, <2>2, <2>3 DEF Bijection, Injection, Surjection
<1>3. IsFiniteSet(H) /\ Cardinality(H) = Cardinality(T)
  BY <1>1, <1>2, FS_Bijection DEF ExistsBijection
<1>4. H \subseteq Requests /\ H \cap Range(s) = {} /\ r \notin H
  BY HandsAreDistinct DEF Range
<1>5. IsFiniteSet(Range(s)) /\ Cardinality(Range(s)) = Len(s) /\ Range(s) \subseteq Requests
  BY DistinctLength, RangeOfSeq
<1> HIDE DEF H
<1>6. Cardinality(Range(s) \cup H) = Len(s) + Cardinality(T)
  <2>1. Cardinality(Range(s) \cup H)
          = Cardinality(Range(s)) + Cardinality(H) - Cardinality(Range(s) \cap H)
    BY <1>3, <1>5, FS_Union
  <2>2. Cardinality(Range(s) \cap H) = 0
    BY <1>4, FS_EmptySet
  <2>3. Len(s) \in Nat
    BY LenProperties
  <2> QED
    BY <1>1, <1>3, <1>5, <2>1, <2>2, <2>3
<1>7. /\ IsFiniteSet(Requests \ {r}) /\ Cardinality(Requests \ {r}) = PoolSize - 1
      /\ PoolSize \in Nat
  BY RequestsAssumption, FS_RemoveElement, PoolSizeType DEF PoolSize
<1>8. Cardinality(Range(s) \cup H) <= PoolSize - 1
  <2>1. Range(s) \cup H \in SUBSET (Requests \ {r})
    BY <1>4, <1>5
  <2> QED
    BY <1>7, <2>1, FS_Subset
<1> QED
  BY <1>1, <1>6, <1>7, <1>8, LenProperties

\* What main does, as a client of taken_req_queue.
LEMMA MainUsesTaken ==
  ASSUME PoolInv, Prepare \/ PushTaken \/ FillNext \/ PopFree
  PROVE  TakenQueue!PoolNext
<1>0. /\ Main \in Workers \cup {Main} /\ Main \notin Workers
      /\ taken \in Seq(Requests) /\ ExclusiveOwnership
      /\ mainReq \in Requests \cup {NoReq}
  BY WorkersAssumption DEF PoolInv, Control, TypeOK
<1>1. CASE Prepare
  <2>1. /\ mainPC = "prepare" /\ mainPC' = "push"
        /\ UNCHANGED <<taken, mainReq, workerPC, job>>
    BY <1>1 DEF Prepare, PrepareWith, workerVars
  <2>2. /\ mainReq \in Requests /\ mainReq \notin Range(taken)
        /\ \A w \in Workers : Holding(w) => job[w] # mainReq
    BY <1>0, <2>1 DEF ExclusiveOwnership, MainHolding
  <2>3. /\ TakenQueue!Pushing \subseteq Workers
        /\ \A w \in TakenQueue!Pushing : workerPC[w] = "pushback"
    BY <1>0, <2>1 DEF TakenQueue!Pushing, TakenCall
  <2>4. /\ TakenQueue!Pushing \in SUBSET (Workers \cup {Main})
        /\ \A t \in TakenQueue!Pushing : Owner(t) /\ Hand[t] # mainReq
    BY <1>0, <2>2, <2>3 DEF Owner, Holding, Hand
  <2>5. Len(taken) + Cardinality(TakenQueue!Pushing) < PoolSize
    BY <1>0, <2>2, <2>4, RoomToPush DEF ExclusiveOwnership
  <2>6. TakenQueue!CallPush(Main)
    BY <1>0, <2>1, <2>2 DEF TakenQueue!CallPush, TakenCall, Hand
  <2>7. TakenQueue!PoolCallPush(Main)
    BY <2>5, <2>6 DEF TakenQueue!PoolCallPush, TakenQueue!Cardinality, Cardinality
  <2> QED
    BY <1>0, <2>7 DEF TakenQueue!PoolNext
<1>2. CASE PushTaken
  <2>1. TakenQueue!Push(Main)
    BY <1>0, <1>2 DEF PushTaken, TakenQueue!Push, TakenCall, Hand, workerVars
  <2> QED
    BY <1>0, <2>1 DEF TakenQueue!PoolNext
<1>3. CASE FillNext \/ PopFree
  <2>1. /\ mainPC # "push" /\ mainPC' # "push" /\ UNCHANGED <<taken, workerPC, job>>
    BY <1>3 DEF FillNext, PopFree, TakeFree, workerVars
  <2>2. mainReq' \in Requests
    BY <1>3, PoppedQueue DEF FillNext, PopFree, TakeFree, PoolInv, Control, TypeOK
  <2>3. TakenQueue!Local(Main)
    BY <1>0, <2>1, <2>2 DEF TakenQueue!Local, TakenCall, Hand
  <2> QED
    BY <1>0, <2>3 DEF TakenQueue!PoolNext
<1> QED
  BY <1>1, <1>2, <1>3

\* What a worker does, as a client of taken_req_queue.
LEMMA WorkerUsesTaken ==
  ASSUME PoolInv, NEW w \in Workers, request_workers(w)
  PROVE  TakenQueue!PoolNext \/ UNCHANGED TakenQueue!vars
<1>0. /\ w \in Workers \cup {Main} /\ w # Main
      /\ taken \in Seq(Requests) /\ ExclusiveOwnership
      /\ workerPC \in [Workers -> WorkerPCs] /\ job \in [Workers -> Requests \cup {NoReq}]
  BY WorkersAssumption DEF PoolInv, Control, TypeOK
<1>1. mainPC' = mainPC /\ mainReq' = mainReq
  BY DEF request_workers, WorkerMask, SemWait, WorkerTest, PopJob, HandleFinished,
         CloseConnection, PushFree, HandleAgain, PushBack, mainVars
<1>2. CASE WorkerMask(w) \/ SemWait(w) \/ HandleFinished(w) \/ PushFree(w)
  <2>1. UNCHANGED <<taken, job>> /\ TakenCall' = TakenCall
    BY <1>0, <1>1, <1>2 DEF WorkerMask, SemWait, HandleFinished, CloseConnection, PushFree,
                           TakenCall
  <2> QED
    BY <1>1, <2>1 DEF TakenQueue!vars, Hand
<1>3. CASE WorkerTest(w)
  <2>1. CASE term
    BY <1>0, <1>1, <1>3, <2>1 DEF WorkerTest, TakenQueue!vars, TakenCall, Hand
  <2>2. CASE ~term
    <3>1. TakenQueue!CallPop(w)
      BY <1>0, <1>1, <1>3, <2>2 DEF WorkerTest, TakenQueue!CallPop, TakenCall, Hand
    <3> QED
      BY <1>0, <3>1 DEF TakenQueue!PoolNext
  <2> QED
    BY <2>1, <2>2
<1>4. CASE PopJob(w)
  <2>1. TakenCall[w] = "pop" /\ TakenCall' = [TakenCall EXCEPT ![w] = "none"]
    BY <1>0, <1>1, <1>4 DEF PopJob, TakenCall
  <2>2. Hand' = [Hand EXCEPT ![w] = Head(taken)]
    BY <1>0, <1>1, <1>4 DEF PopJob, Hand
  <2>3. TakenQueue!Pop(w)
    BY <1>4, <2>1, <2>2 DEF PopJob, TakenQueue!Pop
  <2> QED
    BY <1>0, <2>3 DEF TakenQueue!PoolNext
<1>5. CASE HandleAgain(w)
  <2>1. /\ workerPC[w] = "handle" /\ workerPC' = [workerPC EXCEPT ![w] = "pushback"]
        /\ UNCHANGED <<taken, job>>
    BY <1>5 DEF HandleAgain
  <2>2. Owner(w) /\ Hand[w] = job[w]
    BY <1>0, <2>1 DEF Owner, Holding, Hand
  <2>3. job[w] \in Requests /\ job[w] \notin Range(taken)
    BY <1>0, <2>2, HandsAreDistinct
  <2>4. /\ TakenQueue!Pushing \in SUBSET (Workers \cup {Main})
        /\ \A t \in TakenQueue!Pushing : t # w /\ Owner(t)
    BY <1>0, <2>1 DEF TakenQueue!Pushing, TakenCall, Owner, Holding, MainHolding
  <2>5. \A t \in TakenQueue!Pushing : Hand[t] # job[w]
    BY <1>0, <2>2, <2>4, HandsAreDistinct
  <2>6. Len(taken) + Cardinality(TakenQueue!Pushing) < PoolSize
    BY <1>0, <2>3, <2>4, <2>5, RoomToPush DEF ExclusiveOwnership
  <2>7. TakenQueue!CallPush(w)
    <3>1. TakenCall[w] = "none" /\ TakenCall' = [TakenCall EXCEPT ![w] = "push"]
      BY <1>0, <1>1, <2>1 DEF TakenCall
    <3>2. Hand' = [Hand EXCEPT ![w] = job[w]]
      BY <1>0, <1>1, <2>1 DEF Hand
    <3> QED
      BY <2>1, <2>3, <3>1, <3>2 DEF TakenQueue!CallPush
  <2>8. TakenQueue!PoolCallPush(w)
    BY <2>6, <2>7 DEF TakenQueue!PoolCallPush, TakenQueue!Cardinality, Cardinality
  <2> QED
    BY <1>0, <2>8 DEF TakenQueue!PoolNext
<1>6. CASE PushBack(w)
  <2>1. TakenCall[w] = "push" /\ TakenCall' = [TakenCall EXCEPT ![w] = "none"]
    BY <1>0, <1>1, <1>6 DEF PushBack, TakenCall
  <2>2. Hand' = Hand /\ Hand[w] = job[w]
    BY <1>0, <1>1, <1>6 DEF PushBack, Hand
  <2>3. TakenQueue!Push(w)
    BY <1>6, <2>1, <2>2 DEF PushBack, TakenQueue!Push
  <2> QED
    BY <1>0, <2>3 DEF TakenQueue!PoolNext
<1> QED
  BY <1>2, <1>3, <1>4, <1>5, <1>6 DEF request_workers

\* Every step is a step of taken_req_queue's client or does not concern it.
LEMMA StepUsesTaken ==
  ASSUME PoolInv, [Next]_vars
  PROVE  [TakenQueue!PoolNext]_TakenQueue!vars
<1>1. CASE \/ Arrive \/ SendSignal \/ sigterm_handler \/ GotoStep \/ UNCHANGED vars
           \/ FillPush \/ Accept \/ AcceptError \/ PostAll
  <2>1. UNCHANGED <<taken, mainReq, workerPC, job>>
    BY <1>1, GotoEffect DEF PoolInv, Control, Arrive, SendSignal, sigterm_handler, FillPush,
       Accept, AcceptError, PostAll, PostTimes, vars, mainVars, workerVars
  <2>2. mainPC' = "push" <=> mainPC = "push"
    BY <1>1, GotoEffect DEF PoolInv, Control, Arrive, SendSignal, sigterm_handler, FillPush,
       Accept, AcceptError, PostAll, PostTimes, vars, mainVars
  <2> QED
    BY <2>1, <2>2 DEF TakenQueue!vars, TakenCall, Hand
<1> QED
  BY <1>1, MainUsesTaken, WorkerUsesTaken DEF Next, MainStep, GotoStep

\* What main does, as a client of free_req_queue.
LEMMA MainUsesFree ==
  ASSUME PoolInv, FillNext \/ FillPush \/ PopFree
  PROVE  FreeQueue!PoolNext
<1>0. /\ Main \in Workers \cup {Main} /\ Main \notin Workers
      /\ free \in Seq(Requests) /\ ExclusiveOwnership
  BY WorkersAssumption DEF PoolInv, Control, TypeOK
<1>1. CASE FillNext
  <2>1. /\ mainPC = "fill" /\ mainPC' = "fillpush"
        /\ UNCHANGED <<free, workerPC, job>>
        /\ mainReq' \in Requests /\ mainReq' \notin Range(free)
    BY <1>1 DEF FillNext, workerVars
  <2>2. \A w \in Workers : workerPC[w] = "start"
    BY <2>1 DEF PoolInv, Control, StartIsQuiet, StartPCs
  <2>3. FreeQueue!Pushing = {}
    BY <1>0, <2>1, <2>2 DEF FreeQueue!Pushing, FreeCall
  <2>4. Len(free) + Cardinality(FreeQueue!Pushing) < PoolSize
    BY <1>0, <2>1, <2>3, RoomToPush DEF ExclusiveOwnership
  <2>5. FreeQueue!CallPush(Main)
    BY <1>0, <2>1 DEF FreeQueue!CallPush, FreeCall, Hand
  <2>6. FreeQueue!PoolCallPush(Main)
    BY <2>4, <2>5 DEF FreeQueue!PoolCallPush, FreeQueue!Cardinality, Cardinality
  <2> QED
    BY <1>0, <2>6 DEF FreeQueue!PoolNext
<1>2. CASE FillPush
  <2>1. FreeQueue!Push(Main)
    BY <1>0, <1>2 DEF FillPush, FreeQueue!Push, FreeCall, Hand, workerVars
  <2> QED
    BY <1>0, <2>1 DEF FreeQueue!PoolNext
<1>3. CASE PopFree
  <2>1. FreeQueue!Pop(Main)
    BY <1>0, <1>3 DEF PopFree, TakeFree, FreeQueue!Pop, FreeCall, Hand, workerVars
  <2> QED
    BY <1>0, <2>1 DEF FreeQueue!PoolNext
<1> QED
  BY <1>1, <1>2, <1>3

\* What a worker does, as a client of free_req_queue.
LEMMA WorkerUsesFree ==
  ASSUME PoolInv, NEW w \in Workers, request_workers(w)
  PROVE  FreeQueue!PoolNext \/ UNCHANGED FreeQueue!vars
<1>0. /\ w \in Workers \cup {Main} /\ w # Main
      /\ free \in Seq(Requests) /\ taken \in Seq(Requests) /\ ExclusiveOwnership
      /\ workerPC \in [Workers -> WorkerPCs] /\ job \in [Workers -> Requests \cup {NoReq}]
  BY WorkersAssumption DEF PoolInv, Control, TypeOK
<1>1. mainPC' = mainPC /\ mainReq' = mainReq
  BY DEF request_workers, WorkerMask, SemWait, WorkerTest, PopJob, HandleFinished,
         CloseConnection, PushFree, HandleAgain, PushBack, mainVars
<1>2. CASE WorkerMask(w) \/ SemWait(w) \/ WorkerTest(w) \/ HandleAgain(w) \/ PushBack(w)
  <2>1. UNCHANGED <<free, job>> /\ FreeCall' = FreeCall
    BY <1>0, <1>1, <1>2 DEF WorkerMask, SemWait, WorkerTest, HandleAgain, PushBack, FreeCall
  <2> QED
    BY <1>1, <2>1 DEF FreeQueue!vars, Hand
<1>3. CASE PopJob(w)
  <2>1. Head(taken) \in Requests /\ free' = free
    BY <1>0, <1>3, PoppedQueue DEF PopJob
  <2>2. FreeCall[w] = "none" /\ FreeCall' = FreeCall
    BY <1>0, <1>1, <1>3 DEF PopJob, FreeCall
  <2>3. Hand' = [Hand EXCEPT ![w] = Head(taken)]
    BY <1>0, <1>1, <1>3 DEF PopJob, Hand
  <2>4. FreeQueue!Local(w)
    BY <2>1, <2>2, <2>3 DEF FreeQueue!Local
  <2> QED
    BY <1>0, <2>4 DEF FreeQueue!PoolNext
<1>4. CASE HandleFinished(w)
  <2>1. /\ workerPC[w] = "handle" /\ workerPC' = [workerPC EXCEPT ![w] = "pushfree"]
        /\ UNCHANGED <<free, job>>
    BY <1>4 DEF HandleFinished, CloseConnection
  <2>2. Owner(w) /\ Hand[w] = job[w]
    BY <1>0, <2>1 DEF Owner, Holding, Hand
  <2>3. job[w] \in Requests /\ job[w] \notin Range(free)
    BY <1>0, <2>2, HandsAreDistinct
  <2>4. /\ FreeQueue!Pushing \in SUBSET (Workers \cup {Main})
        /\ \A t \in FreeQueue!Pushing : t # w /\ Owner(t)
    BY <1>0, <2>1 DEF FreeQueue!Pushing, FreeCall, Owner, Holding, MainHolding
  <2>5. \A t \in FreeQueue!Pushing : Hand[t] # job[w]
    BY <1>0, <2>2, <2>4, HandsAreDistinct
  <2>6. Len(free) + Cardinality(FreeQueue!Pushing) < PoolSize
    BY <1>0, <2>3, <2>4, <2>5, RoomToPush DEF ExclusiveOwnership
  <2>7. FreeQueue!CallPush(w)
    <3>1. FreeCall[w] = "none" /\ FreeCall' = [FreeCall EXCEPT ![w] = "push"]
      BY <1>0, <1>1, <2>1 DEF FreeCall
    <3>2. Hand' = [Hand EXCEPT ![w] = job[w]]
      BY <1>0, <1>1, <2>1 DEF Hand
    <3> QED
      BY <2>1, <2>3, <3>1, <3>2 DEF FreeQueue!CallPush
  <2>8. FreeQueue!PoolCallPush(w)
    BY <2>6, <2>7 DEF FreeQueue!PoolCallPush, FreeQueue!Cardinality, Cardinality
  <2> QED
    BY <1>0, <2>8 DEF FreeQueue!PoolNext
<1>5. CASE PushFree(w)
  <2>1. FreeCall[w] = "push" /\ FreeCall' = [FreeCall EXCEPT ![w] = "none"]
    BY <1>0, <1>1, <1>5 DEF PushFree, FreeCall
  <2>2. Hand' = Hand /\ Hand[w] = job[w]
    BY <1>0, <1>1, <1>5 DEF PushFree, Hand
  <2>3. FreeQueue!Push(w)
    BY <1>5, <2>1, <2>2 DEF PushFree, FreeQueue!Push
  <2> QED
    BY <1>0, <2>3 DEF FreeQueue!PoolNext
<1> QED
  BY <1>2, <1>3, <1>4, <1>5 DEF request_workers

\* Every step is a step of free_req_queue's client or does not concern it.
LEMMA StepUsesFree ==
  ASSUME PoolInv, [Next]_vars
  PROVE  [FreeQueue!PoolNext]_FreeQueue!vars
<1>0. Main \in Workers \cup {Main} /\ Main \notin Workers
  BY WorkersAssumption
<1>1. CASE \/ Arrive \/ SendSignal \/ sigterm_handler \/ UNCHANGED vars
           \/ Accept \/ AcceptError \/ Prepare \/ PushTaken \/ PostAll
  <2>1. UNCHANGED <<free, mainReq, workerPC, job>>
    BY <1>1 DEF Arrive, SendSignal, sigterm_handler, Accept, AcceptError, Prepare, PrepareWith,
       PushTaken, PostAll, PostTimes, vars, mainVars, workerVars
  <2>2. /\ mainPC' = "freepop" <=> mainPC = "freepop"
        /\ mainPC' = "fillpush" <=> mainPC = "fillpush"
    BY <1>1 DEF Arrive, SendSignal, sigterm_handler, Accept, AcceptError, Prepare, PrepareWith,
       PushTaken, PostAll, PostTimes, vars, mainVars
  <2> QED
    BY <2>1, <2>2 DEF FreeQueue!vars, FreeCall, Hand
<1>2. CASE GotoStep
  <2>1. /\ UNCHANGED <<free, mainReq, workerPC, job>>
        /\ mainPC \notin {"fillpush", "freepop"} /\ mainPC' # "fillpush"
    BY <1>2, GotoEffect DEF PoolInv, Control
  <2>2. CASE mainPC' = "freepop"
    <3>1. FreeQueue!CallPop(Main)
      BY <1>0, <2>1, <2>2 DEF FreeQueue!CallPop, FreeCall, Hand
    <3> QED
      BY <1>0, <3>1 DEF FreeQueue!PoolNext
  <2>3. CASE mainPC' # "freepop"
    BY <2>1, <2>3 DEF FreeQueue!vars, FreeCall, Hand
  <2> QED
    BY <2>2, <2>3
<1> QED
  BY <1>1, <1>2, MainUsesFree, WorkerUsesFree DEF Next, MainStep, GotoStep

\* Both queues start empty, with nobody inside and nobody holding anything.
LEMMA InitUses == Init => TakenQueue!Init /\ FreeQueue!Init
  BY WorkersAssumption DEF Init, TakenQueue!Init, FreeQueue!Init, TakenCall, FreeCall, Hand

\* For every pool and every number of workers, main and the workers use both
\* queues as FifoQueue's pool client: first in, first out, and never a push
\* that the queue has no room for.
THEOREM ServerUsesQueuesAsPool == Spec => QueuesUsedAsPool
<1>1. PoolInv /\ [Next]_vars => [TakenQueue!PoolNext]_TakenQueue!vars
  BY StepUsesTaken
<1>2. PoolInv /\ [Next]_vars => [FreeQueue!PoolNext]_FreeQueue!vars
  BY StepUsesFree
<1>3. Init => TakenQueue!Init
  BY InitUses
<1>4. Init => FreeQueue!Init
  BY InitUses
<1> QED
  BY <1>1, <1>2, <1>3, <1>4, InitPool, NextPool, PTL
     DEF Spec, QueuesUsedAsPool, TakenQueue!PoolSpec, FreeQueue!PoolSpec
=============================================================================
