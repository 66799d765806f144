--------------------------- MODULE HttpServerProofs ---------------------------
(***************************************************************************)
(* httpserver.c is safe for every number of workers, every pool size and   *)
(* every set of descriptors: a Request is in one place at a time and never *)
(* lost, and a live Request has an open connection of its own.  The use of *)
(* the semaphore and of the queues is the matter of HttpServerQueueProofs. *)
(***************************************************************************)
EXTENDS HttpServer, FiniteSetTheorems, SequenceTheorems, TLAPS

-----------------------------------------------------------------------------
(***************************************************************************)
(* What a push and a pop do to the set of queued Requests.                 *)
(***************************************************************************)

\* The empty queue holds nothing.
LEMMA EmptyQueue == Range(<<>>) = {} /\ Distinct(<<>>) /\ Len(<<>>) = 0
  BY DEF Range, Distinct

\* queue_push adds one Request and keeps the queue free of duplicates when
\* the Request was not queued before.
LEMMA PushedQueue ==
  ASSUME NEW s \in Seq(Requests), NEW r \in Requests
  PROVE  /\ Append(s, r) \in Seq(Requests)
         /\ Len(Append(s, r)) = Len(s) + 1
         /\ Range(Append(s, r)) = Range(s) \cup {r}
         /\ Distinct(s) /\ r \notin Range(s) => Distinct(Append(s, r))
<1> DEFINE t == Append(s, r)
<1>1. /\ t \in Seq(Requests) /\ Len(t) = Len(s) + 1 /\ Len(s) \in Nat
      /\ \A i \in 1..Len(s) : t[i] = s[i]
      /\ t[Len(s) + 1] = r
  BY AppendProperties, LenProperties
<1>2. DOMAIN s = 1..Len(s) /\ DOMAIN t = 1..Len(s) + 1
  BY <1>1, LenProperties
<1> HIDE DEF t
<1>3. Range(t) = Range(s) \cup {r}
  <2>1. \A x \in Range(t) : x \in Range(s) \cup {r}
    BY <1>1, <1>2 DEF Range
  <2>2. \A x \in Range(s) \cup {r} : x \in Range(t)
    BY <1>1, <1>2 DEF Range
  <2> QED
    BY <2>1, <2>2
<1>4. Distinct(s) /\ r \notin Range(s) => Distinct(t)
  BY <1>1, <1>2 DEF Distinct, Range
<1> QED
  BY <1>1, <1>3, <1>4 DEF t

\* queue_pop takes the oldest Request out, and it is not queued any more when
\* the queue was free of duplicates.
LEMMA PoppedQueue ==
  ASSUME NEW s \in Seq(Requests), s # <<>>
  PROVE  /\ Head(s) \in Requests /\ Head(s) \in Range(s)
         /\ Tail(s) \in Seq(Requests)
         /\ Len(s) \in Nat \ {0} /\ Len(Tail(s)) = Len(s) - 1
         /\ Range(Tail(s)) \subseteq Range(s)
         /\ Range(s) = Range(Tail(s)) \cup {Head(s)}
         /\ Distinct(s) => Distinct(Tail(s)) /\ Head(s) \notin Range(Tail(s))
<1> DEFINE t == Tail(s)
<1>1. /\ t \in Seq(Requests) /\ Len(t) = Len(s) - 1 /\ Len(s) \in Nat \ {0}
      /\ \A i \in 1..Len(t) : t[i] = s[i + 1]
  BY HeadTailProperties, EmptySeq
<1>2. DOMAIN s = 1..Len(s) /\ DOMAIN t = 1..Len(s) - 1
  BY <1>1, LenProperties
<1>3. Head(s) = s[1] /\ Head(s) \in Requests
  BY HeadTailProperties
<1> HIDE DEF t
<1>4. Head(s) \in Range(s)
  BY <1>1, <1>2, <1>3 DEF Range
<1>5. \A x \in Range(t) : x \in Range(s)
  BY <1>1, <1>2 DEF Range
<1>6. \A x \in Range(s) : x = Head(s) \/ x \in Range(t)
  <2> SUFFICES ASSUME NEW i \in 1..Len(s) PROVE s[i] = s[1] \/ s[i] \in Range(t)
    BY <1>2, <1>3 DEF Range
  <2>1. CASE i # 1
    <3>1. i - 1 \in DOMAIN t /\ t[i - 1] = s[i]
      BY <1>1, <1>2, <2>1
    <3> QED
      BY <3>1 DEF Range
  <2> QED
    BY <2>1
<1>7. Distinct(s) => Distinct(t) /\ Head(s) \notin Range(t)
  <2> SUFFICES ASSUME Distinct(s) PROVE Distinct(t) /\ Head(s) \notin Range(t)
    OBVIOUS
  <2>1. \A i \in 1..Len(t) : i + 1 \in DOMAIN s /\ i + 1 # 1 /\ t[i] = s[i + 1]
    BY <1>1, <1>2
  <2>2. \A i \in DOMAIN t : t[i] # s[1]
    BY <1>1, <1>2, <2>1 DEF Distinct
  <2>3. \A i, j \in DOMAIN t : t[i] = t[j] => i + 1 = j + 1
    BY <1>1, <1>2, <2>1 DEF Distinct
  <2>4. Distinct(t)
    BY <1>1, <1>2, <2>3 DEF Distinct
  <2> QED
    BY <1>3, <2>2, <2>4 DEF Range
<1>8. Range(s) = Range(t) \cup {Head(s)}
  BY <1>4, <1>5, <1>6
<1> QED
  BY <1>1, <1>3, <1>4, <1>5, <1>7, <1>8 DEF t

-----------------------------------------------------------------------------
(***************************************************************************)
(* Types, and what main's place in the program says: nothing has happened  *)
(* before the workers are created, and main posts for the workers only     *)
(* after it has seen term.                                                 *)
(***************************************************************************)
StartIsQuiet ==
  mainPC \in StartPCs =>
    /\ taken = <<>> /\ sem = 0 /\ ~term /\ ~sent
    /\ \A w \in Workers : workerPC[w] = "start"

PostsInRange ==
  /\ mainPC = "postall" => posts < Cardinality(Workers)
  /\ mainPC \notin StopPCs => posts = 0
  /\ mainPC \in StopPCs => term

HolderHasRequest ==
  /\ MainHolding => mainReq \in Requests
  /\ \A w \in Workers : Holding(w) => job[w] \in Requests

Control == TypeOK /\ StartIsQuiet /\ PostsInRange /\ HolderHasRequest

\* There is at least one worker to post for.
LEMMA SomeWorker == Cardinality(Workers) \in Nat \ {0}
  BY WorkersAssumption, FS_CardinalityType, FS_EmptySet

\* The number of slots is a number.
LEMMA PoolSizeType == PoolSize \in Nat
  BY RequestsAssumption, FS_CardinalityType DEF PoolSize

\* The process starts well typed and quiet.
LEMMA InitControl == Init => Control
<1> SUFFICES ASSUME Init PROVE Control
  OBVIOUS
<1>1. TypeOK
  <2>1. <<>> \in Seq(Requests) /\ Len(<<>>) = 0
    BY EmptySeq
  <2>2. /\ free \in Seq(Requests) /\ Len(free) <= PoolSize
        /\ taken \in Seq(Requests) /\ Len(taken) <= PoolSize
    BY <2>1, PoolSizeType DEF Init
  <2>3. sem \in Nat /\ backlog \in 0..MaxBacklog /\ posts \in 0..Cardinality(Workers)
    BY SomeWorker, BacklogAssumption DEF Init
  <2>4. term \in BOOLEAN /\ sent \in BOOLEAN
    BY Zenon DEF Init
  <2> QED
    BY <2>2, <2>3, <2>4 DEF Init, TypeOK, MainPCs, StartPCs, WorkerPCs
<1>2. StartIsQuiet /\ PostsInRange /\ HolderHasRequest
  BY DEF Init, StartIsQuiet, PostsInRange, HolderHasRequest, StartPCs, StopPCs, MainHolding,
         Holding
<1> QED
  BY <1>1, <1>2 DEF Control

\* Clients and signals disturb neither.
LEMMA OutsideControl ==
  ASSUME Control, Arrive \/ SendSignal \/ sigterm_handler
  PROVE  Control'
<1> USE DEF Control, mainVars, workerVars
<1>1. TypeOK'
  <2>1. CASE Arrive
    BY <2>1, BacklogAssumption DEF TypeOK, Arrive
  <2>2. CASE SendSignal
    BY <2>2 DEF TypeOK, SendSignal
  <2>3. CASE sigterm_handler
    BY <2>3 DEF TypeOK, MainPCs, StartPCs, sigterm_handler
  <2> QED
    BY <2>1, <2>2, <2>3
<1>2. StartIsQuiet' /\ PostsInRange' /\ HolderHasRequest'
  BY DEF TypeOK, StartIsQuiet, PostsInRange, HolderHasRequest, StartPCs, StopPCs, MainHolding,
         Holding, Arrive, SendSignal, sigterm_handler
<1> QED
  BY <1>1, <1>2

\* The steps of main that only move its program counter ...
GotoStep ==
  \/ ParsePort \/ create_listen_socket \/ ParseOptions \/ Start
  \/ LoopTest \/ BlockSignals \/ PollTimeout \/ PollReady \/ PollError
  \/ TermTest \/ TermCheck \/ Join

\* ... and what they do: main does not go back to the start-up, stops only
\* behind a test of term, and gets neither a Request nor a connection.
LEMMA GotoEffect ==
  ASSUME TypeOK, GotoStep
  PROVE  /\ UNCHANGED <<free, taken, sem, sent, backlog, open, fd, parser, mainReq, mainFd,
                        posts, workerPC, job>>
         /\ mainPC' \in MainPCs
         /\ mainPC \notin {"fillpush", "accept", "freepop", "prepare", "push", "postall", "done"}
         /\ mainPC' \notin {"fillpush", "test", "check", "push"}
         /\ mainPC' = "prepare" => mainPC = "check"
         /\ mainPC' = "freepop" => mainPC = "test"
         /\ mainPC' \in StartPCs => mainPC \in StartPCs
         /\ mainPC' \in StopPCs => mainPC' = "postall" \/ mainPC = "join"
         /\ mainPC \in StopPCs => mainPC' \in StopPCs
         /\ mainPC' = "postall" => mainPC \notin StopPCs
         /\ mainPC \in StartPCs /\ mainPC' \notin StartPCs => Requests \subseteq Range(free)
<1> USE DEF MainGoto, workerVars, MainPCs, StartPCs, StopPCs
<1>1. CASE ParsePort \/ create_listen_socket \/ ParseOptions
  BY <1>1 DEF ParsePort, create_listen_socket, ParseOptions, StartUp
<1>2. CASE Start \/ BlockSignals \/ Join
  BY <1>2 DEF Start, BlockSignals, Join
<1>3. CASE LoopTest \/ TermTest \/ TermCheck
  BY <1>3 DEF LoopTest, TermTest, TermCheck
<1>4. CASE PollTimeout \/ PollReady \/ PollError
  BY <1>4 DEF PollTimeout, PollReady, PollError
<1> QED
  BY <1>1, <1>2, <1>3, <1>4 DEF GotoStep

\* Main sees term before it stops, and term is set while it waits in poll or
\* not at all.
LEMMA GotoTerm ==
  ASSUME TypeOK, GotoStep
  PROVE  /\ term' \in BOOLEAN
         /\ term => term'
         /\ mainPC # "poll" => term' = term
         /\ mainPC' = "postall" => term'
<1> USE DEF MainGoto
<1>1. CASE ParsePort \/ create_listen_socket \/ ParseOptions
  BY <1>1, Zenon DEF ParsePort, create_listen_socket, ParseOptions, StartUp, TypeOK
<1>2. CASE Start \/ BlockSignals \/ Join
  BY <1>2, Zenon DEF Start, BlockSignals, Join, TypeOK
<1>3. CASE LoopTest \/ TermTest \/ TermCheck
  BY <1>3, Zenon DEF LoopTest, TermTest, TermCheck, TypeOK
<1>4. CASE PollTimeout \/ PollReady \/ PollError
  BY <1>4, Zenon DEF PollTimeout, PollReady, PollError, Unblock, TypeOK
<1> QED
  BY <1>1, <1>2, <1>3, <1>4 DEF GotoStep

\* Moving main's program counter keeps them.
LEMMA GotoControl == ASSUME Control, GotoStep PROVE Control'
<1> USE GotoEffect, GotoTerm DEF Control
<1>1. TypeOK'
  BY DEF TypeOK
<1>2. StartIsQuiet'
  BY DEF StartIsQuiet, StartPCs
<1>3. PostsInRange'
  <2>1. mainPC' = "postall" => posts' < Cardinality(Workers)
    BY SomeWorker DEF PostsInRange
  <2>2. mainPC' \notin StopPCs => posts' = 0
    BY DEF PostsInRange
  <2>3. mainPC' \in StopPCs => term'
    BY DEF PostsInRange, StopPCs
  <2> QED
    BY <2>1, <2>2, <2>3 DEF PostsInRange
<1>4. HolderHasRequest'
  BY DEF HolderHasRequest, MainHolding, Holding
<1> QED
  BY <1>1, <1>2, <1>3, <1>4

\* The steps of main that touch a queue, the semaphore or a descriptor.
LEMMA MainControl ==
  ASSUME Control,
         \/ FillNext \/ FillPush \/ Accept \/ AcceptError
         \/ PopFree \/ Prepare \/ PushTaken \/ PostAll
  PROVE  Control'
<1> USE DEF Control, workerVars
<1>1. TypeOK'
  <2>1. CASE FillNext
    BY <2>1 DEF FillNext, TypeOK, MainPCs, StartPCs
  <2>2. CASE FillPush
    BY <2>2, PushedQueue, PoolSizeType
       DEF FillPush, TypeOK, MainPCs, StartPCs, HolderHasRequest, MainHolding
  <2>3. CASE Accept
    BY <2>3, BacklogAssumption DEF Accept, TypeOK, MainPCs
  <2>4. CASE AcceptError
    BY <2>4, BacklogAssumption DEF AcceptError, TypeOK, MainPCs
  <2>5. CASE PopFree
    <3>1. /\ Head(free) \in Requests /\ Tail(free) \in Seq(Requests)
          /\ Len(Tail(free)) <= PoolSize
      BY <2>5, PoppedQueue, PoolSizeType DEF PopFree, TypeOK
    <3> QED
      BY <2>5, <3>1 DEF PopFree, TakeFree, TypeOK, MainPCs
  <2>6. CASE Prepare
    <3>1. sem' \in Nat
      BY <2>6 DEF Prepare, PrepareWith, TypeOK
    <3>2. parser' \in [Requests -> {"unset", "fresh", "partial", "finished"}]
      BY <2>6 DEF Prepare, PrepareWith, TypeOK
    <3> QED
      BY <2>6, <3>1, <3>2 DEF Prepare, PrepareWith, TypeOK, MainPCs
  <2>7. CASE PushTaken
    BY <2>7, PushedQueue, PoolSizeType
       DEF PushTaken, TypeOK, MainPCs, HolderHasRequest, MainHolding
  <2>8. CASE PostAll
    BY <2>8, SomeWorker DEF PostAll, PostTimes, TypeOK, MainPCs, PostsInRange
  <2> QED
    BY <2>1, <2>2, <2>3, <2>4, <2>5, <2>6, <2>7, <2>8
<1>2. StartIsQuiet'
  BY DEF StartIsQuiet, StartPCs, FillNext, FillPush, Accept, AcceptError, PopFree, TakeFree,
         Prepare, PrepareWith, PushTaken, PostAll, PostTimes
<1>3. PostsInRange'
  <2>1. CASE PostAll
    BY <2>1, SomeWorker DEF PostAll, PostTimes, TypeOK, PostsInRange, StopPCs
  <2>2. CASE ~PostAll
    BY <2>2 DEF PostsInRange, StopPCs, FillNext, FillPush, Accept, AcceptError, PopFree,
                TakeFree, Prepare, PrepareWith, PushTaken
  <2> QED
    BY <2>1, <2>2
<1>4. HolderHasRequest'
  <2>1. workerPC' = workerPC /\ job' = job
    BY DEF FillNext, FillPush, Accept, AcceptError, PopFree, TakeFree, Prepare, PrepareWith,
           PushTaken, PostAll, PostTimes
  <2>2. MainHolding' => mainReq' \in Requests
    <3>1. CASE PopFree
      BY <3>1, PoppedQueue DEF PopFree, TakeFree, TypeOK
    <3>2. CASE ~PopFree
      BY <3>2 DEF HolderHasRequest, MainHolding, FillNext, FillPush, Accept, AcceptError,
                  Prepare, PrepareWith, PushTaken, PostAll, PostTimes
    <3> QED
      BY <3>1, <3>2
  <2> QED
    BY <2>1, <2>2 DEF HolderHasRequest, Holding
<1> QED
  BY <1>1, <1>2, <1>3, <1>4

\* The steps of a worker.
LEMMA WorkerControl ==
  ASSUME Control, NEW w \in Workers, request_workers(w)
  PROVE  Control'
<1> USE DEF Control, mainVars
<1>1. TypeOK'
  <2>1. CASE WorkerMask(w)
    BY <2>1 DEF WorkerMask, TypeOK, WorkerPCs
  <2>2. CASE SemWait(w)
    BY <2>2 DEF SemWait, TypeOK, WorkerPCs
  <2>3. CASE WorkerTest(w)
    BY <2>3 DEF WorkerTest, TypeOK, WorkerPCs
  <2>4. CASE PopJob(w)
    <3>1. /\ Head(taken) \in Requests /\ Tail(taken) \in Seq(Requests)
          /\ Len(Tail(taken)) <= PoolSize
      BY <2>4, PoppedQueue, PoolSizeType DEF PopJob, TypeOK
    <3> QED
      BY <2>4, <3>1 DEF PopJob, TypeOK, WorkerPCs
  <2>5. CASE HandleFinished(w)
    BY <2>5 DEF HandleFinished, CloseConnection, TypeOK, WorkerPCs
  <2>6. CASE PushFree(w)
    BY <2>6, PushedQueue, PoolSizeType
       DEF PushFree, TypeOK, WorkerPCs, HolderHasRequest, Holding
  <2>7. CASE HandleAgain(w)
    <3>1. sem' \in Nat
      BY <2>7 DEF HandleAgain, TypeOK
    <3>2. parser' \in [Requests -> {"unset", "fresh", "partial", "finished"}]
      BY <2>7 DEF HandleAgain, TypeOK
    <3> QED
      BY <2>7, <3>1, <3>2 DEF HandleAgain, TypeOK, WorkerPCs
  <2>8. CASE PushBack(w)
    BY <2>8, PushedQueue, PoolSizeType
       DEF PushBack, TypeOK, WorkerPCs, HolderHasRequest, Holding
  <2> QED
    BY <2>1, <2>2, <2>3, <2>4, <2>5, <2>6, <2>7, <2>8 DEF request_workers
<1>2. StartIsQuiet' /\ PostsInRange'
  <2>1. mainPC \notin StartPCs
    BY DEF StartIsQuiet, StartPCs, request_workers, WorkerMask, SemWait, WorkerTest, PopJob,
           HandleFinished, CloseConnection, PushFree, HandleAgain, PushBack
  <2>2. mainPC' = mainPC /\ posts' = posts /\ term' = term
    BY DEF request_workers, WorkerMask, SemWait, WorkerTest, PopJob,
           HandleFinished, CloseConnection, PushFree, HandleAgain, PushBack
  <2> QED
    BY <2>1, <2>2 DEF StartIsQuiet, PostsInRange
<1>3. HolderHasRequest'
  <2>1. CASE PopJob(w)
    BY <2>1, PoppedQueue DEF PopJob, TypeOK, HolderHasRequest, Holding, MainHolding
  <2>2. CASE ~PopJob(w)
    BY <2>2 DEF TypeOK, HolderHasRequest, Holding, MainHolding, request_workers, WorkerMask,
           SemWait, WorkerTest, HandleFinished, CloseConnection, PushFree, HandleAgain, PushBack
  <2> QED
    BY <2>1, <2>2
<1> QED
  BY <1>1, <1>2, <1>3

\* Doing nothing.
LEMMA StutterControl == ASSUME Control, UNCHANGED vars PROVE Control'
  BY DEF vars, mainVars, workerVars, Control, TypeOK, StartIsQuiet, PostsInRange,
         HolderHasRequest, MainHolding, Holding

\* Every step keeps the types and main's place in the program meaningful.
LEMMA NextControl == Control /\ [Next]_vars => Control'
  BY OutsideControl, GotoControl, MainControl, WorkerControl, StutterControl
     DEF Next, MainStep, GotoStep

\* Every variable of httpserver.c keeps its type: in particular neither queue
\* is ever filled beyond its slots, and main posts once per worker at most.
THEOREM ServerTypes == Spec => []TypeOK
<1>1. Control => TypeOK
  BY DEF Control
<1> QED
  BY <1>1, InitControl, NextControl, PTL DEF Spec

-----------------------------------------------------------------------------
(***************************************************************************)
(* Ownership: a Request moves from a queue to a thread by a pop and from a *)
(* thread to a queue by a push, and no other step moves one.               *)
(***************************************************************************)

\* A step that moves no Request, except that a thread may drop one.
LEMMA OwnershipKept ==
  ASSUME ExclusiveOwnership, UNCHANGED <<free, taken>>,
         \A w \in Workers : Holding(w)' => Holding(w) /\ job'[w] = job[w],
         MainHolding' => MainHolding /\ mainReq' = mainReq
  PROVE  ExclusiveOwnership'
  BY DEF ExclusiveOwnership

\* Steps that move no Request at all.
LEMMA GotoOwnership ==
  ASSUME Control, ExclusiveOwnership,
         \/ Arrive \/ SendSignal \/ sigterm_handler \/ GotoStep \/ UNCHANGED vars
         \/ Accept \/ AcceptError \/ Prepare \/ PostAll
  PROVE  ExclusiveOwnership'
<1>1. workerPC' = workerPC /\ job' = job /\ mainReq' = mainReq /\ UNCHANGED <<free, taken>>
  BY GotoEffect DEF Control, Arrive, SendSignal, sigterm_handler, Accept, AcceptError, Prepare,
     PrepareWith, PostAll, PostTimes, vars, mainVars, workerVars
<1>2. MainHolding' => MainHolding
  BY GotoEffect DEF Control, Arrive, SendSignal, sigterm_handler, Accept, AcceptError, Prepare,
     PrepareWith, PostAll, PostTimes, vars, mainVars, MainHolding
<1> QED
  BY <1>1, <1>2, OwnershipKept DEF Holding

\* Main moves Requests: into the pool at start, out of it for a connection,
\* onto the queue of taken ones.
LEMMA MainOwnership ==
  ASSUME Control, ExclusiveOwnership, FillNext \/ FillPush \/ PopFree \/ PushTaken
  PROVE  ExclusiveOwnership'
<1>0. free \in Seq(Requests) /\ taken \in Seq(Requests)
  BY DEF Control, TypeOK
<1>1. workerPC' = workerPC /\ job' = job
  BY DEF FillNext, FillPush, PopFree, TakeFree, PushTaken, workerVars
<1>2. \A w \in Workers : Holding(w)' <=> Holding(w)
  BY <1>1 DEF Holding
<1>3. CASE FillNext
  <2>1. /\ Range(taken) = {} /\ \A w \in Workers : ~Holding(w)
        /\ mainReq' \in Requests \ Range(free)
        /\ UNCHANGED <<free, taken>>
    BY <1>3, EmptyQueue DEF Control, StartIsQuiet, StartPCs, FillNext, Holding
  <2> QED
    BY <1>1, <1>2, <2>1 DEF ExclusiveOwnership
<1>4. CASE FillPush
  <2>1. mainReq \in Requests /\ mainReq \notin Range(free) \cup Range(taken)
    BY <1>4 DEF FillPush, ExclusiveOwnership, MainHolding
  <2>2. Range(free') = Range(free) \cup {mainReq} /\ Distinct(free')
    BY <1>0, <1>4, <2>1, PushedQueue DEF FillPush, ExclusiveOwnership
  <2>3. ~MainHolding' /\ taken' = taken /\ MainHolding
    BY <1>4 DEF FillPush, MainHolding
  <2> QED
    BY <1>1, <1>2, <2>1, <2>2, <2>3 DEF ExclusiveOwnership
<1>5. CASE PopFree
  <2>1. /\ mainReq' = Head(free) /\ Head(free) \in Requests
        /\ Range(free) = Range(free') \cup {Head(free)}
        /\ Distinct(free') /\ Head(free) \notin Range(free')
    BY <1>0, <1>5, PoppedQueue DEF PopFree, TakeFree, ExclusiveOwnership
  <2>2. taken' = taken
    BY <1>5 DEF PopFree, TakeFree
  <2> QED
    BY <1>1, <1>2, <2>1, <2>2 DEF ExclusiveOwnership
<1>6. CASE PushTaken
  <2>1. mainReq \in Requests /\ mainReq \notin Range(free) \cup Range(taken)
    BY <1>6 DEF PushTaken, ExclusiveOwnership, MainHolding
  <2>2. Range(taken') = Range(taken) \cup {mainReq} /\ Distinct(taken')
    BY <1>0, <1>6, <2>1, PushedQueue DEF PushTaken, ExclusiveOwnership
  <2>3. ~MainHolding' /\ free' = free /\ MainHolding
    BY <1>6 DEF PushTaken, MainHolding
  <2> QED
    BY <1>1, <1>2, <2>1, <2>2, <2>3 DEF ExclusiveOwnership
<1> QED
  BY <1>3, <1>4, <1>5, <1>6

\* A worker moves Requests: off the queue of taken ones, back onto it, or
\* into the pool.
LEMMA WorkerOwnership ==
  ASSUME Control, ExclusiveOwnership, NEW w \in Workers, request_workers(w)
  PROVE  ExclusiveOwnership'
<1>0. free \in Seq(Requests) /\ taken \in Seq(Requests)
  BY DEF Control, TypeOK
<1>1. mainReq' = mainReq /\ (MainHolding' <=> MainHolding)
  BY DEF request_workers, WorkerMask, SemWait, WorkerTest, PopJob, HandleFinished,
         CloseConnection, PushFree, HandleAgain, PushBack, MainHolding, mainVars
<1>2. \A v \in Workers \ {w} : job'[v] = job[v] /\ (Holding(v)' <=> Holding(v))
  BY DEF Control, TypeOK, request_workers, WorkerMask, SemWait, WorkerTest, PopJob,
         HandleFinished, CloseConnection, PushFree, HandleAgain, PushBack, Holding
<1>3. CASE WorkerMask(w) \/ SemWait(w) \/ WorkerTest(w) \/ HandleFinished(w) \/ HandleAgain(w)
  <2>1. UNCHANGED <<free, taken>> /\ job' = job /\ (Holding(w)' => Holding(w))
    BY <1>3 DEF Control, TypeOK, WorkerMask, SemWait, WorkerTest, HandleFinished,
                CloseConnection, HandleAgain, Holding
  <2> QED
    BY <1>1, <1>2, <2>1, OwnershipKept
<1>4. CASE PopJob(w)
  <2>1. /\ job'[w] = Head(taken) /\ Head(taken) \in Requests
        /\ Range(taken) = Range(taken') \cup {Head(taken)}
        /\ Distinct(taken') /\ Head(taken) \notin Range(taken')
    BY <1>0, <1>4, PoppedQueue DEF Control, TypeOK, PopJob, ExclusiveOwnership
  <2>2. free' = free
    BY <1>4 DEF PopJob
  <2> QED
    BY <1>1, <1>2, <2>1, <2>2 DEF ExclusiveOwnership
<1>5. CASE PushFree(w)
  <2>1. Holding(w) /\ ~Holding(w)' /\ taken' = taken
    BY <1>5 DEF Control, TypeOK, PushFree, Holding
  <2>2. job[w] \in Requests /\ job[w] \notin Range(free) \cup Range(taken)
    BY <2>1 DEF ExclusiveOwnership
  <2>3. Range(free') = Range(free) \cup {job[w]} /\ Distinct(free')
    BY <1>0, <1>5, <2>2, PushedQueue DEF PushFree, ExclusiveOwnership
  <2> QED
    BY <1>1, <1>2, <2>1, <2>2, <2>3 DEF ExclusiveOwnership
<1>6. CASE PushBack(w)
  <2>1. Holding(w) /\ ~Holding(w)' /\ free' = free
    BY <1>6 DEF Control, TypeOK, PushBack, Holding
  <2>2. job[w] \in Requests /\ job[w] \notin Range(free) \cup Range(taken)
    BY <2>1 DEF ExclusiveOwnership
  <2>3. Range(taken') = Range(taken) \cup {job[w]} /\ Distinct(taken')
    BY <1>0, <1>6, <2>2, PushedQueue DEF PushBack, ExclusiveOwnership
  <2> QED
    BY <1>1, <1>2, <2>1, <2>2, <2>3 DEF ExclusiveOwnership
<1> QED
  BY <1>3, <1>4, <1>5, <1>6 DEF request_workers

-----------------------------------------------------------------------------
(***************************************************************************)
(* Connections: a descriptor enters Live with the Request main fills in    *)
(* and leaves it with the Request whose connection is closed.              *)
(***************************************************************************)
Accepted == mainPC \in {"test", "freepop", "check", "prepare"}

\* Live, element by element.
LEMMA LiveElements ==
  ASSUME NEW r
  PROVE  r \in Live <=> \/ r \in Range(taken)
                        \/ \E w \in Workers : /\ workerPC[w] \in {"handle", "pushback"}
                                              /\ job[w] = r
                        \/ mainPC = "push" /\ r = mainReq
  BY DEF Live, WorkersAt

\* Live Requests are Requests.
LEMMA LiveAreRequests == ASSUME Control PROVE Live \subseteq Requests
<1>1. Range(taken) \subseteq Requests
  BY RangeOfSeq DEF Control, TypeOK
<1> QED
  BY <1>1, LiveElements DEF Control, HolderHasRequest, MainHolding, Holding

\* A step that brings in no connection and closes none that is live.
LEMMA ConnectionsKept ==
  ASSUME LiveJobsHaveConnections, Live' \subseteq Live,
         \A r \in Live' : /\ fd'[r] = fd[r] /\ fd[r] \in open'
                          /\ parser'[r] \in {"fresh", "partial"},
         Accepted' => Accepted /\ mainFd' = mainFd /\ mainFd \in open'
  PROVE  LiveJobsHaveConnections'
  BY DEF LiveJobsHaveConnections, AcceptedIsFresh, Accepted

\* Steps that leave jobs, descriptors and parser states alone.
LEMMA QuietConnections ==
  ASSUME Control, LiveJobsHaveConnections,
         \/ Arrive \/ SendSignal \/ sigterm_handler \/ GotoStep \/ UNCHANGED vars
         \/ FillNext \/ FillPush \/ AcceptError \/ PopFree \/ PostAll
  PROVE  LiveJobsHaveConnections'
<1>1. UNCHANGED <<taken, open, fd, parser, mainFd, workerPC, job>>
  BY GotoEffect DEF Control, Arrive, SendSignal, sigterm_handler, FillNext, FillPush,
     AcceptError, PopFree, TakeFree, PostAll, PostTimes, vars, mainVars, workerVars
<1>2. /\ mainPC' = "push" => mainPC = "push" /\ mainReq' = mainReq
      /\ Accepted' => Accepted
  BY GotoEffect DEF Control, Arrive, SendSignal, sigterm_handler, FillNext, FillPush,
     AcceptError, PopFree, TakeFree, PostAll, PostTimes, vars, mainVars, Accepted
<1>3. Live' \subseteq Live
  BY <1>1, <1>2 DEF Live, WorkersAt
<1> QED
  BY <1>1, <1>2, <1>3, ConnectionsKept DEF LiveJobsHaveConnections, AcceptedIsFresh, Accepted

\* accept returns a descriptor that nobody has; Prepare gives it, with a new
\* parser state, to a Request that is not live; the push changes neither.
LEMMA MainConnections ==
  ASSUME Control, ExclusiveOwnership, LiveJobsHaveConnections, Accept \/ Prepare \/ PushTaken
  PROVE  LiveJobsHaveConnections'
<1>0. Live \subseteq Requests /\ fd \in [Requests -> Fds \cup {NoFd}]
      /\ parser \in [Requests -> {"unset", "fresh", "partial", "finished"}]
  BY LiveAreRequests DEF Control, TypeOK
<1>1. CASE Accept
  <2>1. Live' = Live /\ UNCHANGED <<fd, parser>> /\ mainPC' = "test"
    BY <1>1 DEF Accept, workerVars, Live, WorkersAt
  <2>2. mainFd' \in open' /\ mainFd' \notin open /\ open \subseteq open'
    BY <1>1 DEF Accept
  <2> QED
    BY <2>1, <2>2 DEF LiveJobsHaveConnections, AcceptedIsFresh
<1>2. CASE Prepare
  <2>1. /\ mainReq \in Requests
        /\ fd' = [fd EXCEPT ![mainReq] = mainFd]
        /\ parser' = [parser EXCEPT ![mainReq] = "fresh"]
        /\ UNCHANGED <<taken, open, workerPC, job, mainReq, mainFd>>
        /\ mainPC = "prepare" /\ mainPC' = "push"
    BY <1>2 DEF Prepare, PrepareWith, workerVars, ExclusiveOwnership, MainHolding
  <2>2. mainReq \notin Live
    BY <2>1, LiveElements DEF ExclusiveOwnership, MainHolding, Holding
  <2>3. Live' = Live \cup {mainReq}
    BY <2>1 DEF Live, WorkersAt
  <2>4. mainFd \in open /\ \A r \in Live : fd[r] # mainFd
    BY <2>1 DEF LiveJobsHaveConnections, AcceptedIsFresh
  <2>5. /\ fd'[mainReq] = mainFd /\ parser'[mainReq] = "fresh"
        /\ \A r \in Live : fd'[r] = fd[r] /\ parser'[r] = parser[r]
    BY <1>0, <2>1, <2>2
  <2>6. ~Accepted'
    BY <2>1 DEF Accepted
  <2> QED
    BY <2>1, <2>3, <2>4, <2>5, <2>6 DEF LiveJobsHaveConnections, AcceptedIsFresh, Accepted
<1>3. CASE PushTaken
  <2>1. Range(taken') = Range(taken) \cup {mainReq}
    BY <1>3, PushedQueue DEF Control, TypeOK, HolderHasRequest, MainHolding, PushTaken
  <2>2. /\ UNCHANGED <<open, fd, parser, workerPC, job>>
        /\ mainPC = "push" /\ mainPC' = "top"
    BY <1>3 DEF PushTaken, workerVars
  <2>3. Live' = Live
    BY <2>1, <2>2 DEF Live, WorkersAt
  <2> QED
    BY <2>2, <2>3, ConnectionsKept DEF LiveJobsHaveConnections, Accepted
<1> QED
  BY <1>1, <1>2, <1>3

\* A worker keeps a connection to itself until it closes it, and the Request
\* it closes is not live afterwards.
LEMMA WorkerConnections ==
  ASSUME Control, ExclusiveOwnership, LiveJobsHaveConnections,
         NEW w \in Workers, request_workers(w)
  PROVE  LiveJobsHaveConnections'
<1>0. /\ Live \subseteq Requests
      /\ fd \in [Requests -> Fds \cup {NoFd}]
      /\ parser \in [Requests -> {"unset", "fresh", "partial", "finished"}]
      /\ workerPC \in [Workers -> WorkerPCs] /\ job \in [Workers -> Requests \cup {NoReq}]
      /\ taken \in Seq(Requests)
  BY LiveAreRequests DEF Control, TypeOK
<1>1. mainPC' = mainPC /\ mainReq' = mainReq /\ mainFd' = mainFd /\ (Accepted' <=> Accepted)
  BY DEF request_workers, WorkerMask, SemWait, WorkerTest, PopJob, HandleFinished,
         CloseConnection, PushFree, HandleAgain, PushBack, mainVars, Accepted
<1>2. Accepted => mainFd \in open
  BY DEF LiveJobsHaveConnections, AcceptedIsFresh, Accepted
<1>3. CASE WorkerMask(w) \/ SemWait(w) \/ WorkerTest(w) \/ PushFree(w)
  <2>1. UNCHANGED <<taken, open, fd, parser, job>>
    BY <1>3 DEF WorkerMask, SemWait, WorkerTest, PushFree
  <2>2. \A v \in Workers : workerPC'[v] \in {"handle", "pushback"} => workerPC'[v] = workerPC[v]
    BY <1>0, <1>3 DEF WorkerMask, SemWait, WorkerTest, PushFree
  <2>3. Live' \subseteq Live
    BY <1>1, <2>1, <2>2 DEF Live, WorkersAt
  <2> QED
    BY <1>1, <1>2, <2>1, <2>3, ConnectionsKept DEF LiveJobsHaveConnections
<1>4. CASE PopJob(w)
  <2>1. UNCHANGED <<open, fd, parser>>
    BY <1>4 DEF PopJob
  <2>2. Head(taken) \in Range(taken) /\ Range(taken') \subseteq Range(taken)
    BY <1>0, <1>4, PoppedQueue DEF PopJob
  <2>3. /\ job'[w] = Head(taken)
        /\ \A v \in Workers \ {w} : workerPC'[v] = workerPC[v] /\ job'[v] = job[v]
    BY <1>0, <1>4 DEF PopJob
  <2>4. \A r \in Live' : r \in Live
    BY <1>1, <2>2, <2>3 DEF Live, WorkersAt
  <2> QED
    BY <1>1, <1>2, <2>1, <2>4, ConnectionsKept DEF LiveJobsHaveConnections
<1>5. CASE HandleFinished(w)
  <2>1. /\ workerPC[w] = "handle"
        /\ parser' = [parser EXCEPT ![job[w]] = "finished"]
        /\ open' = open \ {fd[job[w]]}
        /\ fd' = [fd EXCEPT ![job[w]] = NoFd]
        /\ workerPC' = [workerPC EXCEPT ![w] = "pushfree"]
        /\ UNCHANGED <<taken, job>>
    BY <1>5 DEF HandleFinished, CloseConnection
  <2>2. job[w] \in Live /\ job[w] \in Requests
    BY <1>0, <2>1, LiveElements
  <2>3. \A r \in Live' : r \in Live /\ r # job[w]
    <3>1. \A v \in Workers : workerPC'[v] \in {"handle", "pushback"} =>
                               workerPC[v] \in {"handle", "pushback"} /\ v # w
      BY <1>0, <2>1
    <3>2. Holding(w) /\ \A v \in Workers : workerPC'[v] \in {"handle", "pushback"} => Holding(v)
      BY <2>1, <3>1 DEF Holding
    <3>3. \A r \in Live' :
            \/ r \in Range(taken)
            \/ \E v \in Workers : workerPC'[v] \in {"handle", "pushback"} /\ job[v] = r
            \/ mainPC = "push" /\ r = mainReq
      BY <1>1, <2>1 DEF Live, WorkersAt
    <3>4. job[w] \notin Range(taken) /\ (mainPC = "push" => mainReq # job[w])
      BY <3>2 DEF ExclusiveOwnership, MainHolding
    <3>5. \A v \in Workers : workerPC'[v] \in {"handle", "pushback"} => job[v] # job[w]
      BY <3>1, <3>2 DEF ExclusiveOwnership
    <3> QED
      BY <3>1, <3>3, <3>4, <3>5, LiveElements
  <2>4. \A r \in Live' : fd'[r] = fd[r] /\ parser'[r] = parser[r] /\ fd[r] # fd[job[w]]
    BY <1>0, <2>1, <2>2, <2>3 DEF LiveJobsHaveConnections
  <2>5. Accepted => mainFd # fd[job[w]]
    BY <2>2 DEF LiveJobsHaveConnections, AcceptedIsFresh, Accepted
  <2> QED
    BY <1>1, <1>2, <2>1, <2>3, <2>4, <2>5, ConnectionsKept DEF LiveJobsHaveConnections
<1>6. CASE HandleAgain(w)
  <2>1. /\ workerPC[w] = "handle"
        /\ parser' = [parser EXCEPT ![job[w]] = "partial"]
        /\ workerPC' = [workerPC EXCEPT ![w] = "pushback"]
        /\ UNCHANGED <<taken, open, fd, job>>
    BY <1>6 DEF HandleAgain
  <2>2. Live' = Live
    BY <1>0, <1>1, <2>1 DEF Live, WorkersAt
  <2>3. \A r \in Live : parser'[r] \in {"fresh", "partial"}
    BY <1>0, <2>1 DEF LiveJobsHaveConnections
  <2> QED
    BY <1>1, <1>2, <2>1, <2>2, <2>3, ConnectionsKept DEF LiveJobsHaveConnections
<1>7. CASE PushBack(w)
  <2>1. /\ workerPC[w] = "pushback"
        /\ taken' = Append(taken, job[w])
        /\ workerPC' = [workerPC EXCEPT ![w] = "semwait"]
        /\ UNCHANGED <<open, fd, parser, job>>
    BY <1>7 DEF PushBack
  <2>2. Range(taken') = Range(taken) \cup {job[w]}
    BY <1>0, <2>1, PushedQueue DEF Control, HolderHasRequest, Holding
  <2>3. \A r \in Live' : r \in Live
    BY <1>0, <1>1, <2>1, <2>2 DEF Live, WorkersAt
  <2> QED
    BY <1>1, <1>2, <2>1, <2>3, ConnectionsKept DEF LiveJobsHaveConnections
<1> QED
  BY <1>3, <1>4, <1>5, <1>6, <1>7 DEF request_workers

-----------------------------------------------------------------------------
(***************************************************************************)
(* No Request is lost: the one place where the code could drop one, the    *)
(* job without a connection, is unreachable because live Requests have     *)
(* connections.                                                            *)
(***************************************************************************)
Placed(r) ==
  \/ r \in Range(free) \cup Range(taken)
  \/ MainHolding /\ mainReq = r
  \/ \E w \in Workers : Holding(w) /\ job[w] = r

\* A worker never pops a job without a connection.
LEMMA PoppedJobHasConnection ==
  ASSUME Control, LiveJobsHaveConnections, NEW w \in Workers, PopJob(w)
  PROVE  fd[Head(taken)] # NoFd
<1>1. Head(taken) \in Live
  BY PoppedQueue, LiveElements DEF Control, TypeOK, PopJob
<1> QED
  BY <1>1, FdsAssumption DEF LiveJobsHaveConnections, Control, TypeOK

\* What a worker does leaves every Request in some place.
LEMMA WorkerPlaces ==
  ASSUME Control, LiveJobsHaveConnections, NEW w \in Workers, request_workers(w),
         NEW r \in Requests, Placed(r)
  PROVE  Placed(r)'
<1>0. /\ workerPC \in [Workers -> WorkerPCs] /\ job \in [Workers -> Requests \cup {NoReq}]
      /\ free \in Seq(Requests) /\ taken \in Seq(Requests)
  BY DEF Control, TypeOK
<1>1. mainReq' = mainReq /\ (MainHolding' <=> MainHolding)
  BY DEF request_workers, WorkerMask, SemWait, WorkerTest, PopJob, HandleFinished,
         CloseConnection, PushFree, HandleAgain, PushBack, MainHolding, mainVars
<1>2. \A v \in Workers \ {w} : job'[v] = job[v] /\ (Holding(v)' <=> Holding(v))
  BY DEF Control, TypeOK, request_workers, WorkerMask, SemWait, WorkerTest, PopJob,
         HandleFinished, CloseConnection, PushFree, HandleAgain, PushBack, Holding
<1>3. CASE WorkerMask(w) \/ SemWait(w) \/ WorkerTest(w) \/ HandleFinished(w) \/ HandleAgain(w)
  <2>1. UNCHANGED <<free, taken>> /\ job' = job /\ (Holding(w) => Holding(w)')
    BY <1>0, <1>3 DEF WorkerMask, SemWait, WorkerTest, HandleFinished, CloseConnection,
                      HandleAgain, Holding
  <2> QED
    BY <1>1, <1>2, <2>1 DEF Placed
<1>4. CASE PopJob(w)
  <2>1. job'[w] = Head(taken) /\ Range(taken) = Range(taken') \cup {Head(taken)} /\ free' = free
    BY <1>0, <1>4, PoppedQueue DEF PopJob
  <2>2. ~Holding(w) /\ Holding(w)'
    BY <1>0, <1>4, PoppedJobHasConnection DEF PopJob, Holding
  <2> QED
    BY <1>1, <1>2, <2>1, <2>2 DEF Placed
<1>5. CASE PushFree(w)
  <2>1. Range(free') = Range(free) \cup {job[w]} /\ taken' = taken
    BY <1>0, <1>5, PushedQueue DEF PushFree, Control, HolderHasRequest, Holding
  <2> QED
    BY <1>1, <1>2, <2>1 DEF Placed
<1>6. CASE PushBack(w)
  <2>1. Range(taken') = Range(taken) \cup {job[w]} /\ free' = free
    BY <1>0, <1>6, PushedQueue DEF PushBack, Control, HolderHasRequest, Holding
  <2> QED
    BY <1>1, <1>2, <2>1 DEF Placed
<1> QED
  BY <1>3, <1>4, <1>5, <1>6 DEF request_workers

\* So does what main does between start-up and shutdown.
LEMMA MainPlaces ==
  ASSUME Control, PopFree \/ PushTaken, NEW r \in Requests, Placed(r)
  PROVE  Placed(r)'
<1>0. free \in Seq(Requests) /\ taken \in Seq(Requests)
  BY DEF Control, TypeOK
<1>1. job' = job /\ \A w \in Workers : Holding(w)' <=> Holding(w)
  BY DEF PopFree, TakeFree, PushTaken, workerVars, Holding
<1>2. CASE PopFree
  <2>1. /\ mainReq' = Head(free) /\ Range(free) = Range(free') \cup {Head(free)}
        /\ taken' = taken /\ ~MainHolding /\ MainHolding'
    BY <1>0, <1>2, PoppedQueue DEF PopFree, TakeFree, MainHolding
  <2> QED
    BY <1>1, <2>1 DEF Placed
<1>3. CASE PushTaken
  <2>1. Range(taken') = Range(taken) \cup {mainReq} /\ free' = free
    BY <1>0, <1>3, PushedQueue DEF PushTaken, Control, HolderHasRequest, MainHolding
  <2> QED
    BY <1>1, <2>1 DEF Placed
<1> QED
  BY <1>2, <1>3

\* A step of the accept loop that moves no Request keeps main's hands as full.
LEMMA QuietPlaces ==
  ASSUME Control, mainPC \notin StartPCs \cup StopPCs, mainPC' \notin StartPCs \cup StopPCs,
         \/ Arrive \/ SendSignal \/ sigterm_handler \/ GotoStep \/ UNCHANGED vars
         \/ Accept \/ AcceptError \/ Prepare,
         NEW r \in Requests, Placed(r)
  PROVE  Placed(r)'
<1>1. UNCHANGED <<free, taken, mainReq, workerPC, job>>
  BY GotoEffect DEF Control, Arrive, SendSignal, sigterm_handler, Accept, AcceptError, Prepare,
     PrepareWith, vars, mainVars, workerVars
<1>2. MainHolding => MainHolding'
  <2>1. CASE GotoStep
    <3>1. CASE TermCheck
      BY <3>1 DEF TermCheck, MainGoto, MainHolding, StopPCs
    <3>2. CASE ~TermCheck
      BY <2>1, <3>2 DEF GotoStep, ParsePort, create_listen_socket, ParseOptions, StartUp, Start,
         LoopTest, BlockSignals, PollTimeout, PollReady, PollError, TermTest, Join, MainGoto,
         MainHolding
    <3> QED
      BY <3>1, <3>2
  <2>2. CASE ~GotoStep
    BY <2>2 DEF Arrive, SendSignal, sigterm_handler, Accept, AcceptError, Prepare,
       PrepareWith, vars, mainVars, MainHolding
  <2> QED
    BY <2>1, <2>2
<1> QED
  BY <1>1, <1>2 DEF Placed, Holding

\* No step of the server, from the end of the start-up to the shutdown, loses a
\* Request.
LEMMA NoRequestLostStep ==
  ASSUME Control, LiveJobsHaveConnections, NoRequestLost, [Next]_vars
  PROVE  NoRequestLost'
<1> SUFFICES ASSUME mainPC' \notin StartPCs \cup StopPCs,
                    NEW r \in Requests
             PROVE  Placed(r)'
  BY DEF NoRequestLost, Placed
<1>1. CASE GotoStep
  <2>1. free' = free /\ mainPC \notin StopPCs
    BY <1>1, GotoEffect DEF Control
  <2>2. CASE mainPC \in StartPCs
    BY <1>1, <2>1, <2>2, GotoEffect DEF Control, Placed
  <2>3. CASE mainPC \notin StartPCs
    BY <1>1, <2>1, <2>3, QuietPlaces DEF NoRequestLost, Placed
  <2> QED
    BY <2>2, <2>3
<1>2. CASE ~GotoStep
  <2>1. mainPC \notin StartPCs \cup StopPCs
    BY <1>2 DEF Next, MainStep, GotoStep, StartPCs, StopPCs, vars, mainVars, Arrive, SendSignal,
       sigterm_handler, FillNext, FillPush, Accept, AcceptError, PopFree, TakeFree, Prepare,
       PrepareWith, PushTaken, PostAll, PostTimes, request_workers, WorkerMask, SemWait,
       WorkerTest, PopJob, HandleFinished, CloseConnection, PushFree, HandleAgain, PushBack
  <2>2. Placed(r)
    BY <2>1 DEF NoRequestLost, Placed
  <2>3. ~FillNext /\ ~FillPush /\ ~PostAll
    BY <2>1 DEF FillNext, FillPush, PostAll, PostTimes, StartPCs, StopPCs
  <2> QED
    BY <1>2, <2>1, <2>2, <2>3, QuietPlaces, MainPlaces, WorkerPlaces DEF Next, MainStep, GotoStep
<1> QED
  BY <1>1, <1>2

-----------------------------------------------------------------------------
(***************************************************************************)
(* The invariant of the pool.                                              *)
(***************************************************************************)
PoolInv == Control /\ ExclusiveOwnership /\ LiveJobsHaveConnections /\ NoRequestLost

\* Before the pool is filled nobody holds anything.
LEMMA InitPool == Init => PoolInv
<1> SUFFICES ASSUME Init PROVE PoolInv
  OBVIOUS
<1>1. ExclusiveOwnership
  BY EmptyQueue DEF Init, ExclusiveOwnership, Holding, MainHolding
<1>2. LiveJobsHaveConnections
  <2>1. Live = {}
    BY EmptyQueue DEF Init, Live, WorkersAt
  <2> QED
    BY <2>1 DEF Init, LiveJobsHaveConnections, AcceptedIsFresh
<1>3. NoRequestLost
  BY DEF Init, NoRequestLost, StartPCs
<1> QED
  BY <1>1, <1>2, <1>3, InitControl DEF PoolInv

\* Every step keeps the invariant of the pool.
LEMMA NextPool == PoolInv /\ [Next]_vars => PoolInv'
<1> SUFFICES ASSUME PoolInv, [Next]_vars PROVE PoolInv'
  OBVIOUS
<1>1. Control'
  BY NextControl DEF PoolInv
<1>2. ExclusiveOwnership'
  BY GotoOwnership, MainOwnership, WorkerOwnership DEF PoolInv, Next, MainStep, GotoStep
<1>3. LiveJobsHaveConnections'
  BY QuietConnections, MainConnections, WorkerConnections DEF PoolInv, Next, MainStep, GotoStep
<1>4. NoRequestLost'
  BY NoRequestLostStep DEF PoolInv
<1> QED
  BY <1>1, <1>2, <1>3, <1>4 DEF PoolInv

\* No field of a Request is ever used by two threads at once: a Request is on
\* one queue, once, or in the hands of one thread.
THEOREM RequestsHaveOneOwner == Spec => []ExclusiveOwnership
<1>1. PoolInv => ExclusiveOwnership
  BY DEF PoolInv
<1> QED
  BY <1>1, InitPool, NextPool, PTL DEF Spec

\* The pool never shrinks while the server runs.
THEOREM RequestsAreKept == Spec => []NoRequestLost
<1>1. PoolInv => NoRequestLost
  BY DEF PoolInv
<1> QED
  BY <1>1, InitPool, NextPool, PTL DEF Spec

\* No worker ever works on a closed descriptor, on one that the kernel has
\* meanwhile given to another connection, or with another client's bytes.
THEOREM ConnectionsAreExclusive == Spec => []LiveJobsHaveConnections
<1>1. PoolInv => LiveJobsHaveConnections
  BY DEF PoolInv
<1> QED
  BY <1>1, InitPool, NextPool, PTL DEF Spec
=============================================================================
