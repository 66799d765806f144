------------------------------ MODULE HttpServer ------------------------------
(***************************************************************************)
(* httpserver.c: one accepting thread and a pool of workers.               *)
(*                                                                         *)
(* A fixed pool of Request objects circulates: the main thread takes one   *)
(* from free_req_queue for every connection it accepts, fills it in and    *)
(* puts it on taken_req_queue; a worker takes it from there, runs          *)
(* handle_request, and either closes the connection and returns the object *)
(* to free_req_queue, or (the socket had nothing more to read or to write) *)
(* puts it back on taken_req_queue.  The semaphore q_size announces what   *)
(* is, or is about to be, on taken_req_queue; it is posted BEFORE the      *)
(* push.  A signal sets `term`; main then posts the semaphore once per     *)
(* worker and joins the workers.                                           *)
(*                                                                         *)
(* The two queues are the atomic ones of FifoQueue, which BoundedQueue     *)
(* implements.  A step here is the code between two accesses to what the   *)
(* threads share (queues, semaphore, term).  The fields of a Request are   *)
(* only used by the thread that holds it (ExclusiveOwnership), so they are *)
(* updated in the step of the neighbouring shared access.                  *)
(***************************************************************************)
EXTENDS Naturals, Sequences, FiniteSets, Functions

CONSTANTS
  Workers,      \* the worker threads (-t)
  Main,         \* the accepting thread
  Requests,     \* the objects of req_pool
  Fds,          \* descriptors the kernel may hand out for connections
  NoReq,        \* an unset Request pointer
  NoFd,         \* descriptor -1
  MaxBacklog,   \* bound: connections waiting to be accepted
  PollMayFail   \* whether poll may return -1

ASSUME WorkersAssumption == IsFiniteSet(Workers) /\ Workers # {} /\ Main \notin Workers
ASSUME RequestsAssumption == IsFiniteSet(Requests) /\ Requests # {} /\ NoReq \notin Requests
ASSUME FdsAssumption == NoFd \notin Fds
ASSUME BacklogAssumption == MaxBacklog \in Nat
ASSUME PollAssumption == PollMayFail \in BOOLEAN

VARIABLES
  free, taken,  \* the contents of free_req_queue and taken_req_queue
  sem,          \* the value of q_size
  term,         \* set by sigterm_handler
  sent,         \* a SIGINT or SIGTERM was sent to the process
  backlog,      \* connections waiting in the listening socket
  open,         \* the connection descriptors that are open
  fd,           \* fd[r]: Request.fd
  parser,       \* parser[r]: Request.s, "unset", "fresh", "partial" or "finished"
  mainPC,       \* where main is
  mainReq,      \* main's free_req
  mainFd,       \* main's filedes
  posts,        \* how many of the shutdown posts main has done
  workerPC,     \* where each worker is
  job           \* job[w]: the Request worker w popped last

mainVars == <<mainPC, mainReq, mainFd, posts>>
workerVars == <<workerPC, job>>
vars == <<free, taken, sem, term, sent, backlog, open, fd, parser, mainVars, workerVars>>

\* Both queues have a slot for every Request.
PoolSize == Cardinality(Requests)

\* Before the workers are created; "failed" is an exit with an error message.
StartPCs == {"args", "listen", "options", "fill", "fillpush", "failed"}
MainPCs == StartPCs \cup
           {"top", "mask", "poll", "accept", "test", "freepop", "check", "prepare", "push",
            "postall", "join", "done"}

WorkerPCs == {"start", "semwait", "termtest", "pop", "handle", "pushfree", "pushback", "exited"}

TypeOK ==
  /\ free \in Seq(Requests) /\ Len(free) <= PoolSize
  /\ taken \in Seq(Requests) /\ Len(taken) <= PoolSize
  /\ sem \in Nat
  /\ term \in BOOLEAN /\ sent \in BOOLEAN
  /\ backlog \in 0..MaxBacklog
  /\ open \subseteq Fds
  /\ fd \in [Requests -> Fds \cup {NoFd}]
  /\ parser \in [Requests -> {"unset", "fresh", "partial", "finished"}]
  /\ mainPC \in MainPCs
  /\ mainReq \in Requests \cup {NoReq}
  /\ mainFd \in Fds \cup {NoFd}
  /\ posts \in 0..Cardinality(Workers)
  /\ workerPC \in [Workers -> WorkerPCs]
  /\ job \in [Workers -> Requests \cup {NoReq}]

\* The queues and the semaphore are created empty; req_pool comes from malloc,
\* its descriptors (written before any worker reads them) count as unset.
Init ==
  /\ free = <<>> /\ taken = <<>>
  /\ sem = 0
  /\ term = FALSE /\ sent = FALSE
  /\ backlog = 0
  /\ open = {}
  /\ fd = [r \in Requests |-> NoFd]
  /\ parser = [r \in Requests |-> "unset"]
  /\ mainPC = "args"
  /\ mainReq = NoReq
  /\ mainFd = NoFd
  /\ posts = 0
  /\ workerPC = [w \in Workers |-> "start"]
  /\ job = [w \in Workers |-> NoReq]

-----------------------------------------------------------------------------
(***************************************************************************)
(* The world outside: clients and signals.                                 *)
(***************************************************************************)

\* The listening socket is there long before the first accept, and until the
\* process ends.
Listening == mainPC \notin {"args", "listen", "failed", "done"}

\* A client connects; the kernel completes the connection.
Arrive ==
  /\ Listening
  /\ backlog < MaxBacklog
  /\ backlog' = backlog + 1
  /\ UNCHANGED <<free, taken, sem, term, sent, open, fd, parser, mainVars, workerVars>>

\* SIGINT or SIGTERM, once the handlers are installed.  The handlers are
\* one-shot (SA_RESETHAND): a repeated signal kills the process.
SendSignal ==
  /\ ~sent /\ mainPC \notin StartPCs
  /\ sent' = TRUE
  /\ UNCHANGED <<free, taken, sem, term, backlog, open, fd, parser, mainVars, workerVars>>

\* sigterm_handler runs in a thread that does not block the signal: in main,
\* outside poll, or in a worker that has not come to its pthread_sigmask yet.
\* In main it interrupts an accept that is already waiting; one that has not
\* been entered yet, not.
sigterm_handler ==
  /\ sent /\ ~term
  /\ mainPC # "poll" \/ \E w \in Workers : workerPC[w] = "start"
  /\ term' = TRUE
  /\ mainPC' \in IF mainPC = "accept" THEN {"accept", "top"} ELSE {mainPC}
  /\ UNCHANGED <<free, taken, sem, sent, backlog, open, fd, parser, mainReq, mainFd, posts,
                 workerVars>>

-----------------------------------------------------------------------------
(***************************************************************************)
(* The main thread.                                                        *)
(***************************************************************************)

\* main moves on and touches nothing that is shared.
MainGoto(from, to) ==
  /\ mainPC = from
  /\ mainPC' = to
  /\ UNCHANGED <<free, taken, sem, sent, backlog, open, fd, parser, mainReq, mainFd, posts,
                 workerVars>>

\* A step of the start-up succeeds, or the process exits with a message.
StartUp(from, to) ==
  /\ MainGoto(from, to) \/ MainGoto(from, "failed")
  /\ UNCHANGED term

\* The last argument is the port: a number from 1 to 65535.
ParsePort == StartUp("args", "listen")

\* bind.c: socket, bind and listen.  The port is bound and clients may connect
\* before the options have been looked at.
create_listen_socket == StartUp("listen", "options")

\* getopt: -l and -t, or bad_usage.
ParseOptions == StartUp("options", "fill")

\* The loop that fills free_req_queue: the next object of req_pool ...
FillNext ==
  /\ mainPC = "fill"
  /\ \E r \in Requests \ Range(free) :
       /\ mainReq' = r
       /\ mainPC' = "fillpush"
  /\ UNCHANGED <<free, taken, sem, term, sent, backlog, open, fd, parser, mainFd, posts,
                 workerVars>>

\* ... is pushed.
FillPush ==
  /\ mainPC = "fillpush"
  /\ Len(free) < PoolSize
  /\ free' = Append(free, mainReq)
  /\ mainPC' = "fill"
  /\ UNCHANGED <<taken, sem, term, sent, backlog, open, fd, parser, mainReq, mainFd, posts,
                 workerVars>>

\* The pool is full: start the workers and install the signal handlers.
Start ==
  /\ Requests \subseteq Range(free)
  /\ MainGoto("fill", "top") /\ UNCHANGED term

\* while (!term)
LoopTest ==
  /\ MainGoto("top", IF term THEN "postall" ELSE "mask")
  /\ UNCHANGED term

\* pthread_sigmask(SIG_BLOCK): a signal that came in between is seen later.
BlockSignals == MainGoto("mask", "poll") /\ UNCHANGED term

\* A blocked signal is delivered by the call that unblocks it.
Unblock == term' = (term \/ sent)

\* poll times out after a second.
PollTimeout ==
  /\ backlog = 0
  /\ MainGoto("poll", "top")
  /\ Unblock

\* poll reports a connection, or fails: the code tells the two apart from a
\* timeout only, and goes on to accept.
PollReady ==
  /\ backlog > 0
  /\ MainGoto("poll", "accept")
  /\ Unblock

PollError ==
  /\ PollMayFail
  /\ MainGoto("poll", "accept")
  /\ Unblock

\* accept: a descriptor that is not in use.
Accept ==
  /\ mainPC = "accept"
  /\ backlog > 0
  /\ backlog' = backlog - 1
  /\ \E f \in Fds \ open : mainFd' = f /\ open' = open \cup {f}
  /\ mainPC' = "test"
  /\ UNCHANGED <<free, taken, sem, term, sent, fd, parser, mainReq, posts, workerVars>>

\* accept fails (no descriptor left, or the connection is gone): continue.
AcceptError ==
  /\ mainPC = "accept"
  /\ backlog > 0
  /\ backlog' \in {backlog, backlog - 1}
  /\ mainPC' = "top"
  /\ UNCHANGED <<free, taken, sem, term, sent, open, fd, parser, mainReq, mainFd, posts,
                 workerVars>>

\* while (!term) around the pop, and if (term) break behind it.
TermTest ==
  /\ MainGoto("test", IF term THEN "postall" ELSE "freepop")
  /\ UNCHANGED term

\* Main takes Request r from the pool and leaves the rest there.
TakeFree(r, rest) ==
  /\ mainPC = "freepop"
  /\ mainReq' = r
  /\ free' = rest
  /\ mainPC' = "check"
  /\ UNCHANGED <<taken, sem, term, sent, backlog, open, fd, parser, mainFd, posts, workerVars>>

\* Faulty variant: the pool hands out the Request it got last.
Bug_PopFreeNewest == free # <<>> /\ TakeFree(free[Len(free)], SubSeq(free, 1, Len(free) - 1))

\* queue_pop(free_req_queue): main sleeps while the pool is exhausted, and a
\* signal does not end that sleep.
PopFree == free # <<>> /\ TakeFree(Head(free), Tail(free))

\* if (term) break: the connection and the Request are abandoned.
TermCheck ==
  /\ MainGoto("check", IF term THEN "postall" ELSE "prepare")
  /\ UNCHANGED term

\* Main fills in its Request and posts the semaphore n times.
PrepareWith(state, n) ==
  /\ mainPC = "prepare"
  /\ parser' = [parser EXCEPT ![mainReq] = state]
  /\ fd' = [fd EXCEPT ![mainReq] = mainFd]
  /\ sem' = sem + n
  /\ mainPC' = "push"
  /\ UNCHANGED <<free, taken, term, sent, backlog, open, mainReq, mainFd, posts, workerVars>>

\* Faulty variants: the parser state of the previous connection is kept; the
\* semaphore is not posted.
Bug_PrepareKeepsParser == PrepareWith(parser[mainReq], 1)
Bug_PrepareWithoutPost == PrepareWith("fresh", 0)

\* init_parser_state, free_req->fd = filedes, sem_post.
Prepare == PrepareWith("fresh", 1)

\* queue_push(taken_req_queue).
PushTaken ==
  /\ mainPC = "push"
  /\ Len(taken) < PoolSize
  /\ taken' = Append(taken, mainReq)
  /\ mainPC' = "top"
  /\ UNCHANGED <<free, sem, term, sent, backlog, open, fd, parser, mainReq, mainFd, posts,
                 workerVars>>

\* A turn of a loop that posts the semaphore n times.
PostTimes(n) ==
  /\ mainPC = "postall"
  /\ sem' = sem + 1
  /\ posts' = posts + 1
  /\ mainPC' = IF posts + 1 = n THEN "join" ELSE "postall"
  /\ UNCHANGED <<free, taken, term, sent, backlog, open, fd, parser, mainReq, mainFd, workerVars>>

\* Faulty variants: one post for all the workers; one post too many.
Bug_PostOnce == PostTimes(1)
Bug_PostOneTooMany == PostTimes(Cardinality(Workers) + 1)

\* One sem_post per worker.
PostAll == PostTimes(Cardinality(Workers))

\* pthread_join on every worker; then the queues, the parser states and the
\* log are destroyed and main returns.
Join ==
  /\ \A w \in Workers : workerPC[w] = "exited"
  /\ MainGoto("join", "done") /\ UNCHANGED term

MainStep ==
  \/ ParsePort \/ create_listen_socket \/ ParseOptions
  \/ FillNext \/ FillPush \/ Start
  \/ LoopTest \/ BlockSignals \/ PollTimeout \/ PollReady \/ PollError
  \/ Accept \/ AcceptError
  \/ TermTest \/ PopFree \/ TermCheck \/ Prepare \/ PushTaken
  \/ PostAll \/ Join

-----------------------------------------------------------------------------
(***************************************************************************)
(* The workers: request_workers.                                           *)
(***************************************************************************)

\* A worker main has created blocks SIGINT and SIGTERM first.
WorkerMask(w) ==
  /\ workerPC[w] = "start"
  /\ mainPC \notin StartPCs
  /\ workerPC' = [workerPC EXCEPT ![w] = "semwait"]
  /\ UNCHANGED <<free, taken, sem, term, sent, backlog, open, fd, parser, mainVars, job>>

SemWait(w) ==
  /\ workerPC[w] = "semwait"
  /\ sem > 0
  /\ sem' = sem - 1
  /\ workerPC' = [workerPC EXCEPT ![w] = "termtest"]
  /\ UNCHANGED <<free, taken, term, sent, backlog, open, fd, parser, mainVars, job>>

\* if (term) break
WorkerTest(w) ==
  /\ workerPC[w] = "termtest"
  /\ workerPC' = [workerPC EXCEPT ![w] = IF term THEN "exited" ELSE "pop"]
  /\ UNCHANGED <<free, taken, sem, term, sent, backlog, open, fd, parser, mainVars, job>>

\* queue_pop(jobs), and a job without a connection is dropped.
PopJob(w) ==
  /\ workerPC[w] = "pop"
  /\ taken # <<>>
  /\ job' = [job EXCEPT ![w] = Head(taken)]
  /\ taken' = Tail(taken)
  /\ workerPC' = [workerPC EXCEPT
                    ![w] = IF fd[Head(taken)] = NoFd THEN "semwait" ELSE "handle"]
  /\ UNCHANGED <<free, sem, term, sent, backlog, open, fd, parser, mainVars>>

\* w closes its connection, sets job->fd = -1 and moves on.
CloseConnection(w, to) ==
  /\ workerPC[w] = "handle"
  /\ parser' = [parser EXCEPT ![job[w]] = "finished"]
  /\ open' = open \ {fd[job[w]]}
  /\ fd' = [fd EXCEPT ![job[w]] = NoFd]
  /\ workerPC' = [workerPC EXCEPT ![w] = to]
  /\ UNCHANGED <<free, sem, term, sent, backlog, mainVars, job>>

\* Faulty variants: a finished connection is also queued again; its Request is
\* not returned to the pool.
Bug_FinishRequeues(w) == CloseConnection(w, "pushfree") /\ taken' = Append(taken, job[w])
Bug_FinishLeaks(w) == CloseConnection(w, "semwait") /\ UNCHANGED taken

\* handle_request returns true.
HandleFinished(w) == CloseConnection(w, "pushfree") /\ UNCHANGED taken

\* queue_push(finished_reqs).
PushFree(w) ==
  /\ workerPC[w] = "pushfree"
  /\ Len(free) < PoolSize
  /\ free' = Append(free, job[w])
  /\ workerPC' = [workerPC EXCEPT ![w] = "semwait"]
  /\ UNCHANGED <<taken, sem, term, sent, backlog, open, fd, parser, mainVars, job>>

\* handle_request returns false: sem_post comes before the push.
HandleAgain(w) ==
  /\ workerPC[w] = "handle"
  /\ parser' = [parser EXCEPT ![job[w]] = "partial"]
  /\ sem' = sem + 1
  /\ workerPC' = [workerPC EXCEPT ![w] = "pushback"]
  /\ UNCHANGED <<free, taken, term, sent, backlog, open, fd, mainVars, job>>

\* Faulty variant: the worker looks at term instead of pushing the job back.
Bug_PushBackUnlessTerm(w) ==
  /\ workerPC[w] = "pushback"
  /\ taken' = IF term THEN taken ELSE Append(taken, job[w])
  /\ workerPC' = [workerPC EXCEPT ![w] = "semwait"]
  /\ UNCHANGED <<free, sem, term, sent, backlog, open, fd, parser, mainVars, job>>

\* queue_push(jobs).
PushBack(w) ==
  /\ workerPC[w] = "pushback"
  /\ Len(taken) < PoolSize
  /\ taken' = Append(taken, job[w])
  /\ workerPC' = [workerPC EXCEPT ![w] = "semwait"]
  /\ UNCHANGED <<free, sem, term, sent, backlog, open, fd, parser, mainVars, job>>

request_workers(w) ==
  \/ WorkerMask(w) \/ SemWait(w) \/ WorkerTest(w) \/ PopJob(w)
  \/ HandleFinished(w) \/ PushFree(w)
  \/ HandleAgain(w) \/ PushBack(w)

Next ==
  \/ Arrive \/ SendSignal \/ sigterm_handler
  \/ MainStep
  \/ \E w \in Workers : request_workers(w)

Spec == Init /\ [][Next]_vars

\* Every thread that can run is run, and a signal that can be delivered is.
\* Nothing forces clients to connect or anyone to send a signal.
Fairness ==
  /\ WF_vars(sigterm_handler)
  /\ WF_vars(MainStep)
  /\ \A w \in Workers : WF_vars(request_workers(w))

FairSpec == Spec /\ Fairness

-----------------------------------------------------------------------------
(***************************************************************************)
(* Properties.                                                             *)
(***************************************************************************)
WorkersAt(where) == {w \in Workers : workerPC[w] = where}

\* Who holds Request objects: a worker from its pop to its push, main from
\* its pop to its push.
Holding(w) == workerPC[w] \in {"handle", "pushfree", "pushback"}
MainHolding == mainPC \in {"fillpush", "check", "prepare", "push"}
StopPCs == {"postall", "join", "done"}

Distinct(s) == \A i, j \in DOMAIN s : s[i] = s[j] => i = j

\* No Request is in two places: not twice on a queue, not on both queues, not
\* on a queue and in a thread's hands, not in the hands of two threads.  Each
\* field of a Request is therefore used by one thread at a time.
ExclusiveOwnership ==
  /\ Distinct(free) /\ Distinct(taken)
  /\ Range(free) \cap Range(taken) = {}
  /\ \A w \in Workers : Holding(w) =>
       /\ job[w] \in Requests
       /\ job[w] \notin Range(free) \cup Range(taken)
       /\ \A v \in Workers \ {w} : Holding(v) => job[v] # job[w]
  /\ MainHolding =>
       /\ mainReq \in Requests
       /\ mainReq \notin Range(free) \cup Range(taken)
       /\ \A w \in Workers : Holding(w) => job[w] # mainReq

\* No Request is ever lost: until the server stops, each is on a queue or in
\* the hands of a thread (or, at start, not yet put into the pool).
NoRequestLost ==
  mainPC \in StartPCs \cup StopPCs \/
  \A r \in Requests :
    \/ r \in Range(free) \cup Range(taken)
    \/ MainHolding /\ mainReq = r
    \/ \E w \in Workers : Holding(w) /\ job[w] = r

\* The Requests that stand for a connection: queued as taken, about to be, or
\* in the hands of a worker that has not closed them.
Live ==
  Range(taken)
    \cup {job[w] : w \in WorkersAt("handle") \cup WorkersAt("pushback")}
    \cup (IF mainPC = "push" THEN {mainReq} ELSE {})

\* What main has accepted and not yet put into a Request is open, and no
\* live Request's.
AcceptedIsFresh ==
  mainPC \in {"test", "freepop", "check", "prepare"} =>
    mainFd \in open /\ \A r \in Live : fd[r] # mainFd

\* Every live Request has a connection of its own that is still open, and a
\* parser state that init_parser_state prepared for that connection: no
\* worker reads a closed or a reused descriptor or another client's bytes.
LiveJobsHaveConnections ==
  /\ \A r \in Live : fd[r] \in open /\ parser[r] \in {"fresh", "partial"}
  /\ \A r, q \in Live : fd[r] = fd[q] => r = q
  /\ AcceptedIsFresh

\* Announced jobs that are not on the queue yet.
Announced == Cardinality(WorkersAt("pushback")) + (IF mainPC = "push" THEN 1 ELSE 0)

\* A worker that is past the semaphore and inside queue_pop always has a job
\* of its own, on the queue or about to be pushed, although the semaphore is
\* posted before the push and again, without any job, at shutdown: so no
\* worker sleeps in queue_pop when main joins it.
NoStrandedWorker == Cardinality(WorkersAt("pop")) <= Len(taken) + Announced

\* The threads' calls on the two queues, as FifoQueue sees them.
TakenCall == [t \in Workers \cup {Main} |->
  IF t = Main THEN IF mainPC = "push" THEN "push" ELSE "none"
  ELSE IF workerPC[t] = "pop" THEN "pop"
  ELSE IF workerPC[t] = "pushback" THEN "push" ELSE "none"]

FreeCall == [t \in Workers \cup {Main} |->
  IF t = Main THEN IF mainPC = "freepop" THEN "pop"
                   ELSE IF mainPC = "fillpush" THEN "push" ELSE "none"
  ELSE IF workerPC[t] = "pushfree" THEN "push" ELSE "none"]

Hand == [t \in Workers \cup {Main} |-> IF t = Main THEN mainReq ELSE job[t]]

TakenQueue == INSTANCE FifoQueue WITH
  Threads <- Workers \cup {Main}, Elems <- Requests, NoElem <- NoReq, Capacity <- PoolSize,
  items <- taken, call <- TakenCall, elem <- Hand

FreeQueue == INSTANCE FifoQueue WITH
  Threads <- Workers \cup {Main}, Elems <- Requests, NoElem <- NoReq, Capacity <- PoolSize,
  items <- free, call <- FreeCall, elem <- Hand

\* Main and the workers use both queues as the pool client of FifoQueue does:
\* Requests leave in the order in which they came, nobody touches a Request
\* while it is being pushed, and never more of them are queued or on their way
\* than there are slots.
QueuesUsedAsPool == TakenQueue!PoolSpec /\ FreeQueue!PoolSpec

\* Every job on taken_req_queue is taken by a worker, or the server stops.
TakenIsServed ==
  \A r \in Requests :
    r \in Range(taken) ~> term \/ \E w \in Workers : workerPC[w] = "handle" /\ job[w] = r

\* After SIGINT or SIGTERM main returns, unless the signal finds it waiting
\* for a Request while the pool is exhausted.
ShutdownUnlessExhausted ==
  (term /\ (mainPC # "freepop" \/ free # <<>>)) ~> mainPC = "done"

\* perf.sh sends SIGINT and waits for the server to end: main always returns.
ShutdownCompletes == term ~> mainPC = "done"
=============================================================================
