# A verification development for httpserver

TLA+ modules for the multithreaded web server of this repository
(`httpserver.c`, `server.c`, `queue.c`, `log.c`, `helpers.c`, `strview.c`), the
TLC models that check them on small instances, and TLAPS proofs that all of the
safety properties the passing runs check hold for every instance. `PROJECT.json` maps every definition to the
lines it models and lists runs, mutants, findings, hazards and theorems.

Run a model with `tlc -config MCLogger.cfg MCLogger`, check the proofs with
`tlapm LoggerProofs.tla` and its like (the proof modules are in section 2).

## 1. Inventory

| component | state | operations | talks to |
|---|---|---|---|
| request queue, `queue.c` | ring (`head`, `tail`, `len`, `buf`), `head_mutex`, condition variable `wait` | `queue_push`, `queue_pop` (both block) | main and all workers |
| accept loop and pool, `httpserver.c` | `free_req_queue`, `taken_req_queue`, semaphore `q_size`, `term`, the `Request` objects | main's loop, `request_workers`, `sigterm_handler`, shutdown | queue, parser, kernel |
| parser and responder, `server.c` | one `State` per request: stage, status, buffer offsets, `body_len`, descriptors | `handle_request` and one handler per stage | socket, files, log |
| log buffer, `log.c` | `buf`, `buf_head`, `write_mutex`, `flush_lock` | `log_buf`, `flush_logger`, `destroy_log` | all workers, the log file |
| scanning, `helpers.c` and `strview.c` | none | `find_delim`, `trim_whitespace`, `parse_to_int`, `my_utoa`, ... | parser |
| files | one file per URI, no lock | open for truncation, create, write, `lstat`, size, read | all requests that name it |
| start-up, `bind.c`, first half of `main` | the listening socket | port, socket, `getopt` | kernel |
| `file_readwrite.c` | - | unfinished, not in the Makefile | - |

Main and the workers run concurrently. A `Request` travels
free queue -> main -> taken queue -> worker -> (free queue | taken queue). A
signal may arrive anywhere. Sockets do not block, so the parser is re-entered
at any byte. The log is shared by all workers under a mutex that is released
before the copy. Requests on one file meet at its system calls only. These are the behaviours that tests hardly reach; the list,
line by line, is `hazards` in `PROJECT.json`.

What makes each part correct:

* queue: calls behave as atomic FIFO calls; no wakeup is lost;
* pool: a Request has one holder, none is lost, a job is served with its own
  connection and parser state, every job is served, shutdown ends;
* parser: no body byte lost or repeated, every complete request gets the answer
  it deserves however it was cut up (with two exceptions that are named), files closed, lengths honest, no spinning, one
  answer per request;
* files: a PUT without company leaves exactly its body, a GET without a PUT
  beside it sends what it promised, bytes never change their place;
* log: copies stay in the buffer, flush and copy exclude each other, no byte
  lost, lines intact when calls do not overlap, calls return;
* scanning: results equal their textbook definition.

## 2. Modules

| module | models | composed with |
|---|---|---|
| `FifoQueue` | what `queue.c` promises: a bounded FIFO queue with indivisible calls; `PoolSpec` is the promise to a client whose elements never outnumber the slots | - |
| `BoundedQueue` | `queue.c` | implements `FifoQueue` (`ImplementsFifo`) |
| `HttpServer` | `httpserver.c` | both its queues are instances of `FifoQueue!PoolSpec` |
| `HttpServer` (start-up) | `bind.c` and the first half of `main` | |
| `Exchange` | what `handle_request` promises the client | - |
| `RequestHandler` | `server.c` | implements `Exchange` (`ImplementsExchange`); its two outcomes are `HandleFinished` and `HandleAgain` of `HttpServer` |
| `SharedFile` | the file system calls of `server.c`, for several requests on one file | the file of `RequestHandler`, with company |
| `Logger` | `log.c` | |
| `TextViews` | the scanning routines of `helpers.c` and `strview.c`, and `parse_rl` | the classes of request lines in `RequestHandler` |
| `MC*` | constants for TLC | |
| `BoundedQueueProofs`, `HttpServerProofs`, `RequestHandlerProofs`, `LoggerProofs`, `SharedFileProofs`, `TextViewsProofs` | theorems about the module they are named after | that module |
| `HttpServerQueueProofs` | the semaphore and the use of both queues | `HttpServerProofs` |
| `LoggerTextProofs` | what the log contains | `LoggerProofs` |

Operators named `Bug_...` are faulty variants of the definition that follows
them. No specification uses them; each is put in the place of its definition
to see that a property notices.

**BoundedQueue.** A thread is outside (`out`), asks for the mutex (`lock`), holds
it and tests the loop condition (`test`), or sleeps (`wait`). The body, the
signal and the unlock are one step because they run under the mutex. A woken
sleeper re-acquires and re-tests, so it is again at `lock`. Spurious wakeups are
an action of their own. (In the code elements are pushed at `head` and popped
at `tail`; the comments on the struct have it the other way round. `tail_mutex`
is never locked.) `PoolSpec` restricts callers as `httpserver.c` does.

**HttpServer.** Main starts with the port, the listening socket (from which on
clients may connect) and the options; each may end the process (`failed`). One step is the code between two accesses to what the threads
share. `fd` and `parser` belong to whoever holds the Request, which is what
`ExclusiveOwnership` establishes. Signals: `SendSignal` makes one pending;
`sigterm_handler` runs in main outside `poll` (during which main blocks it) or
in a worker that has not reached its own `pthread_sigmask`; it ends an `accept`
that waits already. `poll` may time out, report a connection, or fail.
`accept` may fail. `handle_request` is a choice of its two results.
The signal sets of the code are not emptied before signals are added; which
other signals they block makes no difference here.

**RequestHandler.** Bytes are counted, not stored. A request is a record: the
length and class of its request line, the class of each header line and where it
ends, the size of its body, and the file it names; the client sends some prefix of
it. `failed` is history: a read from the socket or a write to the file failed.
Every action is one run of one stage handler with one outcome of its system
calls. `LineBuffered` keeps the exact arithmetic of `read_hf`, which computes
its room once; `read_len` that of `read_request_body`, where a negative value
stands for a huge unsigned one, which `read` refuses. The file is the
request's own: nobody else changes it; `SharedFile` drops that assumption.
`Exchange` is what the client sees of it: a request that is being received, one
answer that is settled when its head is built (`build_header`), a body of at
most the announced length, a close.

**SharedFile.** A request is its sequence of system calls on the file: a PUT opens
for truncation, creates if there was nothing (without truncation), writes in
pieces at its own offset; a GET calls `lstat`, opens, measures, reads to the end
as it is then. A byte is the pair (request, place in the body), so that gaps and
mixtures are visible. `latest`, `clash` and `torn` are history: the last PUT to
begin, PUTs that overlapped another one, GETs that had the file open while a PUT
was under way. HEAD is a GET that stops behind the size. Files are never removed,
and permissions are `RequestHandler`'s matter.

**Logger.** A byte is the pair (call, place in line). One step is one access to
the buffer or one lock operation. A short or failed write sets `short`; from
then on only the number of bytes in the file is kept, not its contents (the code
starts again at the beginning of the buffer). `overlap` records whether two calls ever
overlapped. "The file" (`out`) is what `write` was given: `create_log` opens the log
without truncating it and without `O_APPEND` (`log.c:25`), so a longer log of an
earlier run keeps its tail.

**TextViews.** The loops are recursive functions over positions (a loop with two
indices is a function to functions, which is what the provers can handle); `text` grows by a
byte at a time, as the request buffer does. `parse_rl` takes the text as a request
line; names of methods and the protocol are constants, short in the instance.
`parse_to_int` keeps `res` and `pow` as the code does and wraps both (`Signed`);
`my_utoa` keeps its digits last to first and reverses them. `Memory` puts a colon in
front of the text, which is what stands there for a header value. For a request line
the code reads, if the line begins with a blank, the byte before the buffer
(`strview.c:43`); the result of the parse does not depend on it.

## 3. Runs

| run | instance | what it shows |
|---|---|---|
| `queue_any` | 3 threads, 2 elements, 2 slots | type, ring and FIFO refinement for unrestricted callers |
| `queue_pool` | 4 threads, 2 slots | with the pool's discipline only poppers sleep, no wakeup is lost, a sleeper beside an element is served |
| `server_safety` | 2 workers, 3 Requests, 4 descriptors, symmetric | ownership, no Request lost, descriptors and parser states fresh, no stranded worker, start-up that fails at any step, both queues used as pool clients |
| `server_live` | 2 workers, 2 Requests, 3 descriptors | every queued job is served; shutdown ends unless the pool is exhausted |
| `server_shutdown` | the same | VIOLATED: shutdown always ends |
| `handler_all` | header buffer of 16 bytes, about 190 requests, each cut anywhere | all handler properties, refinement of `Exchange`; what a full header buffer and a surplus of body may do to the answer, and nothing else |
| `shared_file` | PUTs of 0, 1, 2 and 2 bytes and a GET, file absent, empty or of 3 bytes | what overlapping requests on one file may and may not do |
| `handler_bad_put`, `handler_bad_key`, `handler_large_put` | the request of one test script each | VIOLATED: the script's expectation |
| `log` | 3 threads, buffer of 4, lines of 1 and 3, 3 calls | buffer and lock properties, contents, byte count under short writes, termination |
| `text` | texts of up to 7 bytes over 7 bytes, `SSIZE_MAX` 127 | scanning against reference definitions |

**Why the bounds are enough.** The ring of two wraps, fills and empties; three
threads give two sleepers and a signaller of either kind, four give two
sleepers, two awake poppers and a pusher in turn. Two workers are the least
with interference between workers; a pool of two or three can be exhausted
while main holds a further connection (hence one descriptor more than
Requests). `MaxBacklog` 1 is enough because main takes connections one by one.
The header buffer of 16 holds a request line of 4, up to two header lines of 3 to
5 and the empty line, or is overrun by them; line lengths 4, 7, 16 and 18
put the limit at a line end, inside a line and inside the request line. With a
buffer of 4, a line of 3 followed by 1 fills the buffer exactly, and 3 and 3
end inside the line; three threads let a slow copier see two others move
`buf_head`. On the shared file, bodies of two bytes are cut in two, two such PUTs
leave gaps and mixtures, a third and a fourth begin during or after them, and the
old file is longer than any body. With `SSIZE_MAX` 127 three digits overflow the
result or only the power of ten, as 19 and 20 digits do in the program. Seven bytes are a whole request line and one
blank too many.

**Bounds.** `MaxBacklog` (connections waiting), `MaxCalls` (log calls),
`MaxLen` (text), the constants of the requests. Deadlock checking is off where
the program ends by itself (server stopped, request finished, log closed, text
complete, all requests on a file answered). In `queue_any` it is on but says little,
since a sleeper may always wake spuriously; that nobody sleeps who should not is
`NoLostWakeup` and `SleeperIsServed`.

**Fairness.** `FairPoolSpec`: a thread inside a call that can move does
(weak fairness per thread: the scheduler runs runnable threads); nobody must
call, no sleeper must wake spuriously. `HttpServer!Fairness`: main, each worker
and the delivery of a pending signal; clients need not connect and nobody need
send a signal. A worker's `handle_request` is not forced to finish, so a slow
client may circulate for ever. `RequestHandler!FairSpec`: the running thread
runs; no assumption about the client. `Logger!FairSpec`: threads inside
`log_buf`; calls are bounded by `MaxCalls`, so a mutex that is always given to
somebody else is not covered (POSIX mutexes promise no more). In `server_live`
`PollMayFail` is FALSE: `poll` on one valid descriptor fails only for lack of
memory or for a signal other than the two main blocks.

## 4. What the checks found

* **Shutdown may hang** (`server_shutdown`). Main tests `term` and sleeps in
  `queue_pop`; if the pool is exhausted and the connections are idle, workers
  put their jobs back, see `term` and exit, and main is never woken. Under
  `ShutdownUnlessExhausted` every other case is shown to end.
* **A PUT with too long a body gets 500** (`handler_bad_put`), where
  `my_bad_put.sh` expects 400: an unsigned subtraction at `server.c:340`. The
  test meant for this case, `server.c:364`, can never be true. The answer depends on
  the cut: if the surplus comes later than the read that completes the head, it stays
  unread and the answer is 200 or 201.
* **Bad header keys are accepted** (`handler_bad_key`), where `my_bad_key.sh`
  expects 400: `colon < hf.start+1` at `server.c:241` is meant for an empty key but
  `colon` is the position behind the colon, and nothing looks for blanks.
* **A well-formed PUT may get 400** (`handler_large_put`) if its body fills the
  header buffer before the header lines are parsed.

Not findings of a run, but worth knowing. `find_delim` misses a CR LF behind a CR: the
mismatch at the second CR starts the delimiter over with the byte after it, against
`helpers.h:22`, and `LineEndFound` makes an exception of it. A request whose head fills the header
buffer to the last byte before it is complete is closed without an answer, since a
read into no room looks like the end of the connection (`server.c:264-280`);
`CompleteRequestAnswered` names this as its one exception. `read_hf` computes its room
once, so a longer head is written past it (`server.c:271`); no property speaks of
that (section 7). A PUT that begins last and is
answered with 200 or 201 may still find bytes of an overlapping PUT in its place,
and a file that an overlapping PUT made longer; two PUTs that both create a file
both say 201 (`shared_file` says what is left); `README.md` of the repository says
that these collisions are not prevented. Log lines of overlapping calls may overwrite
each other (`log.c:58` counts back from a `buf_head` that moves), which no
document denies; `CopyInBounds` and `BytesAccounted` say what still holds.

## 5. What is proved

All theorems hold for every value of the constants that meets the ASSUMEs of the
module: any number of threads, workers, Requests, descriptors, requests on a file,
any capacities, buffer sizes, line and body lengths, any bound of section 3. The
ASSUMEs are what the code fixes (a buffer that holds a head and a static body, a
log line shorter than the log buffer, a read larger than the header buffer) or say
that names are distinct. Every inductive invariant below was first a TLC invariant.

**BoundedQueueProofs**

* `QueueIsConsistent`, `QueueTypes`: `Spec => [](TypeOK /\ RingConsistent /\
  MutexOwnership)`. The invariant adds `CallMatchesPC` (a thread that is inside has
  a call) and `PusherHasElem` (a pusher's element is a real one, needed for the slot
  it fills). The ring arithmetic is in `WrapValue`, `PushRing` and `PopRing`.
* `QueueImplementsFifo`: `Spec => ImplementsFifo`, by `InitRefines` and
  `StepRefines` under the mapping `items <- Queued`: bodies map to `Push` and
  `Pop`, calls to calls, locking, sleeping and waking to stuttering.
* `PoolLosesNoWakeup`, `PoolPushesNeverSleep`: under `PoolSpec`. The invariant adds
  `PoolFits` (queued plus pushing never exceeds the capacity), from which no push
  ever waits; then every signal reaches a popper, and the count of awake poppers
  follows the length of the queue.

**HttpServerProofs** and **HttpServerQueueProofs**

* `ServerTypes`: with `StartIsQuiet`, `PostsInRange` and `HolderHasRequest` (where
  main is says what can have happened) types are inductive.
* `RequestsHaveOneOwner`, `ConnectionsAreExclusive`, `RequestsAreKept`: a Request
  moves only from one place to the next, a descriptor main accepts is open for
  nobody else, and what leaves a place arrives at another. They are proved one on
  top of the other: that two live Requests do not share a connection needs that
  they do not share a place.
* `NobodyIsStranded`: a worker in `queue_pop` has a job coming. Not inductive by
  itself; `SemaphoreExact` says that until `term` is set the semaphore and the
  workers past it match the jobs queued or announced one to one. The shutdown
  posts, which announce no job, come when no worker goes on to `queue_pop`.
* `ServerUsesQueuesAsPool`: the server implements `FifoQueue!PoolSpec` twice. It is
  what `PoolLosesNoWakeup` asks of the callers of `queue.c`, so that the two
  theorems together cover the queue as the server uses it.

**RequestHandlerProofs**. The invariant says what each stage may rely on
(`RequestLineStage`, `HeaderStage`, `BodyStage`: which lines were good, what is in
the buffer, which file is open), that there is one answer (`OneAnswer`,
`AnswerSettled`), and where an answer stands (`ResponseStage`, `ClosedEarly`).

* `HandlerTypes`, `BodiesAreAccountedFor`, `PutsAreStored`, `ServedFilesAreOpen`,
  `ContentLengthsAreHonest`, `FilesAreClosed`, `AnswersMatchRequests`,
  `CompleteRequestsAreAnswered`: each from that invariant, for every set of
  requests (any number of header lines of any lengths) however they are cut up.
  `AnswersMatchRequests` leaves out failed reads and writes (`failed`) and bad keys,
  and says where the answer is not the deserved one: 500 for a surplus of body that
  came with the head, 400 or 500 once the header buffer has room for one more byte or
  less. The invariant carries this as `Cramped` and `GoodAnswer`.
  `CompleteRequestsAreAnswered` has one exception, a header buffer that is full to the
  last byte before the head is complete (`ClosedEarly`).
* `HandlerImplementsExchange`: a step of a stage is a step of `Exchange` or none.

**LoggerProofs** and **LoggerTextProofs**

* `LoggerTypes`, `FlushesExcludeCopies`, `CopiesStayInBounds`: `LockState` says who
  is where with which lock; `LineState` that what is left of a line has its room
  below `buf_head`, which is why the copy may count back from a `buf_head` that
  others have moved meanwhile.
* `LogLosesNoByte`: while calls run, bytes in the file, bytes below `buf_head` and
  bytes nobody has made room for yet (`Missing`, a set whose cardinality the
  proof follows) add up to what was logged (`Accounted`).
* `SequentialLogsAreExact`: `InOrder` adds that without overlap one thread is
  inside, its line is the last one logged, and file and buffer up to what is
  being copied are the text.

**SharedFileProofs**. The invariant follows the PUT that began last (`Alone`,
`SoloContent`, `SoloCreator`, `Covered`) and, for every GET, the file that does not
change under it (`Steady`) and what it sent (`Served`).

* `FileTypes`, `SoloPutsAreStored`, `LatestPutsCover`, `BytesStayInPlace`,
  `UntornReadsAreWhole`.

**TextViewsProofs**. On texts of any length over any alphabet. That the recursive
functions are defined at all is part of the proof (`ScanExists`, `TrimLoopsExist`,
`LoopExists` and their like).

* `LineEndsAreFound` and `LineEndsAreStable` (an action property) about
  `find_delim`, `ValuesAreTrimmed` about `trim_whitespace`.
* `RequestLinesAreParsed`: any methods that are words, any protocol. A view `Holds`
  a text when it has its length and its bytes. A trimmed view holds the stripped
  field (`FieldTrimmed`, `TailTrimmed`): the byte before a field is a blank that
  belongs to the field before it, and the loops that run across it are caught by the
  second test of `trim_whitespace`. What `compare_vs` and the validators do with a
  view they then do with the text it holds (`CompareHeld`, `MethodHeld`,
  `PathHeld`, `ProtoHeld`), and `LineParsed` puts the fields together.
* `NumbersAreParsed`: any `SSIZE_MAX`. Every number is read as its value wrapped into
  `ssize_t`, and what is no number as -1. The loop of `parse_to_int` keeps `Reads`: the
  value of the digits not yet read, times their power of ten, plus `res` is congruent
  to the number modulo the width of `ssize_t`, whatever overflowed; only one value of
  `ssize_t` is (`SignedUnique`), and it is the number itself if that fits
  (`SignedFits`). The loop of `my_utoa` keeps the digits it has passed `Backwards`.

Induction. What a loop computes, the length of all lines together or the largest of
a set of numbers needs induction, which is done here by taking the least (or the
greatest) number in the set of exceptions: `LeastNumber`, `GreatestNumber` and
`Downward` follow from the well-foundedness of the naturals.

What the proofs changed in the models: the arms of the CASEs in `OpenGetFile` and
`create_filename` overlapped for an over-long URI, which TLC resolves by their order and TLA+ does
not (now an IF around the CASE); `SharedFile` did not say that `Old` and `Hole`
differ; the scans of `TextViews` were functions of two arguments. `parse_to_int` used an
exact power of ten where the code's wraps; it is now the code's loop. The width of
`ssize_t` became its largest value, and the digits became a table, because the
provers know neither powers of two nor `ToString`. Header lines got an end each in
place of one length for all. `RequestLineParsed` needed two
things said of the constants: a method is a word (`MethodsAssumption`), and
the protocol is a sequence (`ProtocolAssumption`).

Only model-checked is all liveness (`CallReturns` and its like, `LogReturns`, service
and shutdown of the server): the prover has no support for fairness. The four
violated properties of section 3 have counterexamples, not proofs.

## 6. Not modelled

Wording and layout of responses and log lines; the values of the command line
(they are constants); allocation failures, a log file that cannot be opened and
`-t 0`; two servers that share the name of the semaphore; `file_readwrite.c`
(unfinished, not built); the performance scripts; `compare_vv` and
`burn_whitespace` (unused). Removal of files by others, and a power failure: the
server neither syncs nor recovers anything.

## 7. Plan

Done: the queue with its abstract specification, the pool with its start-up, the
parser with its abstract specification, the files requests share, the log and the
scanning routines, and the proofs of section 5.

Left:

1. Liveness stays with TLC.
2. The four hazards without a property: `-t 0`, a log file that cannot be opened
   (both in start-up, section 6), two servers that share the name of the
   semaphore, and the room `read_hf` computes once (modelled by `LineBuffered`; a
   property of where `buf_end` ends up needs the buffers of all Requests as one
   allocation).
