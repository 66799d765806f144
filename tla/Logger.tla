-------------------------------- MODULE Logger --------------------------------
(***************************************************************************)
(* log.c: the buffer in which the worker threads collect log lines.        *)
(*                                                                         *)
(* log_buf takes write_mutex and then flush_lock for reading.  If the line *)
(* fits it reserves room by moving buf_head, releases the mutex and copies *)
(* the line to where it computes the reserved room to be: counted back     *)
(* from the CURRENT buf_head, which other threads may have moved.  If the  *)
(* line does not fit it keeps the mutex, fills the buffer, flushes it      *)
(* (flush_lock taken for writing) and goes on.                             *)
(*                                                                         *)
(* A byte of the log is the pair of the call that logs it and its place in *)
(* the line.  One step is one access to the shared buffer or one operation *)
(* on a lock.                                                              *)
(***************************************************************************)
EXTENDS Naturals, Integers, Sequences, FiniteSets, SequencesExt

CONSTANTS
  Threads,     \* the threads that log
  NoThread,    \* nobody
  Size,        \* buffer_size
  Lens,        \* possible lengths of a line
  MaxCalls     \* bound: calls of log_buf

ASSUME ThreadsAssumption == IsFiniteSet(Threads) /\ NoThread \notin Threads
ASSUME SizeAssumption == Size \in Nat \ {0} /\ MaxCalls \in Nat
\* MAX_LOG (500) is far below the 4096 httpserver.c asks for.
ASSUME LensAssumption == Lens \subseteq 1..Size-1

VARIABLES
  head,      \* buf_head - buf
  buf,       \* the bytes of the buffer
  out,       \* what write was given (an old log file is not truncated)
  mutex,     \* owner of write_mutex
  readers,   \* threads that hold flush_lock for reading
  writer,    \* the thread that holds flush_lock for writing
  pc,        \* where each thread is
  line,      \* line[t]: the line t logs, [call, len]
  done,      \* done[t]: how many of its bytes t has copied
  partial,   \* partial[t]: flushed_partial
  logged,    \* all lines passed to log_buf, in the order of the calls
  overlap,   \* whether two calls of log_buf ever overlapped
  short      \* whether a write ever took less than it was given

locks == <<mutex, readers, writer>>
vars == <<head, buf, out, locks, pc, line, done, partial, logged, overlap, short>>

NoByte == <<0, 0>>
Bytes == (0..MaxCalls) \X (0..Size)
Lines == [call : 0..MaxCalls, len : 0..Size]
PCs == {"idle", "mutex", "rdlock", "reserve", "copy", "rdunlock", "fill", "full", "flush",
        "rdagain", "end", "last", "lastflush", "unlock", "closed"}

TypeOK ==
  /\ head \in 0..Size
  /\ buf \in [0..Size-1 -> Bytes]
  /\ out \in Seq(Bytes)
  /\ mutex \in Threads \cup {NoThread}
  /\ readers \subseteq Threads
  /\ writer \in Threads \cup {NoThread}
  /\ pc \in [Threads -> PCs]
  /\ line \in [Threads -> Lines]
  /\ done \in [Threads -> 0..Size]
  /\ partial \in [Threads -> BOOLEAN]
  /\ logged \in Seq(Lines)
  /\ overlap \in BOOLEAN /\ short \in BOOLEAN

\* create_log.
Init ==
  /\ head = 0
  /\ buf = [i \in 0..Size-1 |-> NoByte]
  /\ out = <<>>
  /\ mutex = NoThread /\ readers = {} /\ writer = NoThread
  /\ pc = [t \in Threads |-> "idle"]
  /\ line = [t \in Threads |-> [call |-> 0, len |-> 0]]
  /\ done = [t \in Threads |-> 0]
  /\ partial = [t \in Threads |-> FALSE]
  /\ logged = <<>>
  /\ overlap = FALSE /\ short = FALSE

Goto(t, from, to) == pc[t] = from /\ pc' = [pc EXCEPT ![t] = to]

\* The next byte of t's line.
NextByte(t) == <<line[t].call, done[t] + 1>>

-----------------------------------------------------------------------------
(***************************************************************************)
(* log_buf.                                                                *)
(***************************************************************************)
Call(t) ==
  /\ Len(logged) < MaxCalls
  /\ Goto(t, "idle", "mutex")
  /\ \E n \in Lens :
       LET l == [call |-> Len(logged) + 1, len |-> n]
       IN line' = [line EXCEPT ![t] = l] /\ logged' = Append(logged, l)
  /\ done' = [done EXCEPT ![t] = 0]
  /\ partial' = [partial EXCEPT ![t] = FALSE]
  /\ overlap' = (overlap \/ \E u \in Threads : pc[u] # "idle")
  /\ UNCHANGED <<head, buf, out, locks, short>>

LockMutex(t) ==
  /\ Goto(t, "mutex", "rdlock")
  /\ mutex = NoThread
  /\ mutex' = t
  /\ UNCHANGED <<head, buf, out, readers, writer, line, done, partial, logged, overlap, short>>

\* pthread_rwlock_rdlock, at the start and again after a flush; behind the
\* latter the outer loop looks whether any of the line is left.
ReadLock(t) ==
  /\ \/ Goto(t, "rdlock", "reserve")
     \/ Goto(t, "rdagain", IF done[t] < line[t].len THEN "fill" ELSE "end")
  /\ writer = NoThread
  /\ readers' = readers \cup {t}
  /\ UNCHANGED <<head, buf, out, mutex, writer, line, done, partial, logged, overlap, short>>

Fits(t) == head + line[t].len < Size

\* t reserves room and releases the mutex; rs hold flush_lock for reading then.
ReserveRoom(t, rs) ==
  /\ Fits(t)
  /\ Goto(t, "reserve", "copy")
  /\ head' = head + line[t].len
  /\ mutex' = NoThread
  /\ readers' = rs
  /\ UNCHANGED <<buf, out, writer, line, done, partial, logged, overlap, short>>

\* Faulty variant: flush_lock is given up with the mutex, before the copy.
Bug_Reserve(t) == ReserveRoom(t, readers \ {t})

\* Room enough: reserve it and let the next thread in.
Reserve(t) == ReserveRoom(t, readers)

\* Faulty variant: the loop counts down to 0 instead of 1.
Bug_CopyTarget(t) == head - (line[t].len - done[t]) - 1

\* Where the copy loop writes: counted back from buf_head as it is now.
CopyTarget(t) == head - (line[t].len - done[t])

CopyByte(t) ==
  /\ done[t] < line[t].len
  /\ Goto(t, "copy", IF done[t] + 1 = line[t].len THEN "rdunlock" ELSE "copy")
  /\ buf' = [buf EXCEPT ![CopyTarget(t)] = NextByte(t)]
  /\ done' = [done EXCEPT ![t] = @ + 1]
  /\ UNCHANGED <<head, out, locks, line, partial, logged, overlap, short>>

FastReturn(t) ==
  /\ Goto(t, "rdunlock", "idle")
  /\ readers' = readers \ {t}
  /\ UNCHANGED <<head, buf, out, mutex, writer, line, done, partial, logged, overlap, short>>

\* Too little room: keep the mutex and go to the loop.
TooLittle(t) ==
  /\ ~Fits(t)
  /\ Goto(t, "reserve", "fill")
  /\ UNCHANGED <<head, buf, out, locks, line, done, partial, logged, overlap, short>>

\* The next byte of the line goes to buf_head.
AppendByte(t) ==
  /\ done[t] < line[t].len
  /\ Goto(t, "fill", "fill")
  /\ buf' = [buf EXCEPT ![head] = NextByte(t)]
  /\ head' = head + 1
  /\ done' = [done EXCEPT ![t] = @ + 1]
  /\ UNCHANGED <<out, locks, line, partial, logged, overlap, short>>

\* Faulty variant: the end of the buffer is not looked at.
Bug_FillByte(t) == AppendByte(t)

\* The inner loop: up to the end of the line or of the buffer.
FillByte(t) == head # Size /\ AppendByte(t)

\* The buffer is full; rs hold flush_lock for reading when flush_logger starts.
LeaveFull(t, rs) ==
  /\ head = Size
  /\ Goto(t, "fill", "full")
  /\ readers' = rs
  /\ partial' = [partial EXCEPT ![t] = TRUE]
  /\ UNCHANGED <<head, buf, out, mutex, writer, line, done, logged, overlap, short>>

\* Faulty variant: flush_lock is kept while flush_logger asks for it.
Bug_BufferFull(t) == LeaveFull(t, readers)

\* The buffer is full: release flush_lock and call flush_logger.
BufferFull(t) == LeaveFull(t, readers \ {t})

\* The line is in the buffer: flush what a flush left over, or return.
FillEnd(t) ==
  /\ \/ pc[t] = "fill" /\ head # Size /\ done[t] = line[t].len
     \/ pc[t] = "end"
  /\ pc' = [pc EXCEPT ![t] = IF partial[t] /\ head # 0 THEN "last" ELSE "unlock"]
  /\ readers' = readers \ {t}
  /\ UNCHANGED <<head, buf, out, mutex, writer, line, done, partial, logged, overlap, short>>

SlowReturn(t) ==
  /\ Goto(t, "unlock", "idle")
  /\ mutex' = NoThread
  /\ UNCHANGED <<head, buf, out, readers, writer, line, done, partial, logged, overlap, short>>

-----------------------------------------------------------------------------
(***************************************************************************)
(* flush_logger, from log_buf and from destroy_log.                        *)
(***************************************************************************)

\* t gets flush_lock for writing.
LockForWriting(t) ==
  /\ Goto(t, "full", "flush") \/ Goto(t, "last", "lastflush")
  /\ writer = NoThread
  /\ writer' = t
  /\ UNCHANGED <<head, buf, out, mutex, readers, line, done, partial, logged, overlap, short>>

\* Faulty variant: the flush does not wait for the readers.
Bug_WriteLock(t) == LockForWriting(t)

\* pthread_rwlock_wrlock.
WriteLock(t) == readers = {} /\ LockForWriting(t)

Buffered(n) == [i \in 1..n |-> buf[i - 1]]

\* n of the buffered bytes go to the file; `cut` tells whether a write took
\* fewer than it was given.  What is left then is again written from the START
\* of the buffer: a prefix is repeated and a tail dropped, and from then on
\* only the number of bytes in the file is recorded.
WriteBytes(n, cut) ==
  /\ short' = (short \/ cut)
  /\ out' = IF short' THEN [i \in 1..Len(out) + n |-> NoByte] ELSE out \o Buffered(n)
  /\ head' = head - n

FlushReturn(t) ==
  /\ pc' = [pc EXCEPT ![t] = IF pc[t] = "flush" THEN "rdagain" ELSE "unlock"]
  /\ writer' = NoThread

\* Faulty variant: the loop ends after one write, before all is written.
Bug_Write(t) ==
  /\ pc[t] \in {"flush", "lastflush"}
  /\ head # 0
  /\ out' = out \o Buffered(head - 1)
  /\ head' = 0
  /\ FlushReturn(t)
  /\ UNCHANGED <<buf, mutex, readers, line, done, partial, logged, overlap, short>>

\* One turn of the loop: write from the start of the buffer, move buf_head
\* back by what was written; leave when the buffer is empty or write fails
\* (n = 0).
Write(t) ==
  /\ pc[t] \in {"flush", "lastflush"}
  /\ head # 0
  /\ \E n \in 0..head :
       /\ WriteBytes(n, n # head)
       /\ IF n \in {0, head} THEN FlushReturn(t) ELSE UNCHANGED <<pc, writer>>
  /\ UNCHANGED <<buf, mutex, readers, line, done, partial, logged, overlap>>

log_buf(t) ==
  \/ LockMutex(t) \/ ReadLock(t)
  \/ Reserve(t) \/ CopyByte(t) \/ FastReturn(t)
  \/ TooLittle(t) \/ FillByte(t) \/ BufferFull(t) \/ FillEnd(t) \/ SlowReturn(t)
  \/ WriteLock(t) \/ Write(t)

\* destroy_log, when the workers have been joined: flush (in several writes if
\* one is short), close, no more calls.
destroy_log ==
  /\ \A t \in Threads : pc[t] = "idle"
  /\ pc' = [t \in Threads |-> "closed"]
  /\ \E n \in 0..head, cut \in BOOLEAN :
       /\ n # head => cut
       /\ cut => n < head \/ head > 1
       /\ WriteBytes(n, cut)
  /\ UNCHANGED <<buf, locks, line, done, partial, logged, overlap>>

Next ==
  \/ \E t \in Threads : Call(t) \/ log_buf(t)
  \/ destroy_log

Spec == Init /\ [][Next]_vars

\* A thread inside log_buf that can run is run.
FairSpec == Spec /\ \A t \in Threads : WF_vars(log_buf(t))

-----------------------------------------------------------------------------
(***************************************************************************)
(* Properties.                                                             *)
(***************************************************************************)

\* The copy loop counts back from a buf_head that others move, and yet never
\* leaves the part of the buffer that is in use: buf_head only grows while
\* flush_lock is held for reading.
CopyInBounds == \A t \in Threads : pc[t] = "copy" => CopyTarget(t) \in 0..head-1

\* flush_lock does its work: while a flush runs nobody is copying into the
\* buffer, by either path.
FlushExcludesCopy ==
  writer # NoThread =>
    /\ readers = {}
    /\ \A t \in Threads : pc[t] \notin {"reserve", "copy", "fill", "end"}

\* The bytes of a sequence of lines.
Text(ls) ==
  FlattenSeq([k \in DOMAIN ls |-> [i \in 1..ls[k].len |-> <<ls[k].call, i>>]])

\* Nobody is inside log_buf.
Quiet == \A t \in Threads : pc[t] \in {"idle", "closed"}

\* File and buffer together have exactly as many bytes as were logged,
\* whatever the threads' interleaving does to their order and however often a
\* write is short or fails: what a failed write leaves behind stays buffered.
BytesAccounted == Quiet => Len(out) + head = Len(Text(logged))

\* As long as no two calls overlapped and no write was short, what write was
\* given followed by the buffer is exactly the lines logged, in order and intact.
SequentialLogExact ==
  (Quiet /\ ~overlap /\ ~short) => out \o Buffered(head) = Text(logged)

\* Every call of log_buf returns, unless the log file refuses a write.
LogReturns == \A t \in Threads : pc[t] = "mutex" ~> (pc[t] = "idle" \/ short)
=============================================================================
