----------------------------- MODULE LoggerProofs -----------------------------
(***************************************************************************)
(* log.c for any number of threads, any size of the buffer and any lengths *)
(* of the lines: the two locks do their work, and although the copy loop   *)
(* counts back from a buf_head that other threads move it never leaves the *)
(* part of the buffer that is in use.                                      *)
(***************************************************************************)
EXTENDS Logger, SequenceTheorems, TLAPS

-----------------------------------------------------------------------------
(***************************************************************************)
(* The inductive invariant: where a thread is says which locks it holds    *)
(* and how much of its line is copied.                                     *)
(***************************************************************************)

\* Between the lock and the unlock of write_mutex.
Holding == {"rdlock", "reserve", "fill", "full", "flush", "rdagain", "end", "last",
            "lastflush", "unlock"}
\* Between rdlock and unlock, and between wrlock and unlock, of flush_lock.
Sharing == {"reserve", "copy", "rdunlock", "fill", "end"}
Flushing == {"flush", "lastflush"}

LockState ==
  /\ \A t \in Threads : mutex = t <=> pc[t] \in Holding
  /\ \A t \in Threads : t \in readers <=> pc[t] \in Sharing
  /\ \A t \in Threads : writer = t <=> pc[t] \in Flushing
  /\ writer # NoThread => readers = {}

\* What is left of a line that is being copied has its room below buf_head.
LineState ==
  \A t \in Threads :
    /\ done[t] <= line[t].len
    /\ pc[t] \in {"mutex", "rdlock", "reserve"} => done[t] = 0 /\ line[t].len > 0
    /\ pc[t] = "copy" => done[t] < line[t].len /\ line[t].len - done[t] <= head

LogInv == TypeOK /\ LockState /\ LineState

\* The two halves of TypeOK: control and data.
ControlTypes ==
  /\ mutex \in Threads \cup {NoThread}
  /\ readers \subseteq Threads
  /\ writer \in Threads \cup {NoThread}
  /\ pc \in [Threads -> PCs]

DataTypes ==
  /\ head \in 0..Size
  /\ buf \in [0..Size-1 -> Bytes]
  /\ out \in Seq(Bytes)
  /\ line \in [Threads -> Lines]
  /\ done \in [Threads -> 0..Size]
  /\ partial \in [Threads -> BOOLEAN]
  /\ logged \in Seq(Lines)
  /\ overlap \in BOOLEAN /\ short \in BOOLEAN

\* They are all of it.
LEMMA TypeHalves == TypeOK <=> ControlTypes /\ DataTypes
  BY DEF TypeOK, ControlTypes, DataTypes

\* create_log establishes it.
LEMMA InitLog == Init => LogInv
<1> SUFFICES ASSUME Init PROVE LogInv
  OBVIOUS
<1>0. Size \in Nat /\ Size > 0 /\ MaxCalls \in Nat /\ NoThread \notin Threads
  BY SizeAssumption, ThreadsAssumption
<1>1. TypeOK
  <2>1. buf \in [0..Size-1 -> Bytes]
    BY <1>0 DEF Init, NoByte, Bytes
  <2>2. line \in [Threads -> Lines] /\ done \in [Threads -> 0..Size]
    BY <1>0 DEF Init, Lines
  <2>3. overlap \in BOOLEAN /\ short \in BOOLEAN /\ partial \in [Threads -> BOOLEAN]
    BY DEF Init
  <2>4. pc \in [Threads -> PCs] /\ head \in 0..Size
    BY <1>0 DEF Init, PCs
  <2>5. out \in Seq(Bytes) /\ logged \in Seq(Lines)
    BY DEF Init
  <2> QED
    BY <2>1, <2>2, <2>3, <2>4, <2>5 DEF Init, TypeOK
<1>2. LockState
  BY <1>0 DEF Init, LockState, Holding, Sharing, Flushing
<1>3. LineState
  BY DEF Init, LineState
<1> QED
  BY <1>1, <1>2, <1>3 DEF LogInv

\* t moves to `to`, and takes and gives up the locks that go with it.
LockMove(t, to) ==
  /\ pc' = [pc EXCEPT ![t] = to]
  /\ mutex' = IF to \in Holding THEN t ELSE IF mutex = t THEN NoThread ELSE mutex
  /\ to \in Holding => mutex \in {t, NoThread}
  /\ readers' = IF to \in Sharing THEN readers \cup {t} ELSE readers \ {t}
  /\ to \in Sharing => writer = NoThread
  /\ writer' = IF to \in Flushing THEN t ELSE IF writer = t THEN NoThread ELSE writer
  /\ to \in Flushing => writer \in {t, NoThread} /\ readers = {}

\* Such a move keeps the lock discipline.
LEMMA LocksFollow ==
  ASSUME TypeOK, LockState, NEW t \in Threads, NEW to \in PCs, LockMove(t, to)
  PROVE  LockState' /\ ControlTypes'
<1> USE DEF LockMove
<1>0. /\ NoThread \notin Threads /\ Sharing \cap Flushing = {}
      /\ mutex \in Threads \cup {NoThread} /\ writer \in Threads \cup {NoThread}
      /\ readers \subseteq Threads
  BY ThreadsAssumption DEF TypeOK, Sharing, Flushing
<1>1. \A u \in Threads : pc'[u] = IF u = t THEN to ELSE pc[u]
  BY DEF TypeOK
<1>2. \A u \in Threads : mutex' = u <=> pc'[u] \in Holding
  BY <1>0, <1>1 DEF LockState
<1>3. \A u \in Threads : u \in readers' <=> pc'[u] \in Sharing
  BY <1>0, <1>1 DEF LockState
<1>4. \A u \in Threads : writer' = u <=> pc'[u] \in Flushing
  BY <1>0, <1>1 DEF LockState
<1>5. writer' # NoThread => readers' = {}
  <2>1. CASE to \in Flushing
    BY <1>0, <2>1
  <2>2. CASE to \in Sharing
    BY <1>0, <2>2
  <2>3. CASE to \notin Flushing /\ to \notin Sharing
    BY <1>0, <2>3 DEF LockState
  <2> QED
    BY <2>1, <2>2, <2>3
<1>6. ControlTypes'
  BY <1>0 DEF TypeOK, ControlTypes
<1> QED
  BY <1>2, <1>3, <1>4, <1>5, <1>6 DEF LockState

\* Every step of log_buf keeps the lock discipline.
LEMMA LocksStep == ASSUME LogInv, NEW t \in Threads, log_buf(t) PROVE LockState' /\ ControlTypes'
<1>0. /\ TypeOK /\ LockState /\ NoThread \notin Threads
      /\ mutex = t <=> pc[t] \in Holding
      /\ t \in readers <=> pc[t] \in Sharing
      /\ writer = t <=> pc[t] \in Flushing
      /\ writer # NoThread => readers = {}
  BY ThreadsAssumption DEF LogInv, LockState
<1> USE DEF Holding, Sharing, Flushing
<1>1. CASE LockMutex(t)
  <2> DEFINE to == "rdlock"
  <2>1. pc[t] \in {"mutex"} /\ pc' = [pc EXCEPT ![t] = to] /\ to \in PCs
    BY <1>1 DEF LockMutex, Goto, PCs
  <2>2. LockMove(t, to)
    BY <1>0, <1>1, <2>1 DEF LockMutex, Goto, LockMove
  <2> QED
    BY <1>0, <2>1, <2>2, LocksFollow
<1>2. CASE Reserve(t)
  <2> DEFINE to == "copy"
  <2>1. pc[t] \in {"reserve"} /\ pc' = [pc EXCEPT ![t] = to] /\ to \in PCs
    BY <1>2 DEF Reserve, ReserveRoom, Goto, PCs
  <2>2. LockMove(t, to)
    BY <1>0, <1>2, <2>1 DEF Reserve, ReserveRoom, Goto, LockMove
  <2> QED
    BY <1>0, <2>1, <2>2, LocksFollow
<1>3. CASE CopyByte(t)
  <2> DEFINE to == IF done[t] + 1 = line[t].len THEN "rdunlock" ELSE "copy"
  <2>1. pc[t] \in {"copy"} /\ pc' = [pc EXCEPT ![t] = to] /\ to \in PCs
    BY <1>3 DEF CopyByte, Goto, locks, PCs
  <2>2. LockMove(t, to)
    BY <1>0, <1>3, <2>1 DEF CopyByte, Goto, locks, LockMove
  <2> QED
    BY <1>0, <2>1, <2>2, LocksFollow
<1>4. CASE FastReturn(t)
  <2> DEFINE to == "idle"
  <2>1. pc[t] \in {"rdunlock"} /\ pc' = [pc EXCEPT ![t] = to] /\ to \in PCs
    BY <1>4 DEF FastReturn, Goto, PCs
  <2>2. LockMove(t, to)
    BY <1>0, <1>4, <2>1 DEF FastReturn, Goto, LockMove
  <2> QED
    BY <1>0, <2>1, <2>2, LocksFollow
<1>5. CASE TooLittle(t)
  <2> DEFINE to == "fill"
  <2>1. pc[t] \in {"reserve"} /\ pc' = [pc EXCEPT ![t] = to] /\ to \in PCs
    BY <1>5 DEF TooLittle, Goto, locks, PCs
  <2>2. LockMove(t, to)
    BY <1>0, <1>5, <2>1 DEF TooLittle, Goto, locks, LockMove
  <2> QED
    BY <1>0, <2>1, <2>2, LocksFollow
<1>6. CASE FillByte(t)
  <2> DEFINE to == "fill"
  <2>1. pc[t] \in {"fill"} /\ pc' = [pc EXCEPT ![t] = to] /\ to \in PCs
    BY <1>6 DEF FillByte, AppendByte, Goto, locks, PCs
  <2>2. LockMove(t, to)
    BY <1>0, <1>6, <2>1 DEF FillByte, AppendByte, Goto, locks, LockMove
  <2> QED
    BY <1>0, <2>1, <2>2, LocksFollow
<1>7. CASE BufferFull(t)
  <2> DEFINE to == "full"
  <2>1. pc[t] \in {"fill"} /\ pc' = [pc EXCEPT ![t] = to] /\ to \in PCs
    BY <1>7 DEF BufferFull, LeaveFull, Goto, PCs
  <2>2. LockMove(t, to)
    BY <1>0, <1>7, <2>1 DEF BufferFull, LeaveFull, Goto, LockMove
  <2> QED
    BY <1>0, <2>1, <2>2, LocksFollow
<1>8. CASE FillEnd(t)
  <2> DEFINE to == IF partial[t] /\ head # 0 THEN "last" ELSE "unlock"
  <2>1. pc[t] \in {"fill", "end"} /\ pc' = [pc EXCEPT ![t] = to] /\ to \in PCs
    BY <1>8 DEF FillEnd, PCs
  <2>2. LockMove(t, to)
    BY <1>0, <1>8, <2>1 DEF FillEnd, LockMove
  <2> QED
    BY <1>0, <2>1, <2>2, LocksFollow
<1>9. CASE SlowReturn(t)
  <2> DEFINE to == "idle"
  <2>1. pc[t] \in {"unlock"} /\ pc' = [pc EXCEPT ![t] = to] /\ to \in PCs
    BY <1>9 DEF SlowReturn, Goto, PCs
  <2>2. LockMove(t, to)
    BY <1>0, <1>9, <2>1 DEF SlowReturn, Goto, LockMove
  <2> QED
    BY <1>0, <2>1, <2>2, LocksFollow
<1>10. CASE ReadLock(t)
  <2> DEFINE to == IF pc[t] = "rdlock" THEN "reserve" ELSE IF done[t] < line[t].len THEN "fill" ELSE "end"
  <2>1. pc[t] \in {"rdlock", "rdagain"} /\ pc' = [pc EXCEPT ![t] = to] /\ to \in PCs
    BY <1>10 DEF ReadLock, Goto, PCs
  <2>2. LockMove(t, to)
    BY <1>0, <1>10, <2>1 DEF ReadLock, Goto, LockMove
  <2> QED
    BY <1>0, <2>1, <2>2, LocksFollow
<1>11. CASE WriteLock(t)
  <2> DEFINE to == IF pc[t] = "full" THEN "flush" ELSE "lastflush"
  <2>1. pc[t] \in {"full", "last"} /\ pc' = [pc EXCEPT ![t] = to] /\ to \in PCs
    BY <1>11 DEF WriteLock, LockForWriting, Goto, PCs
  <2>2. LockMove(t, to)
    BY <1>0, <1>11, <2>1 DEF WriteLock, LockForWriting, Goto, LockMove
  <2> QED
    BY <1>0, <2>1, <2>2, LocksFollow
<1>12. CASE Write(t)
  <2>1. pc[t] \in Flushing /\ mutex' = mutex /\ readers' = readers
    BY <1>12 DEF Write
  <2>2. CASE UNCHANGED <<pc, writer>>
    BY <1>0, <2>1, <2>2 DEF LockState, TypeOK, ControlTypes
  <2>3. CASE FlushReturn(t)
    <3> DEFINE to == IF pc[t] = "flush" THEN "rdagain" ELSE "unlock"
    <3>1. pc' = [pc EXCEPT ![t] = to] /\ to \in PCs /\ writer' = NoThread
      BY <2>3 DEF FlushReturn, PCs
    <3>2. LockMove(t, to)
      BY <1>0, <2>1, <3>1 DEF LockMove
    <3> QED
      BY <1>0, <3>1, <3>2, LocksFollow
  <2> QED
    BY <1>12, <2>2, <2>3 DEF Write
<1> QED
  BY <1>1, <1>2, <1>3, <1>4, <1>5, <1>6, <1>7, <1>8, <1>9, <1>10, <1>11, <1>12 DEF log_buf

-----------------------------------------------------------------------------
(***************************************************************************)
(* Data: buffer, file and lines.                                           *)
(***************************************************************************)

\* write moves n bytes from the buffer to the file, in whatever order.
LEMMA WriteBytesEffect ==
  ASSUME TypeOK, NEW n \in 0..head, NEW cut \in BOOLEAN, WriteBytes(n, cut)
  PROVE  /\ head' \in 0..Size /\ head' <= head
         /\ out' \in Seq(Bytes)
         /\ short' \in BOOLEAN
<1>0. Size \in Nat /\ MaxCalls \in Nat /\ head \in 0..Size /\ out \in Seq(Bytes)
      /\ buf \in [0..Size-1 -> Bytes] /\ NoByte \in Bytes
  BY SizeAssumption DEF TypeOK, NoByte, Bytes
<1>1. head' \in 0..Size /\ head' <= head
  BY <1>0 DEF WriteBytes
<1>2. short' \in BOOLEAN
  BY DEF WriteBytes, TypeOK
<1>3. out' \in Seq(Bytes)
  <2>1. CASE short'
    <3>1. out' = [i \in 1..Len(out) + n |-> NoByte]
      BY <2>1 DEF WriteBytes
    <3>2. Len(out) + n \in Nat
      BY <1>0
    <3> QED
      BY <1>0, <3>1, <3>2
  <2>2. CASE ~short'
    <3>1. out' = out \o Buffered(n)
      BY <2>2 DEF WriteBytes
    <3>2. \A i \in 1..n : i - 1 \in 0..Size-1
      BY <1>0
    <3>3. Buffered(n) \in Seq(Bytes)
      <4>1. n \in Nat /\ \A i \in 1..n : buf[i - 1] \in Bytes
        BY <1>0, <3>2
      <4> QED
        BY <4>1 DEF Buffered
    <3> QED
      BY <1>0, <3>1, <3>3
  <2> QED
    BY <2>1, <2>2
<1> QED
  BY <1>1, <1>2, <1>3

\* One thread that copies a byte to a place of the buffer.
LEMMA StoreByte ==
  ASSUME TypeOK, NEW t \in Threads, done[t] < line[t].len, NEW i \in 0..Size-1,
         buf' = [buf EXCEPT ![i] = NextByte(t)], done' = [done EXCEPT ![t] = @ + 1]
  PROVE  /\ buf' \in [0..Size-1 -> Bytes] /\ done' \in [Threads -> 0..Size]
         /\ \A u \in Threads : done'[u] = IF u = t THEN done[t] + 1 ELSE done[u]
<1>1. done[t] \in Nat /\ line[t].call \in 0..MaxCalls /\ line[t].len \in 0..Size /\ Size \in Nat
  BY SizeAssumption DEF TypeOK, Lines
<1>2. done[t] + 1 \in 0..Size
  BY <1>1
<1>3. NextByte(t) \in Bytes
  BY <1>1, <1>2 DEF NextByte, Bytes
<1> QED
  BY <1>2, <1>3 DEF TypeOK

\* Moves that only touch locks: nobody's line changes.
LEMMA QuietData ==
  ASSUME LogInv, NEW t \in Threads,
         \/ LockMutex(t) \/ ReadLock(t) \/ FastReturn(t) \/ TooLittle(t) \/ BufferFull(t)
         \/ FillEnd(t) \/ SlowReturn(t) \/ WriteLock(t)
  PROVE  DataTypes' /\ LineState'
<1>1. /\ UNCHANGED <<head, buf, out, line, done, logged, overlap, short>>
      /\ partial' \in {partial, [partial EXCEPT ![t] = TRUE]}
  BY DEF LockMutex, ReadLock, FastReturn, TooLittle, BufferFull, LeaveFull, FillEnd,
         SlowReturn, WriteLock, LockForWriting
<1>2. \A u \in Threads :
        /\ pc'[u] = "copy" => pc[u] = "copy"
        /\ pc'[u] \in {"mutex", "rdlock", "reserve"} => pc[u] \in {"mutex", "rdlock", "reserve"}
  <2>1. pc \in [Threads -> PCs]
    BY DEF LogInv, TypeOK
  <2>2. \E to \in PCs : /\ pc' = [pc EXCEPT ![t] = to] /\ to # "copy" /\ to # "mutex"
                        /\ to = "rdlock" => pc[t] = "mutex"
                        /\ to = "reserve" => pc[t] = "rdlock"
    <3>1. CASE LockMutex(t)
      BY <3>1 DEF LockMutex, Goto, PCs
    <3>2. CASE ReadLock(t)
      BY <3>2 DEF ReadLock, Goto, PCs
    <3>3. CASE FastReturn(t) \/ TooLittle(t) \/ BufferFull(t) \/ SlowReturn(t)
      BY <3>3 DEF FastReturn, TooLittle, BufferFull, LeaveFull, SlowReturn, Goto, PCs
    <3>4. CASE FillEnd(t)
      BY <3>4 DEF FillEnd, PCs
    <3>5. CASE WriteLock(t)
      BY <3>5 DEF WriteLock, LockForWriting, Goto, PCs
    <3> QED
      BY <3>1, <3>2, <3>3, <3>4, <3>5
  <2> QED
    BY <2>1, <2>2
<1>3. DataTypes'
  <2>1. partial' \in [Threads -> BOOLEAN]
    BY <1>1 DEF LogInv, TypeOK
  <2> QED
    BY <1>1, <2>1 DEF LogInv, TypeOK, DataTypes
<1>4. LineState'
  BY <1>1, <1>2 DEF LogInv, LineState
<1> QED
  BY <1>3, <1>4

\* Room is reserved for the whole line, below the new buf_head.
LEMMA ReserveData ==
  ASSUME LogInv, NEW t \in Threads, Reserve(t) PROVE DataTypes' /\ LineState'
<1>1. /\ head + line[t].len < Size /\ pc[t] = "reserve" /\ pc' = [pc EXCEPT ![t] = "copy"]
      /\ head' = head + line[t].len
      /\ UNCHANGED <<buf, out, line, done, partial, logged, overlap, short>>
  BY DEF Reserve, ReserveRoom, Fits, Goto
<1>2. /\ Size \in Nat /\ head \in 0..Size /\ pc \in [Threads -> PCs]
      /\ \A u \in Threads : line[u].len \in 0..Size /\ done[u] \in 0..Size
  BY SizeAssumption DEF LogInv, TypeOK, Lines
<1>3. head' \in 0..Size /\ head' >= head
  BY <1>1, <1>2
<1>4. DataTypes'
  BY <1>1, <1>3 DEF LogInv, TypeOK, DataTypes
<1>5. LineState'
  <2> SUFFICES ASSUME NEW u \in Threads
               PROVE  /\ done[u] <= line[u].len
                      /\ pc'[u] \in {"mutex", "rdlock", "reserve"} =>
                           done[u] = 0 /\ line[u].len > 0
                      /\ pc'[u] = "copy" =>
                           done[u] < line[u].len /\ line[u].len - done[u] <= head'
    BY <1>1 DEF LineState
  <2>1. CASE u = t
    BY <1>1, <1>2, <2>1 DEF LogInv, LineState
  <2>2. CASE u # t
    BY <1>1, <1>2, <1>3, <2>2 DEF LogInv, LineState
  <2> QED
    BY <2>1, <2>2
<1> QED
  BY <1>4, <1>5

\* The copy stays below buf_head, wherever others have moved it.
LEMMA CopyData ==
  ASSUME LogInv, NEW t \in Threads, CopyByte(t) PROVE DataTypes' /\ LineState'
<1>1. /\ pc[t] = "copy"
      /\ pc' = [pc EXCEPT ![t] = IF done[t] + 1 = line[t].len THEN "rdunlock" ELSE "copy"]
      /\ buf' = [buf EXCEPT ![CopyTarget(t)] = NextByte(t)]
      /\ done' = [done EXCEPT ![t] = @ + 1]
      /\ UNCHANGED <<head, out, line, partial, logged, overlap, short>>
      /\ done[t] < line[t].len
  BY DEF CopyByte, Goto
<1>2. /\ Size \in Nat /\ head \in 0..Size /\ pc \in [Threads -> PCs]
      /\ \A u \in Threads : line[u].len \in 0..Size /\ done[u] \in 0..Size
  BY SizeAssumption DEF LogInv, TypeOK, Lines
<1>3. CopyTarget(t) \in 0..Size-1
  BY <1>1, <1>2 DEF LogInv, LineState, CopyTarget
<1>4. /\ buf' \in [0..Size-1 -> Bytes] /\ done' \in [Threads -> 0..Size]
      /\ \A u \in Threads : done'[u] = IF u = t THEN done[t] + 1 ELSE done[u]
  BY <1>1, <1>3, StoreByte DEF LogInv
<1>5. DataTypes'
  BY <1>1, <1>4 DEF LogInv, TypeOK, DataTypes
<1>6. LineState'
  <2> SUFFICES ASSUME NEW u \in Threads
               PROVE  /\ done'[u] <= line[u].len
                      /\ pc'[u] \in {"mutex", "rdlock", "reserve"} =>
                           done'[u] = 0 /\ line[u].len > 0
                      /\ pc'[u] = "copy" =>
                           done'[u] < line[u].len /\ line[u].len - done'[u] <= head
    BY <1>1 DEF LineState
  <2>1. CASE u = t
    BY <1>1, <1>2, <1>4, <2>1 DEF LogInv, LineState
  <2>2. CASE u # t
    BY <1>1, <1>2, <1>4, <2>2 DEF LogInv, LineState
  <2> QED
    BY <2>1, <2>2
<1> QED
  BY <1>5, <1>6

\* The slow path stores at buf_head and moves it, up to the end of the buffer.
LEMMA FillData ==
  ASSUME LogInv, NEW t \in Threads, FillByte(t) PROVE DataTypes' /\ LineState'
<1>1. /\ pc[t] = "fill" /\ pc' = [pc EXCEPT ![t] = "fill"] /\ head # Size
      /\ buf' = [buf EXCEPT ![head] = NextByte(t)] /\ head' = head + 1
      /\ done' = [done EXCEPT ![t] = @ + 1]
      /\ UNCHANGED <<out, line, partial, logged, overlap, short>>
      /\ done[t] < line[t].len
  BY DEF FillByte, AppendByte, Goto
<1>2. /\ Size \in Nat /\ head \in 0..Size /\ pc \in [Threads -> PCs]
      /\ \A u \in Threads : line[u].len \in 0..Size /\ done[u] \in 0..Size
  BY SizeAssumption DEF LogInv, TypeOK, Lines
<1>3. head \in 0..Size-1 /\ head' \in 0..Size
  BY <1>1, <1>2
<1>4. /\ buf' \in [0..Size-1 -> Bytes] /\ done' \in [Threads -> 0..Size]
      /\ \A u \in Threads : done'[u] = IF u = t THEN done[t] + 1 ELSE done[u]
  BY <1>1, <1>3, StoreByte DEF LogInv
<1>5. DataTypes'
  BY <1>1, <1>3, <1>4 DEF LogInv, TypeOK, DataTypes
<1>6. LineState'
  <2> SUFFICES ASSUME NEW u \in Threads
               PROVE  /\ done'[u] <= line[u].len
                      /\ pc'[u] \in {"mutex", "rdlock", "reserve"} =>
                           done'[u] = 0 /\ line[u].len > 0
                      /\ pc'[u] = "copy" =>
                           done'[u] < line[u].len /\ line[u].len - done'[u] <= head'
    BY <1>1 DEF LineState
  <2>1. CASE u = t
    BY <1>1, <1>2, <1>4, <2>1 DEF LogInv, LineState
  <2>2. CASE u # t
    BY <1>1, <1>2, <1>4, <2>2 DEF LogInv, LineState
  <2> QED
    BY <2>1, <2>2
<1> QED
  BY <1>5, <1>6

\* buf_head moves back only while nobody copies.
LEMMA WriteData ==
  ASSUME LogInv, NEW t \in Threads, Write(t) PROVE DataTypes' /\ LineState'
<1>1. /\ pc[t] \in Flushing
      /\ UNCHANGED <<buf, line, done, partial, logged, overlap>>
      /\ \/ pc' = pc
         \/ pc' = [pc EXCEPT ![t] = IF pc[t] = "flush" THEN "rdagain" ELSE "unlock"]
  BY DEF Write, FlushReturn, Flushing
<1>2. PICK n \in 0..head : WriteBytes(n, n # head)
  BY DEF Write
<1>3. head' \in 0..Size /\ out' \in Seq(Bytes) /\ short' \in BOOLEAN
  BY <1>2, WriteBytesEffect DEF LogInv
<1>4. \A u \in Threads : pc[u] # "copy"
  <2>1. writer = t /\ NoThread \notin Threads
    BY <1>1, ThreadsAssumption DEF LogInv, LockState
  <2>2. readers = {}
    BY <2>1 DEF LogInv, LockState
  <2> QED
    BY <2>2 DEF LogInv, LockState, Sharing
<1>5. DataTypes'
  BY <1>1, <1>3 DEF LogInv, TypeOK, DataTypes
<1>6. \A u \in Threads :
        /\ pc'[u] # "copy"
        /\ pc'[u] \in {"mutex", "rdlock", "reserve"} => pc[u] \in {"mutex", "rdlock", "reserve"}
  BY <1>1, <1>4 DEF LogInv, TypeOK
<1>7. LineState'
  BY <1>1, <1>6 DEF LogInv, LineState
<1> QED
  BY <1>5, <1>7

\* log_buf keeps the invariant.
LEMMA LogBufInv == ASSUME LogInv, NEW t \in Threads, log_buf(t) PROVE LogInv'
<1>1. LockState' /\ ControlTypes'
  BY LocksStep
<1>2. DataTypes' /\ LineState'
  BY QuietData, ReserveData, CopyData, FillData, WriteData DEF log_buf
<1> QED
  BY <1>1, <1>2, TypeHalves DEF LogInv, TypeOK, ControlTypes, DataTypes

\* A new call of log_buf: a line of at least one byte, none of it copied.
LEMMA CallLogInv == ASSUME LogInv, NEW t \in Threads, Call(t) PROVE LogInv'
<1>1. /\ pc[t] = "idle" /\ pc' = [pc EXCEPT ![t] = "mutex"]
      /\ UNCHANGED <<head, buf, out, mutex, readers, writer, short>>
      /\ done' = [done EXCEPT ![t] = 0]
      /\ partial' = [partial EXCEPT ![t] = FALSE]
      /\ overlap' = (overlap \/ \E u \in Threads : pc[u] # "idle")
      /\ Len(logged) < MaxCalls
  BY DEF Call, Goto, locks
<1>2. PICK n \in Lens : /\ line' = [line EXCEPT ![t] = [call |-> Len(logged) + 1, len |-> n]]
                        /\ logged' = Append(logged, [call |-> Len(logged) + 1, len |-> n])
  BY DEF Call
<1>3. n \in 1..Size /\ Size \in Nat /\ MaxCalls \in Nat
  BY LensAssumption, SizeAssumption
<1>4. [call |-> Len(logged) + 1, len |-> n] \in Lines
  <2>1. Len(logged) \in Nat
    BY DEF LogInv, TypeOK
  <2> QED
    BY <1>1, <1>3, <2>1 DEF Lines
<1>5. LockState' /\ ControlTypes'
  <2>1. LockMove(t, "mutex") /\ "mutex" \in PCs /\ TypeOK /\ LockState
    BY <1>1 DEF LogInv, LockState, LockMove, Holding, Sharing, Flushing, PCs, TypeOK
  <2> QED
    BY <2>1, LocksFollow
<1>6. DataTypes'
  <2>1. overlap' \in BOOLEAN /\ short' \in BOOLEAN
    BY <1>1 DEF LogInv, TypeOK
  <2>2. partial' \in [Threads -> BOOLEAN]
    BY <1>1 DEF LogInv, TypeOK
  <2>3. done' \in [Threads -> 0..Size]
    BY <1>1, <1>3 DEF LogInv, TypeOK
  <2>4. line' \in [Threads -> Lines] /\ logged' \in Seq(Lines)
    BY <1>2, <1>4 DEF LogInv, TypeOK
  <2>5. head' \in 0..Size /\ buf' \in [0..Size-1 -> Bytes] /\ out' \in Seq(Bytes)
    BY <1>1 DEF LogInv, TypeOK
  <2> QED
    BY <2>1, <2>2, <2>3, <2>4, <2>5 DEF DataTypes
<1>7. LineState'
  <2>1. ASSUME NEW u \in Threads, u # t
        PROVE  pc'[u] = pc[u] /\ done'[u] = done[u] /\ line'[u] = line[u]
    BY <1>1, <1>2, <2>1 DEF LogInv, TypeOK
  <2>2. pc'[t] = "mutex" /\ done'[t] = 0 /\ line'[t].len = n
    BY <1>1, <1>2 DEF LogInv, TypeOK
  <2> SUFFICES ASSUME NEW u \in Threads
               PROVE  /\ done'[u] <= line'[u].len
                      /\ pc'[u] \in {"mutex", "rdlock", "reserve"} =>
                           done'[u] = 0 /\ line'[u].len > 0
                      /\ pc'[u] = "copy" =>
                           done'[u] < line'[u].len /\ line'[u].len - done'[u] <= head'
    BY DEF LineState
  <2>3. CASE u = t
    BY <1>3, <2>2, <2>3
  <2>4. CASE u # t
    BY <1>1, <2>1, <2>4 DEF LogInv, LineState
  <2> QED
    BY <2>3, <2>4
<1> QED
  BY <1>5, <1>6, <1>7, TypeHalves DEF LogInv, TypeOK, ControlTypes, DataTypes

\* destroy_log, when every call has returned.
LEMMA DestroyInv == ASSUME LogInv, destroy_log PROVE LogInv'
<1>1. /\ \A t \in Threads : pc[t] = "idle"
      /\ pc' = [t \in Threads |-> "closed"]
      /\ UNCHANGED <<buf, mutex, readers, writer, line, done, partial, logged, overlap>>
  BY DEF destroy_log, locks
<1>2. PICK n \in 0..head, cut \in BOOLEAN : WriteBytes(n, cut)
  BY DEF destroy_log
<1>3. head' \in 0..Size /\ out' \in Seq(Bytes) /\ short' \in BOOLEAN
  BY <1>2, WriteBytesEffect DEF LogInv
<1>4. ControlTypes' /\ LockState'
  BY <1>1 DEF LogInv, TypeOK, ControlTypes, LockState, PCs, Holding, Sharing, Flushing
<1>5. DataTypes'
  BY <1>1, <1>3 DEF LogInv, TypeOK, DataTypes
<1>6. LineState'
  BY <1>1 DEF LogInv, LineState
<1> QED
  BY <1>4, <1>5, <1>6, TypeHalves DEF LogInv, TypeOK, ControlTypes, DataTypes

\* The invariant holds in every state of every run.
LEMMA LogInvHolds == Spec => []LogInv
<1>1. Init => LogInv
  BY InitLog
<1>2. LogInv /\ [Next]_vars => LogInv'
  <2> SUFFICES ASSUME LogInv, [Next]_vars PROVE LogInv'
    OBVIOUS
  <2>1. CASE \E t \in Threads : Call(t) \/ log_buf(t)
    BY <2>1, CallLogInv, LogBufInv
  <2>2. CASE destroy_log
    BY <2>2, DestroyInv
  <2>3. CASE UNCHANGED vars
    BY <2>3 DEF vars, locks, LogInv, TypeOK, LockState, LineState
  <2> QED
    BY <2>1, <2>2, <2>3 DEF Next
<1> QED
  BY <1>1, <1>2, PTL DEF Spec

-----------------------------------------------------------------------------
(***************************************************************************)
(* The theorems.                                                           *)
(***************************************************************************)

\* buf_head never leaves the buffer, and every byte stored lies inside it.
THEOREM LoggerTypes == Spec => []TypeOK
<1>1. LogInv => TypeOK
  BY DEF LogInv
<1> QED
  BY <1>1, LogInvHolds, PTL

\* The copy loop of log_buf stays in the used part of the buffer.
THEOREM CopiesStayInBounds == Spec => []CopyInBounds
<1>1. LogInv => CopyInBounds
  <2> SUFFICES ASSUME LogInv, NEW t \in Threads, pc[t] = "copy"
               PROVE  CopyTarget(t) \in 0..head-1
    BY DEF CopyInBounds
  <2>1. /\ done[t] < line[t].len /\ line[t].len - done[t] <= head
        /\ done[t] \in Nat /\ line[t].len \in Nat /\ head \in Nat
    BY SizeAssumption DEF LogInv, LineState, TypeOK, Lines
  <2> QED
    BY <2>1 DEF CopyTarget
<1> QED
  BY <1>1, LogInvHolds, PTL

\* flush_logger never runs while a line is being copied, by either path.
THEOREM FlushesExcludeCopies == Spec => []FlushExcludesCopy
<1>1. LogInv => FlushExcludesCopy
  BY DEF LogInv, LockState, FlushExcludesCopy, Sharing
<1> QED
  BY <1>1, LogInvHolds, PTL
=============================================================================
