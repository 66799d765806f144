------------------------------ MODULE SharedFile ------------------------------
(***************************************************************************)
(* server.c: several requests on ONE file.                                 *)
(*                                                                         *)
(* RequestHandler has one request and a file nobody else touches.  Here    *)
(* the requests are cut at the system calls they make on the file, and any *)
(* number of workers interleaves them.  A PUT opens the file for           *)
(* truncation, creates it if that finds none (a second call, WITHOUT       *)
(* truncation), and writes the body in pieces at its descriptor's own      *)
(* offset.  A GET looks at the file, opens it, asks for its size, and      *)
(* reads up to the end of the file as it is then.  No lock is taken and    *)
(* no file is ever removed.                                                *)
(*                                                                         *)
(* A byte is the pair of who wrote it and its place in that body; a write  *)
(* beyond the end of a file that was truncated meanwhile leaves a Hole.    *)
(***************************************************************************)
EXTENDS Naturals, Sequences, FiniteSetsExt

CONSTANTS
  Puts, Gets,   \* the requests
  BodyLen,      \* BodyLen[p]: length of the body of PUT p
  OldLens,      \* lengths the file may have before the first request
  Old, Hole,    \* sources of bytes that no PUT wrote
  NoPut         \* no PUT yet

ASSUME RequestsAssumption ==
  Puts \cap Gets = {} /\ {Old, Hole, NoPut} \cap (Puts \cup Gets) = {} /\ Old # Hole
ASSUME BodyLenAssumption == BodyLen \in [Puts -> Nat] /\ OldLens \subseteq Nat

VARIABLES
  exists, content,   \* the file
  pc,                \* where each request is
  status,            \* status[r]: the status of r's answer, "none" without one
  off,               \* offset of r's descriptor
  promised, sent,    \* Content-Length and body of the answers to GETs
  latest,            \* history: the PUT that began last
  clash,             \* history: clash[p]: another PUT was under way during p
  torn               \* history: torn[g]: a PUT was under way while g had the file open

fileVars == <<exists, content>>
getVars == <<promised, sent>>
history == <<latest, clash, torn>>
vars == <<fileVars, pc, status, off, getVars, history>>

Requests == Puts \cup Gets
Text(s, n) == [i \in 1..n |-> <<s, i>>]
Bytes == (Puts \cup {Old, Hole}) \X Nat

TypeOK ==
  /\ exists \in BOOLEAN /\ content \in Seq(Bytes)
  /\ pc \in [Requests -> {"begin", "create", "write", "open", "size", "read", "done"}]
  /\ status \in [Requests -> {"none", "OK", "CREATED", "NOT_FOUND", "INTERNAL_ERROR"}]
  /\ off \in [Requests -> Nat]
  /\ promised \in [Gets -> Nat] /\ sent \in [Gets -> Seq(Bytes)]
  /\ latest \in Puts \cup {NoPut}
  /\ clash \in [Puts -> BOOLEAN] /\ torn \in [Gets -> BOOLEAN]

Init ==
  /\ \/ exists = FALSE /\ content = <<>>
     \/ exists = TRUE /\ \E n \in OldLens : content = Text(Old, n)
  /\ pc = [r \in Requests |-> "begin"]
  /\ status = [r \in Requests |-> "none"]
  /\ off = [r \in Requests |-> 0]
  /\ promised = [g \in Gets |-> 0] /\ sent = [g \in Gets |-> <<>>]
  /\ latest = NoPut
  /\ clash = [p \in Puts |-> FALSE] /\ torn = [g \in Gets |-> FALSE]

Goto(r, from, to) == pc[r] = from /\ pc' = [pc EXCEPT ![r] = to]
Answer(r, s) == status' = [status EXCEPT ![r] = s]

-----------------------------------------------------------------------------
(***************************************************************************)
(* PUT: create_filename and the writes of read_request_body.               *)
(***************************************************************************)
Writing == {p \in Puts : pc[p] \in {"create", "write"}}
Reading == {g \in Gets : pc[g] \in {"size", "read"}}

\* What the history variables note when PUT p begins.
Begin(p) ==
  /\ latest' = p
  /\ clash' = [q \in Puts |-> clash[q] \/ (Writing # {} /\ q \in Writing \cup {p})]
  /\ torn' = [g \in Gets |-> torn[g] \/ g \in Reading]

\* A PUT whose file is open writes its body, if it has one.
Opened(p) == IF BodyLen[p] = 0 THEN "done" ELSE "write"

\* PUT p opens a file that is there, with contents `text` afterwards.
OpenWith(p, text) ==
  /\ exists
  /\ Goto(p, "begin", Opened(p))
  /\ content' = text
  /\ Answer(p, "OK")
  /\ Begin(p)
  /\ UNCHANGED <<exists, off, getVars>>

\* Faulty variant: the file is not truncated.
Bug_OpenTruncate(p) == OpenWith(p, content)

\* open(O_WRONLY | O_TRUNC) of a file that is there ...
OpenTruncate(p) == OpenWith(p, <<>>)

\* ... and of one that is not (ENOENT).
OpenMissing(p) ==
  /\ ~exists
  /\ Goto(p, "begin", "create")
  /\ Begin(p)
  /\ UNCHANGED <<fileVars, status, off, getVars>>

\* PUT p opens a file that it found missing, with contents `text` afterwards.
CreateWith(p, text) ==
  /\ Goto(p, "create", Opened(p))
  /\ exists' = TRUE
  /\ content' = text
  /\ Answer(p, "CREATED")
  /\ UNCHANGED <<off, getVars, history>>

\* Faulty variant: the second open truncates, too.
Bug_Create(p) == CreateWith(p, <<>>)

\* open(O_CREAT | O_WRONLY): creates the file, or opens the one that another
\* PUT has created in the meantime; 201 in either case.
Create(p) == CreateWith(p, content)

\* The file after bytes k+1 .. k+n of p's body were written at offset `at`.
Written(p, at, k, n) ==
  [i \in 1..Max({Len(content), at + n}) |->
     IF i \in at + 1 .. at + n THEN <<p, i - at + k>>
     ELSE IF i <= Len(content) THEN content[i] ELSE <<Hole, i>>]

\* One write of n bytes; the last one ends the PUT.
WritePiece(p, at, n) ==
  /\ n \in 1..BodyLen[p] - off[p]
  /\ Goto(p, "write", IF off[p] + n = BodyLen[p] THEN "done" ELSE "write")
  /\ content' = Written(p, at, off[p], n)
  /\ off' = [off EXCEPT ![p] = @ + n]
  /\ UNCHANGED <<exists, status, getVars, history>>

\* Faulty variant: writes go to the end of the file.
Bug_Write(p, n) == WritePiece(p, Len(content), n)

\* write at the descriptor's own offset.
Write(p, n) == WritePiece(p, off[p], n)

\* The client goes away (no answer), or a read or a write fails.
PutStops(p) ==
  /\ Goto(p, "write", "done")
  /\ \E s \in {"none", "INTERNAL_ERROR"} : Answer(p, s)
  /\ UNCHANGED <<fileVars, off, getVars, history>>

-----------------------------------------------------------------------------
(***************************************************************************)
(* GET: open_get_file, file_size, read_get_body.                           *)
(***************************************************************************)

\* lstat.
Lstat(g) ==
  /\ Goto(g, "begin", IF exists THEN "open" ELSE "done")
  /\ Answer(g, IF exists THEN "OK" ELSE "NOT_FOUND")
  /\ UNCHANGED <<fileVars, off, getVars, history>>

OpenGet(g) ==
  /\ Goto(g, "open", "size")
  /\ torn' = [torn EXCEPT ![g] = Writing # {}]
  /\ UNCHANGED <<fileVars, status, off, getVars, latest, clash>>

\* GET g promises n bytes and reads from offset `at` on.
SizeWith(g, n, at) ==
  /\ Goto(g, "size", "read")
  /\ promised' = [promised EXCEPT ![g] = n]
  /\ off' = [off EXCEPT ![g] = at]
  /\ UNCHANGED <<fileVars, status, sent, history>>

\* Faulty variants: the last byte is not counted; the offset stays at the end.
Bug_FileSizeShort(g) == SizeWith(g, Len(content) - 1, 0)
Bug_FileSizeStays(g) == SizeWith(g, Len(content), Len(content))

\* file_size: to the end and back.
FileSize(g) == SizeWith(g, Len(content), 0)

\* read_get_body reads n of the bytes that are there now.
ReadPiece(g, n) ==
  /\ n \in 1..Len(content) - off[g]
  /\ Goto(g, "read", "read")
  /\ sent' = [sent EXCEPT ![g] = @ \o SubSeq(content, off[g] + 1, off[g] + n)]
  /\ off' = [off EXCEPT ![g] = @ + n]
  /\ UNCHANGED <<fileVars, status, promised, history>>

\* The end of the file, wherever it is now.
ReadEnd(g) ==
  /\ off[g] >= Len(content)
  /\ Goto(g, "read", "done")
  /\ UNCHANGED <<fileVars, status, off, getVars, history>>

\* The client goes away, or reading fails: too late for another answer.
GetStops(g) ==
  /\ Goto(g, "read", "done")
  /\ Answer(g, "none")
  /\ UNCHANGED <<fileVars, off, getVars, history>>

\* No text is longer.
MaxPiece == Max({BodyLen[p] : p \in Puts} \cup OldLens)

Next ==
  \/ \E p \in Puts :
       \/ OpenTruncate(p) \/ OpenMissing(p) \/ Create(p) \/ PutStops(p)
       \/ \E n \in 1..MaxPiece : Write(p, n)
  \/ \E g \in Gets :
       \/ Lstat(g) \/ OpenGet(g) \/ FileSize(g) \/ ReadEnd(g) \/ GetStops(g)
       \/ \E n \in 1..MaxPiece : ReadPiece(g, n)

Spec == Init /\ [][Next]_vars

-----------------------------------------------------------------------------
(***************************************************************************)
(* Properties.                                                             *)
(***************************************************************************)
Acked(p) == pc[p] = "done" /\ status[p] \in {"OK", "CREATED"}

\* A PUT that was answered with 200 or 201 and that no other PUT overlapped
\* has, as long as none followed it, left exactly its body in the file
\* (nothing of longer old contents, of an aborted PUT or of an earlier one
\* remains); and if it was told 201 no other PUT was.
SoloPutStored ==
  \A p \in Puts : (Acked(p) /\ ~clash[p]) =>
    /\ latest = p => content = Text(p, BodyLen[p])
    /\ status[p] = "CREATED" => \A q \in Puts \ {p} : status[q] # "CREATED"

\* Whatever overlaps, the PUT that began last, once answered with 200 or 201,
\* has left no gap: each place of its body holds its byte or that of a PUT
\* that overlapped another.  (Nobody truncates the file after it began: the
\* open that creates does not.)
LatestPutCovers ==
  \A p \in Puts : (latest = p /\ Acked(p)) =>
    /\ Len(content) >= BodyLen[p]
    /\ \A i \in 1..BodyLen[p] :
         content[i][1] = p \/ \E q \in Puts : clash[q] /\ content[i] = <<q, i>>

\* Bytes stay in their place: however PUTs and GETs overlap, byte i of the
\* file and of every answer is byte i of some body (or of the old file), and
\* there are holes only after PUTs that overlapped.
BytesInPlace ==
  \A s \in {content} \cup {sent[g] : g \in Gets} : \A i \in DOMAIN s :
    s[i][2] = i /\ (s[i][1] = Hole => \E p \in Puts : clash[p])

\* A GET that had the file open while no PUT was under way sends as many bytes
\* as it promised; if no PUTs ever overlapped these are from one source, and
\* all there is of it unless that PUT was cut short.
UntornRead ==
  \A g \in Gets : (pc[g] = "done" /\ status[g] = "OK" /\ ~torn[g]) =>
    /\ Len(sent[g]) = promised[g]
    /\ (\A p \in Puts : ~clash[p]) =>
         \E s \in Puts \cup {Old} :
           /\ sent[g] = Text(s, Len(sent[g]))
           /\ s \in Puts /\ Acked(s) => Len(sent[g]) = BodyLen[s]
=============================================================================
