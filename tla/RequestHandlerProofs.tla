------------------------- MODULE RequestHandlerProofs -------------------------
(***************************************************************************)
(* server.c answers correctly for every set of requests, every size of the *)
(* buffers and every way the network cuts a request up: no byte of a body  *)
(* is lost or written twice, the answer is the one the request deserves,   *)
(* its Content-Length is honest, files are open when they are used and     *)
(* closed at the end, and the client sees at most one answer.              *)
(***************************************************************************)
EXTENDS RequestHandler, SequenceTheorems, WellFoundedInduction, TLAPS

-----------------------------------------------------------------------------
(***************************************************************************)
(* Minima, maxima and the layout of a request.                             *)
(***************************************************************************)

\* The smaller of two bounds of a read.
LEMMA MinTwo ==
  ASSUME NEW a \in Int, NEW b \in Int
  PROVE  Min({a, b}) = IF a <= b THEN a ELSE b
<1>1. CASE a <= b
  <2>1. \A x \in {a, b} : (\A y \in {a, b} : x <= y) => x = a
    BY <1>1
  <2>2. a \in {a, b} /\ \A y \in {a, b} : a <= y
    BY <1>1
  <2> QED
    BY <1>1, <2>1, <2>2 DEF Min
<1>2. CASE ~(a <= b)
  <2>1. \A x \in {a, b} : (\A y \in {a, b} : x <= y) => x = b
    BY <1>2
  <2>2. b \in {a, b} /\ \A y \in {a, b} : b <= y
    BY <1>2
  <2> QED
    BY <1>2, <2>1, <2>2 DEF Min
<1> QED
  BY <1>1, <1>2

\* The smallest of three bounds of a read.
LEMMA MinThree ==
  ASSUME NEW a \in Int, NEW b \in Int, NEW c \in Int
  PROVE  LET m == Min({a, b, c})
         IN  m \in {a, b, c} /\ m <= a /\ m <= b /\ m <= c
<1>1. \E x \in {a, b, c} : \A y \in {a, b, c} : x <= y
  <2>1. CASE a <= b /\ a <= c
    BY <2>1
  <2>2. CASE b <= a /\ b <= c
    BY <2>2
  <2>3. CASE c <= a /\ c <= b
    BY <2>3
  <2> QED
    BY <2>1, <2>2, <2>3
<1>2. Min({a, b, c}) \in {a, b, c} /\ \A y \in {a, b, c} : Min({a, b, c}) <= y
  BY <1>1 DEF Min
<1> QED
  BY <1>2

\* A set of line numbers has a largest one.
LEMMA MaxOfLines ==
  ASSUME NEW n \in Nat, NEW S \in SUBSET (1..n), S # {}
  PROVE  Max(S) \in S /\ \A y \in S : Max(S) >= y
<1> DEFINE T == {j \in Nat : n - j \in S}
<1>1. T \subseteq Nat
  OBVIOUS
<1>2. T # {}
  <2>1. PICK k \in S : TRUE
    OBVIOUS
  <2>2. n - k \in Nat /\ n - (n - k) = k
    OBVIOUS
  <2> QED
    BY <2>2
<1>3. PICK x \in T : \A y \in T : ~(<<y, x>> \in OpToRel(<, Nat))
  BY <1>1, <1>2, NatLessThanWellFounded, WFMin
<1>4. \A y \in T : <<y, x>> \in OpToRel(<, Nat) <=> y < x
  BY <1>1 DEF OpToRel
<1>5. \A y \in T : x <= y
  <2>1. x \in Nat /\ \A y \in T : y \in Nat /\ ~(y < x)
    BY <1>3, <1>4
  <2> QED
    BY <2>1
<1>6. \A y \in S : n - x >= y
  <2> SUFFICES ASSUME NEW y \in S PROVE n - x >= y
    OBVIOUS
  <2>1. n - y \in Nat /\ n - (n - y) = y
    OBVIOUS
  <2>2. n - y \in T
    BY <2>1
  <2> QED
    BY <1>1, <1>5, <2>2
<1>7. n - x \in S
  OBVIOUS
<1>8. \E m \in S : \A y \in S : m >= y
  BY <1>6, <1>7
<1> QED
  BY <1>8 DEF Max

\* Every line has a place, and all but the empty line end before the head does.
LEMMA Layout ==
  ASSUME input \in Inputs
  PROVE  /\ input.rl \in RequestLines /\ input.hfs \in Seq(HeaderLines)
         /\ Len(input.hfs) \in Nat /\ input.body \in Nat /\ input.file \in FileStates
         /\ DOMAIN input.hfs = 1..Len(input.hfs)
         /\ \A k \in 1..Len(input.hfs) : input.hfs[k] \in HeaderLines
         /\ HeadEnd \in Nat
         /\ \A k \in 1..(Len(input.hfs) + 2) : LineEnd(k) \in Nat /\ LineEnd(k) <= HeadEnd
         /\ LineEnd(Len(input.hfs) + 2) = HeadEnd
<1>1. /\ input.rl \in RequestLines /\ input.hfs \in Seq(HeaderLines)
      /\ input.body \in Nat /\ input.file \in FileStates
  BY InputsAssumption DEF InputType
<1>2. Len(input.hfs) \in Nat /\ DOMAIN input.hfs = 1..Len(input.hfs)
      /\ \A k \in 1..Len(input.hfs) : input.hfs[k] \in HeaderLines
  BY <1>1, LenProperties, ElementOfSeq
<1>3. /\ input.rl.len \in Nat
      /\ \A k \in 1..Len(input.hfs) : input.hfs[k].end \in Nat
      /\ \A k \in 1..Len(input.hfs) : /\ input.hfs[k].end > input.rl.len + 2
                                      /\ \A l \in 1..(k - 1) :
                                           input.hfs[k].end > input.hfs[l].end + 2
  BY <1>1, <1>2, InputsAssumption DEF RequestLines, HeaderLines
<1>4. ASSUME NEW n \in 0..Len(input.hfs)
      PROVE  FieldEnd(n) \in Nat /\ FieldEnd(n) <= FieldEnd(Len(input.hfs))
  <2>1. CASE n = Len(input.hfs)
    BY <1>2, <1>3, <2>1 DEF FieldEnd
  <2>2. CASE n = 0 /\ n # Len(input.hfs)
    <3>1. Len(input.hfs) \in 1..Len(input.hfs) /\ Len(input.hfs) # 0
      BY <1>2, <2>2
    <3> QED
      BY <1>3, <2>2, <3>1 DEF FieldEnd
  <2>3. CASE n # 0 /\ n # Len(input.hfs)
    <3>1. /\ Len(input.hfs) \in 1..Len(input.hfs) /\ Len(input.hfs) # 0
          /\ n \in 1..(Len(input.hfs) - 1) /\ n \in 1..Len(input.hfs)
      BY <1>2, <2>3
    <3>2. /\ input.hfs[Len(input.hfs)].end > input.hfs[n].end + 2
          /\ input.hfs[n].end \in Nat /\ input.hfs[Len(input.hfs)].end \in Nat
      BY <1>3, <3>1
    <3> QED
      BY <2>3, <3>1, <3>2 DEF FieldEnd
  <2> QED
    BY <2>1, <2>2, <2>3
<1>5. HeadEnd = FieldEnd(Len(input.hfs)) + 2
  BY DEF HeadEnd, LineEnd
<1>6. FieldEnd(Len(input.hfs)) \in Nat
  BY <1>2, <1>4
<1>7. ASSUME NEW k \in 1..(Len(input.hfs) + 2)
      PROVE  LineEnd(k) \in Nat /\ LineEnd(k) <= HeadEnd
  <2>1. CASE k = Len(input.hfs) + 2
    BY <1>5, <1>6, <2>1 DEF LineEnd
  <2>2. CASE k # Len(input.hfs) + 2
    <3>1. LineEnd(k) = FieldEnd(k - 1)
      BY <2>2 DEF LineEnd
    <3>2. k - 1 \in 0..Len(input.hfs)
      BY <1>2, <2>2
    <3>3. FieldEnd(k - 1) \in Nat /\ FieldEnd(k - 1) <= FieldEnd(Len(input.hfs))
      BY <1>4, <3>2
    <3> QED
      BY <1>5, <1>6, <3>1, <3>3
  <2> QED
    BY <2>1, <2>2
<1>8. HeadEnd \in Nat
  BY <1>5, <1>6
<1> QED
  BY <1>1, <1>2, <1>7, <1>8 DEF HeadEnd

\* The declared length is a number, 0 before the first header line, and the
\* next line changes it only if it is a Content-Length.
LEMMA DeclaredStep ==
  ASSUME input \in Inputs
  PROVE  /\ Declared(0) = 0
         /\ \A n \in 0..Len(input.hfs) : Declared(n) \in Nat
         /\ \A n \in 1..Len(input.hfs) :
              Declared(n) = IF input.hfs[n].key = "length" THEN input.hfs[n].value
                            ELSE Declared(n - 1)
<1> DEFINE L(n) == {k \in 1..n : input.hfs[k].key = "length"}
<1>0. Len(input.hfs) \in Nat /\ \A k \in 1..Len(input.hfs) : input.hfs[k] \in HeaderLines
  BY Layout
<1>1. \A n : Declared(n) = IF L(n) = {} THEN 0 ELSE input.hfs[Max(L(n))].value
  BY DEF Declared
<1>2. L(0) = {}
  OBVIOUS
<1>3. ASSUME NEW n \in 0..Len(input.hfs) PROVE Declared(n) \in Nat
  <2>0. n \in Nat /\ L(n) \in SUBSET (1..n)
    BY <1>0
  <2>1. CASE L(n) # {}
    <3>1. Max(L(n)) \in L(n)
      BY <2>0, <2>1, MaxOfLines
    <3>2. Max(L(n)) \in 1..Len(input.hfs)
      BY <1>0, <2>0, <3>1
    <3> QED
      BY <1>0, <1>1, <2>1, <3>2 DEF HeaderLines
  <2> QED
    BY <1>1, <2>1
<1>4. ASSUME NEW n \in 1..Len(input.hfs)
      PROVE  Declared(n) = IF input.hfs[n].key = "length" THEN input.hfs[n].value
                           ELSE Declared(n - 1)
  <2>1. CASE input.hfs[n].key = "length"
    <3>1. n \in L(n) /\ \A y \in L(n) : y <= n
      BY <1>0, <2>1
    <3>2. Max(L(n)) \in L(n) /\ Max(L(n)) >= n
      <4>1. n \in Nat /\ L(n) \in SUBSET (1..n) /\ L(n) # {}
        BY <1>0, <3>1
      <4> QED
        BY <3>1, <4>1, MaxOfLines
    <3>3. Max(L(n)) = n
      BY <1>0, <3>1, <3>2
    <3> QED
      BY <1>1, <2>1, <3>1, <3>3
  <2>2. CASE input.hfs[n].key # "length"
    <3>1. L(n) = L(n - 1)
      BY <1>0, <2>2
    <3> QED
      BY <1>1, <2>2, <3>1
  <2> QED
    BY <2>1, <2>2
<1> QED
  BY <1>1, <1>2, <1>3, <1>4

-----------------------------------------------------------------------------
(***************************************************************************)
(* The inductive invariant: what each stage may rely on.                   *)
(***************************************************************************)
BadKeys == {"badlength", "nocolon"}

\* read_rl: nothing but buffered bytes.
RequestLineStage ==
  stage = "REQUEST_LINE" =>
    /\ method = "NONE_YET" /\ status = "OK"
    /\ lines = 0 /\ bodyLen = 0 /\ got = bufEnd
    /\ written = 0 /\ ~putFd /\ ~getFd

\* read_hf: the lines parsed so far were good, and body_len is what they say.
HeaderStage ==
  stage = "HEADER_FIELDS" =>
    /\ method = input.rl.method /\ method \in {"GET", "PUT", "HEAD"} /\ status = "OK"
    /\ input.rl.uri # "invalid" /\ input.rl.proto # "invalid"
    /\ lines \in 1..(Len(input.hfs) + 1)
    /\ \A k \in 1..(lines - 1) : input.hfs[k].key \notin BadKeys
    /\ bodyLen = Declared(lines - 1) /\ got = bufEnd
    /\ written = 0 /\ ~putFd /\ ~getFd

\* The exception of AnswerMatchesRequest that read_hf makes: the header buffer
\* is full, or has room for one byte.
Cramped == status = "BAD_REQUEST" /\ bufEnd >= BufLen - 1

\* What AnswerMatchesRequest says of an answer.
GoodAnswer ==
  \/ status = IF Surplus /\ Deserved \in {"OK", "CREATED"} THEN "INTERNAL_ERROR" ELSE Deserved
  \/ Cramped
  \/ status = "INTERNAL_ERROR" /\ bufEnd > BufLen

\* read_request_body: a good PUT; nothing is written before the file is open,
\* and nothing is read past the header buffer before that is consumed.
BodyStage ==
  stage = "READ_BODY" =>
    /\ method = "PUT" /\ input.rl.method = "PUT" /\ status \in {"OK", "BAD_REQUEST", "CREATED"}
    /\ input.rl.uri # "invalid" /\ input.rl.proto # "invalid"
    /\ \A k \in DOMAIN input.hfs : input.hfs[k].key \notin BadKeys
    /\ status = "BAD_REQUEST" => bufEnd >= BufLen - 1
    /\ putFd => /\ file.kind \in {"regular", "putonly"}
                /\ ~BadKey => /\ Deserved \in {"OK", "CREATED"}
                              /\ status \in {Deserved, "BAD_REQUEST"}
    /\ ~putFd => written = 0 /\ status \in {"OK", "BAD_REQUEST"}
    /\ leftover > 0 => got = bufEnd
    /\ ~getFd

\* The descriptors say which files are open, and only PUT changes the file.
FilesMatch ==
  /\ ~putFd => file = input.file
  /\ opens = IF call = "done" THEN 0
             ELSE (IF putFd THEN 1 ELSE 0) + (IF getFd THEN 1 ELSE 0)
  /\ call = "done" => stage = "FINISHED"

\* A head is built once, at the end of BUILD_HEADER, and nothing leaves before.
OneAnswer ==
  /\ headers \in {0, 1}
  /\ stage \in {"REQUEST_LINE", "HEADER_FIELDS", "READ_BODY", "BUILD_HEADER"} => headers = 0
  /\ headers = 0 => /\ res = [hdr |-> 0, body |-> 0] /\ bodySent = 0 /\ filePos = 0
                    /\ promised = 0

\* The status is final from BUILD_HEADER on, and the files agree with it.
AnswerSettled ==
  stage = "BUILD_HEADER" \/ headers > 0 =>
    /\ status = "OK" => method \in {"GET", "PUT", "HEAD"}
    /\ ServesFile => getFd
    /\ method = "PUT" /\ status \in {"OK", "CREATED"} =>
         file.kind \in {"regular", "putonly"} /\ file.size = DeclaredBody
    /\ ~failed /\ ~BadKey => GoodAnswer

\* READ_FILE follows an emptied buffer and never reads past the end.
ResponseStage ==
  /\ stage = "READ_FILE" => status = "OK" /\ method = "GET" /\ res = [hdr |-> 0, body |-> 0]
  /\ ServesFile => filePos <= file.size

\* A request is given up only when the client stopped too early or the header
\* buffer was filled to its last byte before the head was complete.
ClosedEarly ==
  stage = "FINISHED" /\ headers = 0 =>
    \/ total < HeadEnd + (IF method = "PUT" THEN DeclaredBody ELSE 0)
    \/ bufEnd = BufLen /\ bufEnd < HeadEnd

Inv ==
  /\ TypeOK
  /\ RequestLineStage /\ HeaderStage /\ BodyStage /\ BodyAccounting
  /\ FilesMatch /\ OneAnswer /\ AnswerSettled /\ ResponseStage /\ ContentLengthHonest
  /\ ClosedEarly

\* The request does not change while it is served, nor does anything that is
\* a function of it.
LEMMA InputFixed ==
  ASSUME input' = input
  PROVE  /\ (BadKey' <=> BadKey) /\ Deserved' = Deserved /\ HeadEnd' = HeadEnd
         /\ DeclaredBody' = DeclaredBody
         /\ \A k : LineEnd(k)' = LineEnd(k) /\ Declared(k)' = Declared(k)
  BY DEF BadKey, Deserved, HeadEnd, DeclaredBody, LineEnd, FieldEnd, Declared

\* Nor does the verdict on an answer, once the request is read.
LEMMA VerdictFixed ==
  ASSUME UNCHANGED <<input, status, method, bufEnd>>
  PROVE  (Cramped' <=> Cramped) /\ (GoodAnswer' <=> GoodAnswer)
BY InputFixed DEF Cramped, GoodAnswer, Surplus

\* init_parser_state establishes the invariant.
LEMMA InitInv == Init => Inv
<1> SUFFICES ASSUME Init PROVE Inv
  OBVIOUS
<1>0. input \in Inputs /\ input.file \in FileStates /\ HeadEnd \in Nat /\ input.body \in Nat
      /\ Len(input.hfs) \in Nat
  BY Layout DEF Init
<1>1. TypeOK
  <2>1. putFd \in BOOLEAN /\ getFd \in BOOLEAN /\ failed \in BOOLEAN
    BY DEF Init
  <2>2. res \in [hdr : 0..HdrLen, body : 0..ResLen]
    BY LenAssumption DEF Init
  <2> QED
    BY <1>0, <2>1, <2>2 DEF Init, TypeOK, Stages, Statuses, Methods
<1>2. RequestLineStage /\ HeaderStage /\ BodyStage /\ BodyAccounting
  BY DEF Init, RequestLineStage, HeaderStage, BodyStage, BodyAccounting
<1>3. FilesMatch /\ OneAnswer /\ AnswerSettled
  BY DEF Init, FilesMatch, OneAnswer, AnswerSettled
<1>4. ResponseStage /\ ContentLengthHonest /\ ClosedEarly
  BY DEF Init, ResponseStage, ContentLengthHonest, ClosedEarly, ServesFile
<1> QED
  BY <1>1, <1>2, <1>3, <1>4 DEF Inv

\* A call or a stuttering step changes nothing the invariant looks at.
LEMMA CallInv == ASSUME Inv, Call \/ UNCHANGED vars PROVE Inv'
<1>1. /\ UNCHANGED <<input, total, stage, status, reqVars, fileVars, resVars>>
      /\ call' = "done" <=> call = "done"
      /\ call' \in {"idle", "running", "done"}
  BY DEF Call, vars, Inv, TypeOK
<1> USE <1>1, InputFixed, VerdictFixed DEF Inv, reqVars, fileVars, resVars
<1>2. TypeOK'
  BY DEF TypeOK
<1>3. RequestLineStage' /\ HeaderStage' /\ BodyStage' /\ BodyAccounting'
  BY DEF RequestLineStage, HeaderStage, BodyStage, BodyAccounting, leftover
<1>4. FilesMatch' /\ OneAnswer' /\ AnswerSettled'
  BY DEF FilesMatch, OneAnswer, AnswerSettled, ServesFile
<1>5. ResponseStage' /\ ContentLengthHonest' /\ ClosedEarly'
  BY DEF ResponseStage, ContentLengthHonest, ClosedEarly, ServesFile
<1> QED
  BY <1>2, <1>3, <1>4, <1>5

-----------------------------------------------------------------------------
(***************************************************************************)
(* The response: from BUILD_HEADER on, the request, the status and the     *)
(* file are settled.                                                       *)
(***************************************************************************)
Responding == build_header \/ ReadFileChunk \/ ReadFileEnd \/ SendAll \/ SendStops

\* n bytes leave the buffer: the head's first, and the buffer never holds less
\* than nothing.
LEMMA FlushEffect ==
  ASSUME TypeOK, NEW n \in 0..(res.hdr + res.body), Flush(n)
  PROVE  /\ res' \in [hdr : 0..HdrLen, body : 0..ResLen]
         /\ bodySent' \in Nat /\ bodySent <= bodySent'
         /\ bodySent' + res'.body = bodySent + res.body
         /\ n = res.hdr + res.body => res' = [hdr |-> 0, body |-> 0]
<1>1. /\ res.hdr \in 0..HdrLen /\ res.body \in 0..ResLen /\ bodySent \in Nat
      /\ HdrLen \in Nat /\ ResLen \in Nat
  BY LenAssumption DEF TypeOK
<1>2. Min({n, res.hdr}) = IF n <= res.hdr THEN n ELSE res.hdr
  BY <1>1, MinTwo
<1> DEFINE h == Min({n, res.hdr})
<1>3. /\ res' = [hdr |-> res.hdr - h, body |-> res.body - (n - h)]
      /\ bodySent' = bodySent + (n - h)
  BY DEF Flush
<1>4. /\ res.hdr - h \in 0..HdrLen /\ res.body - (n - h) \in 0..ResLen /\ n - h \in Nat
      /\ n = res.hdr + res.body => res.hdr - h = 0 /\ res.body - (n - h) = 0
  BY <1>1, <1>2
<1> HIDE DEF h
<1>5. h \in Int /\ n \in Int
  BY <1>1, <1>2 DEF h
<1> QED
  BY <1>1, <1>3, <1>4, <1>5

\* What the response actions leave alone, and where they lead.
LEMMA RespondingEffect ==
  ASSUME Inv, Responding
  PROVE  /\ UNCHANGED <<input, total, status, method, lines, bufEnd, parsedEnd, got, bodyLen,
                        putFd, getFd, opens, file, written, failed>>
         /\ stage \in {"BUILD_HEADER", "READ_FILE", "SEND_RES"}
         /\ stage' \in {"SEND_RES", "READ_FILE", "FINISHED"}
         /\ call = "running" /\ call' \in {"running", "idle"}
         /\ headers' = 1
<1>1. CASE build_header
  BY <1>1 DEF build_header, BuildHead, At, reqVars, fileVars, Inv, OneAnswer
<1>2. CASE ReadFileChunk \/ ReadFileEnd
  BY <1>2 DEF ReadFileChunk, ReadFileEnd, At, reqVars, fileVars, resVars, Inv,
              ContentLengthHonest
<1>3. CASE SendAll \/ SendStops
  BY <1>3 DEF SendAll, SendStops, At, reqVars, fileVars, Inv, ContentLengthHonest
<1> QED
  BY <1>1, <1>2, <1>3 DEF Responding

\* The response keeps types, sizes and the promise.
LEMMA RespondingInv == ASSUME Inv, Responding PROVE Inv'
<1> USE RespondingEffect, InputFixed, VerdictFixed
<1>0. /\ file.size \in Nat /\ filePos \in Nat /\ promised \in Nat /\ bodySent \in Nat
      /\ res \in [hdr : 0..HdrLen, body : 0..ResLen]
      /\ HdrLen \in Nat /\ ResLen \in Nat /\ StaticLen \in 0..ResLen
  BY LenAssumption DEF Inv, TypeOK, FileStates
<1>1. RequestLineStage' /\ HeaderStage' /\ BodyStage' /\ BodyAccounting' /\ OneAnswer'
  BY DEF RequestLineStage, HeaderStage, BodyStage, BodyAccounting, OneAnswer
<1>2. FilesMatch'
  BY DEF Inv, FilesMatch
<1>3. AnswerSettled'
  <2>1. stage = "BUILD_HEADER" \/ headers > 0
    BY DEF Inv, ContentLengthHonest
  <2> QED
    BY <2>1 DEF Inv, AnswerSettled, ServesFile
<1>4. ClosedEarly'
  BY DEF ClosedEarly
<1>5. /\ res' \in [hdr : 0..HdrLen, body : 0..ResLen] /\ filePos' \in Nat /\ promised' \in Nat
      /\ bodySent' \in Nat /\ ResponseStage' /\ ContentLengthHonest'
  <2>1. CASE build_header
    <3>1. /\ promised' = IF ServesFile THEN file.size ELSE StaticLen
          /\ res' = [hdr |-> HdrLen, body |-> IF ServesFile THEN 0 ELSE StaticLen]
          /\ stage = "BUILD_HEADER" /\ stage' = "SEND_RES"
          /\ filePos' = filePos /\ bodySent' = bodySent
      BY <2>1 DEF build_header, BuildHead, At, ServesFile, Inv, AnswerSettled
    <3>2. bodySent = 0 /\ filePos = 0
      BY <3>1 DEF Inv, OneAnswer
    <3>3. ServesFile' <=> ServesFile
      BY DEF ServesFile
    <3>4. ContentLengthHonest'
      BY <1>0, <3>1, <3>2, <3>3 DEF ContentLengthHonest
    <3>5. ResponseStage'
      BY <1>0, <3>1, <3>2, <3>3 DEF ResponseStage
    <3> QED
      BY <1>0, <3>1, <3>2, <3>4, <3>5
  <2>2. CASE ReadFileChunk
    <3>1. PICK n \in 1..Min({ResLen, file.size - filePos}) :
             filePos' = filePos + n /\ res' = [res EXCEPT !.body = n]
      BY <2>2 DEF ReadFileChunk
    <3>2. n \in 1..ResLen /\ n <= file.size - filePos
      <4>1. ResLen \in Int /\ file.size - filePos \in Int
        BY <1>0
      <4>2. Min({ResLen, file.size - filePos})
              = IF ResLen <= file.size - filePos THEN ResLen ELSE file.size - filePos
        BY <4>1, MinTwo
      <4> QED
        BY <1>0, <3>1, <4>1, <4>2
    <3>3. /\ stage = "READ_FILE" /\ stage' = "SEND_RES"
          /\ promised' = promised /\ bodySent' = bodySent
      BY <2>2 DEF ReadFileChunk, At
    <3>4. res.body = 0 /\ ServesFile /\ ServesFile'
      BY <3>3 DEF Inv, ResponseStage, ServesFile
    <3>5. bodySent + 0 + (file.size - filePos) = promised
      BY <3>3, <3>4 DEF Inv, ContentLengthHonest
    <3>6. res'.body = n /\ res' \in [hdr : 0..HdrLen, body : 0..ResLen]
      BY <1>0, <3>1, <3>2
    <3>7. ContentLengthHonest'
      BY <1>0, <3>1, <3>2, <3>3, <3>4, <3>5, <3>6 DEF ContentLengthHonest
    <3>8. ResponseStage'
      BY <1>0, <3>1, <3>2, <3>3 DEF ResponseStage
    <3> QED
      BY <1>0, <3>1, <3>2, <3>3, <3>6, <3>7, <3>8
  <2>3. CASE ReadFileEnd
    <3>1. stage' = "FINISHED" /\ UNCHANGED <<filePos, res, promised, bodySent>>
      BY <2>3 DEF ReadFileEnd, resVars
    <3> QED
      BY <1>0, <3>1 DEF ResponseStage, ContentLengthHonest, ServesFile, Inv
  <2>4. CASE SendAll \/ SendStops
    <3>1. PICK n \in 0..(res.hdr + res.body) : Flush(n) /\ (SendAll => n = res.hdr + res.body)
      <4>1. CASE SendAll
        BY <1>0, <4>1 DEF SendAll
      <4>2. CASE ~SendAll
        <5>1. PICK n \in 0..(res.hdr + res.body - 1) : Flush(n)
          BY <2>4, <4>2 DEF SendStops
        <5>2. n \in 0..(res.hdr + res.body)
          BY <1>0
        <5> QED
          BY <4>2, <5>1, <5>2
      <4> QED
        BY <4>1, <4>2
    <3>2. /\ res' \in [hdr : 0..HdrLen, body : 0..ResLen]
          /\ bodySent' \in Nat
          /\ bodySent' + res'.body = bodySent + res.body
          /\ SendAll => res' = [hdr |-> 0, body |-> 0]
      BY <3>1, FlushEffect DEF Inv
    <3>3. /\ stage = "SEND_RES" /\ filePos' = filePos /\ promised' = promised
          /\ stage' = "READ_FILE" => SendAll /\ method = "GET" /\ status = "OK"
      BY <2>4 DEF SendAll, SendStops, At
    <3>4. ServesFile' <=> ServesFile
      BY DEF ServesFile
    <3>5. bodySent + res.body + (IF ServesFile THEN file.size - filePos ELSE 0) = promised
      BY <3>3 DEF Inv, ContentLengthHonest
    <3>6. ContentLengthHonest'
      BY <1>0, <3>2, <3>3, <3>4, <3>5 DEF ContentLengthHonest
    <3>7. ResponseStage'
      BY <3>2, <3>3, <3>4 DEF Inv, ResponseStage
    <3> QED
      BY <1>0, <3>2, <3>3, <3>6, <3>7
  <2> QED
    BY <2>1, <2>2, <2>3, <2>4 DEF Responding
<1>6. TypeOK'
  <2>1. headers' \in Nat
    OBVIOUS
  <2>2. stage' \in Stages /\ call' \in {"idle", "running", "done"}
    BY DEF Stages
  <2>3. putFd' \in BOOLEAN /\ getFd' \in BOOLEAN /\ failed' \in BOOLEAN
    BY DEF Inv, TypeOK
  <2>4. /\ input' \in Inputs /\ total' \in 0..(HeadEnd' + input'.body)
        /\ status' \in Statuses /\ method' \in Methods /\ lines' \in 0..(Len(input'.hfs) + 2)
        /\ parsedEnd' \in 0..bufEnd' /\ bufEnd' \in 0..got' /\ got' \in 0..total'
        /\ bodyLen' \in Nat /\ opens' \in Nat /\ file' \in FileStates /\ written' \in Nat
    BY DEF Inv, TypeOK
  <2> QED
    BY <1>5, <2>1, <2>2, <2>3, <2>4 DEF TypeOK
<1> QED
  BY <1>1, <1>2, <1>3, <1>4, <1>5, <1>6 DEF Inv

\* cleanup closes exactly the files that are open.
LEMMA FinishInv == ASSUME Inv, Finish PROVE Inv'
<1>1. /\ UNCHANGED <<input, total, stage, status, reqVars, putFd, getFd, file, written, resVars>>
      /\ stage = "FINISHED" /\ call = "running" /\ call' = "done"
      /\ opens' = opens - ((IF putFd THEN 1 ELSE 0) + (IF getFd THEN 1 ELSE 0))
  BY DEF Finish, Close, At
<1> USE <1>1, InputFixed, VerdictFixed DEF Inv, reqVars, resVars
<1>2. opens' = 0
  BY DEF FilesMatch
<1>3. FilesMatch'
  BY <1>2 DEF FilesMatch
<1>4. TypeOK'
  BY <1>2 DEF TypeOK
<1>5. RequestLineStage' /\ HeaderStage' /\ BodyStage' /\ BodyAccounting'
  BY DEF RequestLineStage, HeaderStage, BodyStage, BodyAccounting
<1>6. OneAnswer' /\ AnswerSettled' /\ ResponseStage' /\ ContentLengthHonest' /\ ClosedEarly'
  BY DEF OneAnswer, AnswerSettled, ResponseStage, ContentLengthHonest, ClosedEarly, ServesFile
<1> QED
  BY <1>3, <1>4, <1>5, <1>6

-----------------------------------------------------------------------------
(***************************************************************************)
(* Reading: nothing is answered before BUILD_HEADER.                       *)
(***************************************************************************)
Reading == {"REQUEST_LINE", "HEADER_FIELDS", "READ_BODY"}

\* Handlers that only read keep the types if they keep those of the request
\* and of the file, and they touch nothing of the response.
LEMMA ReadingKeeps ==
  ASSUME Inv, UNCHANGED <<input, total, resVars>>, stage \in Reading, call = "running",
         stage' \in Reading \cup {"BUILD_HEADER", "FINISHED"}, call' \in {"running", "idle"},
         status' \in Statuses, method' \in Methods, lines' \in 0..(Len(input.hfs) + 2),
         parsedEnd' \in 0..bufEnd', bufEnd' \in 0..got', got' \in 0..total, bodyLen' \in Nat,
         putFd' \in BOOLEAN, getFd' \in BOOLEAN, opens' \in Nat, file' \in FileStates,
         written' \in Nat, failed' \in BOOLEAN
  PROVE  /\ TypeOK' /\ OneAnswer' /\ ResponseStage' /\ ContentLengthHonest'
         /\ headers = 0 /\ headers' = 0
<1> USE InputFixed DEF resVars
<1>1. headers = 0 /\ headers' = 0
  BY DEF Inv, OneAnswer, Reading
<1>2. TypeOK'
  <2>1. stage' \in Stages /\ call' \in {"idle", "running", "done"}
    BY DEF Stages, Reading
  <2>2. /\ input' \in Inputs /\ total' \in 0..(HeadEnd' + input'.body)
        /\ lines' \in 0..(Len(input'.hfs) + 2) /\ got' \in 0..total'
        /\ filePos' \in Nat /\ res' \in [hdr : 0..HdrLen, body : 0..ResLen]
        /\ promised' \in Nat /\ headers' \in Nat /\ bodySent' \in Nat
    BY DEF Inv, TypeOK
  <2> QED
    BY <2>1, <2>2 DEF TypeOK
<1>3. OneAnswer'
  BY <1>1 DEF Inv, OneAnswer
<1>4. ResponseStage'
  <2>1. file'.size \in Nat /\ filePos' = 0
    BY <1>1 DEF FileStates, Inv, OneAnswer
  <2> QED
    BY <2>1 DEF ResponseStage, Reading
<1>5. ContentLengthHonest'
  BY DEF ContentLengthHonest, Reading
<1> QED
  BY <1>1, <1>2, <1>3, <1>4, <1>5

\* What read_rl and read_hf may rely on: the offsets are ordered, and every
\* byte received is in the buffer.
LEMMA ReadingFacts ==
  ASSUME Inv
  PROVE  /\ input \in Inputs /\ input.rl \in RequestLines /\ input.body \in Nat
         /\ Len(input.hfs) \in Nat /\ HeadEnd \in Nat /\ total \in 0..(HeadEnd + input.body)
         /\ parsedEnd \in 0..bufEnd /\ bufEnd \in 0..got /\ got \in 0..total
         /\ lines \in 0..(Len(input.hfs) + 2)
         /\ BufLen \in Nat /\ ReadLen \in Nat
         /\ status \in Statuses /\ method \in Methods /\ bodyLen \in Nat
         /\ putFd \in BOOLEAN /\ getFd \in BOOLEAN /\ opens \in Nat /\ file \in FileStates
         /\ written \in Nat /\ failed \in BOOLEAN
  BY Layout, BufAssumption, ReadLenAssumption DEF Inv, TypeOK

\* parse_rl: a line it accepts has a known method, one it refuses is answered
\* with what it deserves.
LEMMA ParseRl ==
  ASSUME input \in Inputs, status = "OK", method = "NONE_YET"
  PROVE  LET p == parse_rl(input.rl)
         IN  /\ p.ok \in BOOLEAN
             /\ p.method \in Methods /\ p.status \in Statuses
             /\ p.ok => /\ p.method = input.rl.method /\ p.method \in {"GET", "PUT", "HEAD"}
                        /\ p.status = "OK"
                        /\ input.rl.uri # "invalid" /\ input.rl.proto # "invalid"
             /\ ~p.ok => p.status \notin {"OK", "CREATED"} /\ p.status = Deserved
<1> DEFINE rl == input.rl
<1>0. rl.method \in {"GET", "PUT", "HEAD", "other", "invalid", "nospace"}
  BY Layout DEF RequestLines
<1>1. CASE rl.method = "nospace"
  BY <1>1 DEF parse_rl, Deserved, Methods, Statuses
<1>2. CASE rl.method = "other"
  BY <1>2 DEF parse_rl, Deserved, Methods, Statuses
<1>3. CASE rl.method = "invalid"
  BY <1>3 DEF parse_rl, Deserved, Methods, Statuses
<1>4. CASE rl.method \in {"GET", "PUT", "HEAD"} /\ (rl.uri = "invalid" \/ rl.proto = "invalid")
  BY <1>4 DEF parse_rl, Deserved, Methods, Statuses
<1>5. CASE rl.method \in {"GET", "PUT", "HEAD"} /\ ~(rl.uri = "invalid" \/ rl.proto = "invalid")
  BY <1>5 DEF parse_rl, Methods, Statuses
<1> QED
  BY <1>0, <1>1, <1>2, <1>3, <1>4, <1>5

\* read_rl finds the request line.
LEMMA ReadRlLineInv == ASSUME Inv, ReadRlLine PROVE Inv'
<1> USE InputFixed
<1>1. /\ UNCHANGED <<input, total, bodyLen, failed, fileVars, resVars, call>>
      /\ call = "running" /\ stage = "REQUEST_LINE"
      /\ method' = parse_rl(input.rl).method /\ status' = parse_rl(input.rl).status
      /\ stage' = IF parse_rl(input.rl).ok THEN "HEADER_FIELDS" ELSE "BUILD_HEADER"
      /\ lines' = 1 /\ parsedEnd' = LineEnd(1)
  BY DEF ReadRlLine, At
<1>2. /\ method = "NONE_YET" /\ status = "OK" /\ lines = 0 /\ bodyLen = 0 /\ got = bufEnd
      /\ written = 0 /\ ~putFd /\ ~getFd
  BY <1>1 DEF Inv, RequestLineStage
<1>3. LineEnd(1) \in Nat
  <2>1. input \in Inputs /\ 1 \in 1..(Len(input.hfs) + 2)
    BY ReadingFacts
  <2> QED
    BY <2>1, Layout
<1>4. bufEnd' = got' /\ got' \in LineEnd(1)..total
  <2>1. PICK end \in LineEnd(1)..Min({BufLen, total}) : Buffer(end)
    BY DEF ReadRlLine
  <2>2. Min({BufLen, total}) = IF BufLen <= total THEN BufLen ELSE total
    BY MinTwo, ReadingFacts
  <2> QED
    BY <1>3, <2>1, <2>2, ReadingFacts DEF Buffer
<1>5. TypeOK' /\ OneAnswer' /\ ResponseStage' /\ ContentLengthHonest' /\ headers' = 0
  <2>1. UNCHANGED <<putFd, getFd, opens, file, written>>
    BY <1>1 DEF fileVars
  <2>2. method' \in Methods /\ status' \in Statuses
    BY <1>1, <1>2, ParseRl, ReadingFacts
  <2>3. lines' \in 0..(Len(input.hfs) + 2)
    BY <1>1, ReadingFacts
  <2>4. parsedEnd' \in 0..bufEnd' /\ bufEnd' \in 0..got' /\ got' \in 0..total
    BY <1>1, <1>3, <1>4, ReadingFacts
  <2>5. /\ stage \in Reading /\ stage' \in Reading \cup {"BUILD_HEADER", "FINISHED"}
        /\ call' \in {"running", "idle"}
    BY <1>1 DEF Reading
  <2> QED
    BY <1>1, <2>1, <2>2, <2>3, <2>4, <2>5, ReadingKeeps, ReadingFacts
<1>6. HeaderStage'
  <2>1. Declared(0) = 0 /\ Len(input.hfs) \in Nat
    BY DeclaredStep, ReadingFacts
  <2> QED
    BY <1>1, <1>2, <1>4, <2>1, ParseRl, ReadingFacts DEF HeaderStage, fileVars
<1>7. AnswerSettled'
  <2>1. stage' = "BUILD_HEADER" => status' \notin {"OK", "CREATED"} /\ status' = Deserved
    BY <1>1, <1>2, ParseRl, ReadingFacts
  <2>2. stage' = "BUILD_HEADER" => GoodAnswer'
    BY <1>1, <2>1 DEF GoodAnswer
  <2> QED
    BY <1>1, <1>5, <2>1, <2>2 DEF AnswerSettled, ServesFile
<1>8. RequestLineStage' /\ BodyStage' /\ BodyAccounting' /\ ClosedEarly'
  BY <1>1 DEF RequestLineStage, BodyStage, BodyAccounting, ClosedEarly
<1>9. FilesMatch'
  BY <1>1 DEF Inv, FilesMatch, fileVars
<1> QED
  BY <1>5, <1>6, <1>7, <1>8, <1>9 DEF Inv

\* read_rl finds none: the buffer is full, or the read stops.
LEMMA ReadRlNoLineInv == ASSUME Inv, ReadRlTooLong \/ ReadRlStops PROVE Inv'
<1> USE InputFixed
<1>1. /\ UNCHANGED <<input, total, method, lines, parsedEnd, bodyLen, fileVars, resVars>>
      /\ call = "running" /\ stage = "REQUEST_LINE"
  BY DEF ReadRlTooLong, ReadRlStops, At
<1>2. /\ method = "NONE_YET" /\ status = "OK" /\ lines = 0 /\ bodyLen = 0 /\ got = bufEnd
      /\ written = 0 /\ ~putFd /\ ~getFd
  BY <1>1 DEF Inv, RequestLineStage
<1>3. LineEnd(1) \in Nat /\ LineEnd(1) <= HeadEnd
  <2>1. input \in Inputs /\ 1 \in 1..(Len(input.hfs) + 2)
    BY ReadingFacts
  <2> QED
    BY <2>1, Layout
<1>4. /\ bufEnd' = got' /\ got' \in bufEnd..total /\ got' < LineEnd(1)
      /\ stage' \in {"REQUEST_LINE", "FINISHED", "BUILD_HEADER"}
      /\ call' \in {"running", "idle"}
      /\ stage' = "REQUEST_LINE" => status' = "OK"
      /\ stage' = "FINISHED" => got' = total
      /\ status' \in {"OK", "BAD_REQUEST", "INTERNAL_ERROR"}
      /\ stage' = "BUILD_HEADER" => status' # "OK" /\ (failed' \/ Cramped')
      /\ failed' \in BOOLEAN
  <2>1. CASE ReadRlTooLong
    <3>1. PICK end \in {BufLen - 1, BufLen} :
             end \in bufEnd..Min({LineEnd(1) - 1, total}) /\ Buffer(end)
      BY <2>1 DEF ReadRlTooLong
    <3>2. Min({LineEnd(1) - 1, total}) = IF LineEnd(1) - 1 <= total THEN LineEnd(1) - 1 ELSE total
      <4>1. LineEnd(1) - 1 \in Int /\ total \in Int
        BY <1>3, ReadingFacts
      <4> QED
        BY <4>1, MinTwo
    <3>3. end \in bufEnd..total /\ end < LineEnd(1)
      BY <1>3, <3>1, <3>2, ReadingFacts
    <3>4. bufEnd' = end /\ got' = end /\ status' = "BAD_REQUEST" /\ failed' = failed
          /\ stage' = "BUILD_HEADER" /\ call' = call
      BY <2>1, <3>1 DEF ReadRlTooLong, Buffer
    <3>5. Cramped'
      BY <3>1, <3>4, ReadingFacts DEF Cramped
    <3> QED
      BY <1>1, <3>3, <3>4, <3>5, ReadingFacts
  <2>2. CASE ReadRlStops
    <3>1. PICK end \in bufEnd..Min({LineEnd(1) - 1, total, BufLen - 2}) : Buffer(end)
      BY <2>2 DEF ReadRlStops
    <3>2. /\ Min({LineEnd(1) - 1, total, BufLen - 2}) \in Int
          /\ Min({LineEnd(1) - 1, total, BufLen - 2}) <= LineEnd(1) - 1
          /\ Min({LineEnd(1) - 1, total, BufLen - 2}) <= total
      <4>1. LineEnd(1) - 1 \in Int /\ total \in Int /\ BufLen - 2 \in Int
        BY <1>3, ReadingFacts
      <4> QED
        BY <4>1, MinThree
    <3>3. end \in bufEnd..total /\ end < LineEnd(1)
      BY <1>3, <3>1, <3>2, ReadingFacts
    <3>4. ReadStops
      BY <2>2 DEF ReadRlStops
    <3> QED
      BY <1>1, <1>2, <3>1, <3>3, <3>4, ReadingFacts DEF ReadStops, Buffer
  <2> QED
    BY <2>1, <2>2
<1>5. TypeOK' /\ OneAnswer' /\ ResponseStage' /\ ContentLengthHonest' /\ headers' = 0
  <2>1. UNCHANGED <<putFd, getFd, opens, file, written>>
    BY <1>1 DEF fileVars
  <2>2. parsedEnd' \in 0..bufEnd' /\ bufEnd' \in 0..got' /\ got' \in 0..total
    BY <1>1, <1>2, <1>4, ReadingFacts
  <2>3. /\ stage \in Reading /\ stage' \in Reading \cup {"BUILD_HEADER", "FINISHED"}
        /\ status' \in Statuses
    BY <1>1, <1>4 DEF Reading, Statuses
  <2> QED
    BY <1>1, <1>4, <2>1, <2>2, <2>3, ReadingKeeps, ReadingFacts
<1>6. RequestLineStage'
  BY <1>1, <1>2, <1>4 DEF RequestLineStage, fileVars
<1>7. AnswerSettled'
  BY <1>1, <1>2, <1>4, <1>5 DEF AnswerSettled, ServesFile, GoodAnswer
<1>8. HeaderStage' /\ BodyStage' /\ BodyAccounting'
  BY <1>4 DEF HeaderStage, BodyStage, BodyAccounting
<1>9. ClosedEarly'
  <2>1. stage' = "FINISHED" => total < HeadEnd
    BY <1>3, <1>4, ReadingFacts
  <2> QED
    BY <1>1, <1>2, <2>1, ReadingFacts DEF ClosedEarly
<1>10. FilesMatch'
  BY <1>1, <1>4 DEF Inv, FilesMatch, fileVars
<1> QED
  BY <1>5, <1>6, <1>7, <1>8, <1>9, <1>10 DEF Inv

\* What read_hf relies on.  Only a full header buffer means 400.
LEMMA HeaderFacts ==
  ASSUME Inv, stage = "HEADER_FIELDS"
  PROVE  /\ method = input.rl.method /\ method \in {"GET", "PUT", "HEAD"} /\ status = "OK"
         /\ input.rl.uri # "invalid" /\ input.rl.proto # "invalid"
         /\ lines \in 1..(Len(input.hfs) + 1)
         /\ \A k \in 1..(lines - 1) : input.hfs[k].key \notin BadKeys
         /\ bodyLen = Declared(lines - 1) /\ got = bufEnd
         /\ written = 0 /\ ~putFd /\ ~getFd /\ file = input.file
         /\ LineEnd(lines + 1) \in Nat /\ LineEnd(lines + 1) <= HeadEnd
         /\ DeclaredBody \in Nat
         /\ CrampedStage \in {"HEADER_FIELDS", "BUILD_HEADER"}
         /\ CrampedStage = "HEADER_FIELDS" => CrampedStatus = "OK"
         /\ CrampedStage = "BUILD_HEADER" => CrampedStatus = "BAD_REQUEST"
         /\ CrampedStatus \in {"OK", "BAD_REQUEST"}
         /\ CrampedStatus = "BAD_REQUEST" => bufEnd >= BufLen - 1
<1>1. /\ method = input.rl.method /\ method \in {"GET", "PUT", "HEAD"} /\ status = "OK"
      /\ input.rl.uri # "invalid" /\ input.rl.proto # "invalid"
      /\ lines \in 1..(Len(input.hfs) + 1)
      /\ \A k \in 1..(lines - 1) : input.hfs[k].key \notin BadKeys
      /\ bodyLen = Declared(lines - 1) /\ got = bufEnd
      /\ written = 0 /\ ~putFd /\ ~getFd
  BY DEF Inv, HeaderStage
<1>2. file = input.file
  BY <1>1 DEF Inv, FilesMatch
<1>3. LineEnd(lines + 1) \in Nat /\ LineEnd(lines + 1) <= HeadEnd
  <2>1. lines + 1 \in 1..(Len(input.hfs) + 2)
    BY <1>1, ReadingFacts
  <2> QED
    BY <2>1, Layout, ReadingFacts
<1>4. DeclaredBody \in Nat
  BY DeclaredStep, ReadingFacts DEF DeclaredBody
<1>5. space_in_buffer < 2 => bufEnd >= BufLen - 1
  BY ReadingFacts DEF space_in_buffer
<1>6. space_in_buffer \in Int
  BY ReadingFacts DEF space_in_buffer
<1> QED
  BY <1>1, <1>2, <1>3, <1>4, <1>5, <1>6 DEF CrampedStage, CrampedStatus

\* A line that read_hf has found is in the buffer, and nothing was dropped.
LEMMA LineFound ==
  ASSUME Inv, stage = "HEADER_FIELDS", \E end \in bufEnd..total : LineBuffered(end) /\ Buffer(end)
  PROVE  bufEnd' = got' /\ got' \in bufEnd..total /\ got' >= LineEnd(lines + 1)
<1>1. PICK end \in bufEnd..total : LineBuffered(end) /\ Buffer(end)
  OBVIOUS
<1>2. end >= LineEnd(lines + 1)
  <2>1. CASE bufEnd >= LineEnd(lines + 1)
    BY <1>1, <2>1 DEF LineBuffered
  <2>2. CASE ~(bufEnd >= LineEnd(lines + 1))
    BY <1>1, <2>2, HeaderFacts, ReadingFacts DEF LineBuffered, space_in_buffer
  <2> QED
    BY <2>1, <2>2
<1> QED
  BY <1>1, <1>2 DEF Buffer

\* read_hf parses a header line.
LEMMA ReadHfFieldInv == ASSUME Inv, ReadHfField PROVE Inv'
<1> USE InputFixed
<1>1. /\ UNCHANGED <<input, total, method, failed, fileVars, resVars, call>>
      /\ call = "running" /\ stage = "HEADER_FIELDS" /\ lines <= Len(input.hfs)
      /\ bodyLen' = parse_hf(input.hfs[lines]).bodyLen
      /\ status' = parse_hf(input.hfs[lines]).status
      /\ stage' = parse_hf(input.hfs[lines]).stage
      /\ lines' = lines + 1 /\ parsedEnd' = LineEnd(lines + 1)
  BY DEF ReadHfField, At
<1>2. bufEnd' = got' /\ got' \in bufEnd..total /\ got' >= LineEnd(lines + 1)
  BY <1>1, LineFound DEF ReadHfField
<1>3. lines \in 1..Len(input.hfs) /\ input.hfs[lines] \in HeaderLines
  BY <1>1, HeaderFacts, ReadingFacts, Layout
<1>4. \/ /\ input.hfs[lines].key \in BadKeys
         /\ bodyLen' = bodyLen /\ status' = "BAD_REQUEST" /\ stage' = "BUILD_HEADER"
      \/ /\ input.hfs[lines].key \notin BadKeys
         /\ bodyLen' = Declared(lines) /\ status' = CrampedStatus /\ stage' = CrampedStage
  <2>1. CASE input.hfs[lines].key \in BadKeys
    BY <1>1, <2>1 DEF parse_hf, ParseField, BadKeys
  <2>2. CASE input.hfs[lines].key \notin BadKeys
    <3>1. bodyLen' = IF input.hfs[lines].key = "length" THEN input.hfs[lines].value ELSE bodyLen
      BY <1>1, <2>2 DEF parse_hf, ParseField, BadKeys
    <3>2. bodyLen' = Declared(lines)
      BY <1>1, <1>3, <3>1, DeclaredStep, HeaderFacts, ReadingFacts
    <3> QED
      BY <1>1, <2>2, <3>2 DEF parse_hf, ParseField, BadKeys
  <2> QED
    BY <2>1, <2>2
<1>5. bodyLen' \in Nat /\ Declared(lines) \in Nat
  <2>1. lines \in 0..Len(input.hfs)
    BY <1>3, ReadingFacts
  <2> QED
    BY <1>4, <2>1, DeclaredStep, ReadingFacts
<1>6. TypeOK' /\ OneAnswer' /\ ResponseStage' /\ ContentLengthHonest' /\ headers' = 0
  <2>1. UNCHANGED <<putFd, getFd, opens, file, written>>
    BY <1>1 DEF fileVars
  <2>2. parsedEnd' \in 0..bufEnd' /\ bufEnd' \in 0..got' /\ got' \in 0..total
    <3>1. /\ LineEnd(lines + 1) \in Nat /\ bufEnd \in Nat /\ total \in Nat
      BY <1>1, HeaderFacts, ReadingFacts
    <3> QED
      BY <1>1, <1>2, <3>1
  <2>3. lines' \in 0..(Len(input.hfs) + 2)
    <3>1. Len(input.hfs) \in Nat /\ lines \in Nat
      BY ReadingFacts
    <3> QED
      BY <1>1, <1>3, <3>1
  <2>4. /\ stage \in Reading /\ stage' \in Reading \cup {"BUILD_HEADER", "FINISHED"}
        /\ status' \in Statuses /\ call' \in {"running", "idle"}
    BY <1>1, <1>4, HeaderFacts DEF Reading, Statuses
  <2> QED
    BY <1>1, <1>5, <2>1, <2>2, <2>3, <2>4, ReadingKeeps, ReadingFacts
<1>7. HeaderStage'
  <2> SUFFICES ASSUME stage' = "HEADER_FIELDS" PROVE HeaderStage'
    BY DEF HeaderStage
  <2>1. /\ input.hfs[lines].key \notin BadKeys /\ bodyLen' = Declared(lines) /\ status' = "OK"
    BY <1>1, <1>4, HeaderFacts
  <2>2. \A k \in 1..(lines' - 1) : input.hfs[k].key \notin BadKeys
    <3> SUFFICES ASSUME NEW k \in 1..(lines' - 1) PROVE input.hfs[k].key \notin BadKeys
      OBVIOUS
    <3>1. k \in 1..(lines - 1) \/ k = lines
      BY <1>1, <1>3, ReadingFacts
    <3> QED
      BY <1>1, <2>1, <3>1, HeaderFacts
  <2>3. lines' - 1 = lines /\ lines' \in 1..(Len(input.hfs) + 1)
    <3>1. lines \in 1..Len(input.hfs) /\ Len(input.hfs) \in Nat /\ lines' = lines + 1
      BY <1>1, <1>3, ReadingFacts
    <3> QED
      BY <3>1
  <2>4. bodyLen' = Declared(lines - 1)'
    BY <1>1, <2>1, <2>3 DEF Declared
  <2>5. UNCHANGED <<putFd, getFd, written>>
    BY <1>1 DEF fileVars
  <2> QED
    BY <1>1, <1>2, <2>1, <2>2, <2>3, <2>4, <2>5, HeaderFacts DEF HeaderStage
<1>8. AnswerSettled'
  <2>1. stage' = "BUILD_HEADER" => status' = "BAD_REQUEST"
    BY <1>1, <1>4, HeaderFacts
  <2>2. stage' = "BUILD_HEADER" => GoodAnswer'
    <3>1. CASE input.hfs[lines].key \in BadKeys
      <4>1. \E k \in DOMAIN input.hfs : input.hfs[k].key \in {"badlength", "nocolon"}
        BY <1>3, <3>1, Layout, ReadingFacts DEF BadKeys
      <4>2. input.rl.method # "other"
        BY <1>1, HeaderFacts
      <4>3. Deserved = "BAD_REQUEST"
        BY <4>1, <4>2 DEF Deserved
      <4> QED
        BY <1>1, <2>1, <4>3 DEF GoodAnswer
    <3>2. CASE input.hfs[lines].key \notin BadKeys
      <4> SUFFICES ASSUME stage' = "BUILD_HEADER" PROVE Cramped'
        BY DEF GoodAnswer
      <4>1. CrampedStatus = "BAD_REQUEST" /\ status' = "BAD_REQUEST"
        BY <1>4, <2>1, <3>2
      <4>2. bufEnd >= BufLen - 1
        BY <1>1, <4>1, HeaderFacts
      <4>3. bufEnd' >= bufEnd /\ bufEnd' \in Int
        BY <1>2, ReadingFacts
      <4> QED
        BY <4>1, <4>2, <4>3, ReadingFacts DEF Cramped
    <3> QED
      BY <3>1, <3>2
  <2> QED
    BY <1>1, <1>6, <2>1, <2>2 DEF AnswerSettled, ServesFile
<1>9. RequestLineStage' /\ BodyStage' /\ BodyAccounting' /\ ClosedEarly'
  BY <1>1, <1>4, HeaderFacts DEF RequestLineStage, BodyStage, BodyAccounting, ClosedEarly
<1>10. FilesMatch'
  BY <1>1 DEF Inv, FilesMatch, fileVars
<1> QED
  BY <1>6, <1>7, <1>8, <1>9, <1>10 DEF Inv

\* open_get_file: a file is opened only for a status that serves it, and the
\* status is the one the request deserves, or 400 for a full header buffer.
LEMMA OpenGet ==
  ASSUME Inv, stage = "HEADER_FIELDS", method # "PUT",
         \A k \in DOMAIN input.hfs : input.hfs[k].key \notin BadKeys
  PROVE  /\ open_get_file.ok \in BOOLEAN
         /\ open_get_file.status \in Statuses
         /\ open_get_file.status = "OK" => open_get_file.ok
         /\ ~BadKey => \/ open_get_file.status = Deserved
                       \/ open_get_file.status = "BAD_REQUEST" /\ bufEnd >= BufLen - 1
<1>1. /\ method = input.rl.method /\ method \in {"GET", "HEAD"} /\ file = input.file
      /\ input.rl.uri \in {"valid", "long"} /\ input.rl.proto # "invalid"
      /\ CrampedStatus \in {"OK", "BAD_REQUEST"}
      /\ CrampedStatus = "BAD_REQUEST" => bufEnd >= BufLen - 1
  BY HeaderFacts, ReadingFacts DEF RequestLines
<1>2. file.kind \in {"absent", "uncreatable", "regular", "readonly", "putonly", "denied"}
  BY ReadingFacts DEF FileStates
<1>3. ~(\E k \in DOMAIN input.hfs : input.hfs[k].key \in {"badlength", "nocolon"})
  BY DEF BadKeys
<1>4. ~BadKey => Deserved = IF input.rl.uri = "long" THEN "BAD_REQUEST"
                            ELSE IF file.kind \in {"regular", "readonly"} THEN "OK"
                            ELSE IF file.kind \in {"absent", "uncreatable"} THEN "NOT_FOUND"
                            ELSE "FORBIDDEN"
  BY <1>1, <1>2, <1>3 DEF Deserved
<1>5. CASE input.rl.uri = "long"
  <2>1. open_get_file = [ok |-> FALSE, status |-> "BAD_REQUEST"]
    BY <1>5 DEF open_get_file, OpenGetFile
  <2>2. ~BadKey => Deserved = "BAD_REQUEST"
    BY <1>4, <1>5
  <2> QED
    BY <2>1, <2>2 DEF Statuses
<1>6. CASE input.rl.uri # "long" /\ file.kind \in {"absent", "uncreatable"}
  BY <1>1, <1>4, <1>6 DEF open_get_file, OpenGetFile, Statuses
<1>7. CASE input.rl.uri # "long" /\ file.kind \in {"putonly", "denied"}
  BY <1>1, <1>4, <1>7 DEF open_get_file, OpenGetFile, Statuses
<1>8. CASE input.rl.uri # "long" /\ file.kind \in {"regular", "readonly"}
  <2>1. open_get_file = [ok |-> TRUE, status |-> CrampedStatus]
    BY <1>8 DEF open_get_file, OpenGetFile
  <2>2. ~BadKey => Deserved = "OK"
    BY <1>4, <1>8
  <2> QED
    BY <1>1, <2>1, <2>2 DEF Statuses
<1> QED
  BY <1>2, <1>5, <1>6, <1>7, <1>8

\* read_hf finds the empty line: the head is complete.
LEMMA ReadHfEmptyInv == ASSUME Inv, ReadHfEmpty PROVE Inv'
<1> USE InputFixed
<1>1. /\ UNCHANGED <<input, total, method, bodyLen, failed, putFd, file, written, resVars, call>>
      /\ call = "running" /\ stage = "HEADER_FIELDS" /\ lines = Len(input.hfs) + 1
      /\ lines' = lines + 1 /\ parsedEnd' = LineEnd(lines + 1)
  BY DEF ReadHfEmpty, At
<1>2. bufEnd' = got' /\ got' \in bufEnd..total /\ got' >= LineEnd(lines + 1)
  BY <1>1, LineFound DEF ReadHfEmpty
<1>3. /\ lines + 1 = Len(input.hfs) + 2 /\ lines - 1 = Len(input.hfs)
      /\ LineEnd(lines + 1) = HeadEnd /\ bodyLen = DeclaredBody
      /\ \A k \in DOMAIN input.hfs : input.hfs[k].key \notin BadKeys
  <2>1. Len(input.hfs) \in Nat /\ DOMAIN input.hfs = 1..Len(input.hfs)
    BY ReadingFacts
  <2>2. lines + 1 = Len(input.hfs) + 2 /\ lines - 1 = Len(input.hfs)
    BY <1>1, <2>1
  <2>3. LineEnd(lines + 1) = HeadEnd
    BY <2>2, Layout, ReadingFacts
  <2>4. bodyLen = DeclaredBody /\ \A k \in 1..(lines - 1) : input.hfs[k].key \notin BadKeys
    BY <1>1, <2>2, HeaderFacts DEF DeclaredBody
  <2> QED
    BY <2>1, <2>2, <2>3, <2>4
<1>4. \/ /\ method = "PUT" /\ stage' = "READ_BODY" /\ status' = CrampedStatus
         /\ UNCHANGED <<getFd, opens>>
      \/ /\ method # "PUT" /\ stage' = "BUILD_HEADER" /\ status' = open_get_file.status
         /\ getFd' = open_get_file.ok
         /\ opens' = IF open_get_file.ok THEN opens + 1 ELSE opens
  BY DEF ReadHfEmpty
<1>5. getFd' \in BOOLEAN /\ status' \in Statuses /\ opens' \in Nat
  <2>1. CASE method = "PUT"
    BY <1>1, <1>4, <2>1, ReadingFacts, HeaderFacts DEF Statuses
  <2>2. CASE method # "PUT"
    <3>1. open_get_file.ok \in BOOLEAN /\ open_get_file.status \in Statuses /\ opens \in Nat
      BY <1>1, <1>3, <2>2, OpenGet, ReadingFacts
    <3>2. opens' \in Nat
      BY <1>4, <2>2, <3>1
    <3>3. getFd' \in BOOLEAN /\ status' \in Statuses
      BY <1>4, <2>2, <3>1
    <3> QED
      BY <3>2, <3>3
  <2> QED
    BY <2>1, <2>2
<1>6. TypeOK' /\ OneAnswer' /\ ResponseStage' /\ ContentLengthHonest' /\ headers' = 0
  <2>1. parsedEnd' \in 0..bufEnd' /\ bufEnd' \in 0..got' /\ got' \in 0..total
    BY <1>1, <1>2, HeaderFacts, ReadingFacts
  <2>2. lines' \in 0..(Len(input.hfs) + 2)
    BY <1>1, <1>3, ReadingFacts
  <2>3. /\ stage \in Reading /\ stage' \in Reading \cup {"BUILD_HEADER", "FINISHED"}
        /\ call' \in {"running", "idle"}
    BY <1>1, <1>4 DEF Reading
  <2> QED
    BY <1>1, <1>5, <2>1, <2>2, <2>3, ReadingKeeps, ReadingFacts
<1>7. BodyStage'
  <2> SUFFICES ASSUME stage' = "READ_BODY" PROVE BodyStage'
    BY DEF BodyStage
  <2>1. status' = "BAD_REQUEST" => bufEnd' >= BufLen - 1
    BY <1>1, <1>2, <1>4, HeaderFacts, ReadingFacts
  <2>2. method = "PUT" /\ status' \in {"OK", "BAD_REQUEST"} /\ getFd' = getFd
    BY <1>1, <1>4, HeaderFacts
  <2> QED
    BY <1>1, <1>2, <1>3, <2>1, <2>2, HeaderFacts DEF BodyStage
<1>8. BodyAccounting'
  <2>1. leftover' = got' - HeadEnd
    BY <1>1, <1>2, <1>3 DEF leftover
  <2>2. written' = 0 /\ ~putFd' /\ bodyLen' = DeclaredBody /\ DeclaredBody \in Nat
    BY <1>1, <1>3, HeaderFacts
  <2>3. got' \in Int /\ HeadEnd \in Int
    BY <1>2, ReadingFacts
  <2> QED
    BY <1>1, <2>1, <2>2, <2>3 DEF BodyAccounting
<1>9. AnswerSettled'
  <2> SUFFICES ASSUME stage' = "BUILD_HEADER" PROVE AnswerSettled'
    BY <1>6 DEF AnswerSettled
  <2>1. method # "PUT" /\ status' = open_get_file.status /\ getFd' = open_get_file.ok
    BY <1>4
  <2>2. /\ status' = "OK" => getFd'
        /\ ~BadKey => \/ status' = Deserved
                      \/ status' = "BAD_REQUEST" /\ bufEnd >= BufLen - 1
    BY <1>1, <1>3, <2>1, OpenGet
  <2>3. method \in {"GET", "PUT", "HEAD"}
    BY <1>1, HeaderFacts
  <2>4. bufEnd >= BufLen - 1 => bufEnd' >= BufLen - 1
    BY <1>2, ReadingFacts
  <2>5. ~Surplus'
    BY <1>1, <2>1 DEF Surplus
  <2>6. ~BadKey => GoodAnswer'
    BY <1>1, <2>2, <2>4, <2>5 DEF GoodAnswer, Cramped
  <2> QED
    BY <1>1, <2>1, <2>2, <2>3, <2>6 DEF AnswerSettled, ServesFile
<1>10. RequestLineStage' /\ HeaderStage' /\ ClosedEarly'
  BY <1>4 DEF RequestLineStage, HeaderStage, ClosedEarly
<1>11. FilesMatch'
  <2>1. ~putFd /\ ~getFd /\ opens = 0 /\ file = input.file
    BY <1>1, HeaderFacts DEF Inv, FilesMatch
  <2>2. opens' = IF getFd' THEN 1 ELSE 0
    BY <1>4, <2>1
  <2> QED
    BY <1>1, <2>1, <2>2 DEF FilesMatch
<1> QED
  BY <1>6, <1>7, <1>8, <1>9, <1>10, <1>11 DEF Inv

\* read_hf finds no line: the read stops, or there is no room to read into.
LEMMA ReadHfStopsInv == ASSUME Inv, ReadHfStops PROVE Inv'
<1> USE InputFixed
<1>1. /\ UNCHANGED <<input, total, method, lines, parsedEnd, bodyLen, fileVars, resVars>>
      /\ call = "running" /\ stage = "HEADER_FIELDS" /\ bufEnd < LineEnd(lines + 1)
  BY DEF ReadHfStops, At
<1>2. /\ bufEnd' = got' /\ got' \in bufEnd..total /\ got' < LineEnd(lines + 1)
      /\ stage' \in {"HEADER_FIELDS", "FINISHED", "BUILD_HEADER"}
      /\ call' \in {"running", "idle"}
      /\ status' \in {"OK", "BAD_REQUEST", "INTERNAL_ERROR"}
      /\ stage' = "HEADER_FIELDS" => status' = "OK"
      /\ stage' = "FINISHED" => got' = total \/ bufEnd' = BufLen
      /\ stage' = "BUILD_HEADER" => status' # "OK" /\ (failed' \/ GoodAnswer')
      /\ failed' \in BOOLEAN
  <2>0. space_in_buffer \in Int
    BY ReadingFacts DEF space_in_buffer
  <2>1. CASE space_in_buffer > 0
    <3>1. /\ \E end \in bufEnd..Min({LineEnd(lines + 1) - 1, total}) : Buffer(end)
          /\ \/ call' = "idle" /\ stage' = CrampedStage /\ status' = CrampedStatus
                /\ UNCHANGED failed
             \/ got' = total /\ stage' = "FINISHED" /\ status' = CrampedStatus
                /\ UNCHANGED <<call, failed>>
             \/ stage' = "BUILD_HEADER" /\ status' = "INTERNAL_ERROR" /\ failed' = TRUE
                /\ UNCHANGED call
      <4>1. ReadHfStops /\ space_in_buffer > 0 /\ ~(space_in_buffer = 0)
        BY <2>0, <2>1
      <4> QED
        BY <4>1, Zenon DEF ReadHfStops
    <3>2. LineEnd(lines + 1) - 1 \in Int /\ total \in Int
      BY <1>1, HeaderFacts, ReadingFacts
    <3>3. Min({LineEnd(lines + 1) - 1, total})
            = IF LineEnd(lines + 1) - 1 <= total THEN LineEnd(lines + 1) - 1 ELSE total
      BY <3>2, MinTwo
    <3>4. bufEnd' = got' /\ got' \in bufEnd..total /\ got' < LineEnd(lines + 1)
      <4>1. PICK end \in bufEnd..Min({LineEnd(lines + 1) - 1, total}) : Buffer(end)
        BY <3>1
      <4>2. end \in bufEnd..total /\ end < LineEnd(lines + 1)
        <5>1. LineEnd(lines + 1) \in Int /\ bufEnd \in Int /\ total \in Int
          BY <1>1, HeaderFacts, ReadingFacts
        <5> QED
          BY <3>3, <4>1, <5>1
      <4> QED
        BY <4>1, <4>2 DEF Buffer
    <3>5. CASE call' = "idle" /\ stage' = CrampedStage /\ status' = CrampedStatus
                 /\ UNCHANGED failed
      <4>1. status' = "BAD_REQUEST" => bufEnd' >= BufLen - 1
        BY <1>1, <3>4, <3>5, HeaderFacts, ReadingFacts
      <4>2. status' = "BAD_REQUEST" => GoodAnswer'
        BY <4>1 DEF GoodAnswer, Cramped
      <4> QED
        BY <1>1, <3>4, <3>5, <4>2, HeaderFacts, ReadingFacts
    <3>6. CASE got' = total /\ stage' = "FINISHED" /\ status' = CrampedStatus
                 /\ UNCHANGED <<call, failed>>
      BY <1>1, <3>4, <3>6, HeaderFacts, ReadingFacts
    <3>7. CASE stage' = "BUILD_HEADER" /\ status' = "INTERNAL_ERROR" /\ failed' = TRUE
                 /\ UNCHANGED call
      <4>1. call' = "running"
        BY <1>1, <3>7
      <4> QED
        BY <3>4, <3>7, <4>1
    <3> QED
      BY <3>1, <3>5, <3>6, <3>7
  <2>2. CASE space_in_buffer <= 0
    <3>1. /\ UNCHANGED <<bufEnd, got, call, failed>>
          /\ stage' \in {"FINISHED", "BUILD_HEADER"}
          /\ status' = IF stage' = "FINISHED" THEN "BAD_REQUEST" ELSE "INTERNAL_ERROR"
          /\ stage' = "FINISHED" <=> space_in_buffer = 0
      BY <2>0, <2>2 DEF ReadHfStops
    <3>2. /\ stage' = "FINISHED" => bufEnd' = BufLen
          /\ stage' = "BUILD_HEADER" => bufEnd' > BufLen
      BY <2>2, <3>1, ReadingFacts DEF space_in_buffer
    <3>3. stage' = "BUILD_HEADER" => GoodAnswer'
      BY <3>1, <3>2 DEF GoodAnswer
    <3>4. got = bufEnd /\ got \in bufEnd..total
      BY <1>1, HeaderFacts, ReadingFacts
    <3> QED
      BY <1>1, <3>1, <3>2, <3>3, <3>4, ReadingFacts
  <2> QED
    BY <2>0, <2>1, <2>2
<1>3. TypeOK' /\ OneAnswer' /\ ResponseStage' /\ ContentLengthHonest' /\ headers' = 0
  <2>1. UNCHANGED <<putFd, getFd, opens, file, written>>
    BY <1>1 DEF fileVars
  <2>2. parsedEnd' \in 0..bufEnd' /\ bufEnd' \in 0..got' /\ got' \in 0..total
    BY <1>1, <1>2, ReadingFacts
  <2>3. /\ stage \in Reading /\ stage' \in Reading \cup {"BUILD_HEADER", "FINISHED"}
        /\ status' \in Statuses
    BY <1>1, <1>2 DEF Reading, Statuses
  <2> QED
    BY <1>1, <1>2, <2>1, <2>2, <2>3, ReadingKeeps, ReadingFacts
<1>4. HeaderStage'
  BY <1>1, <1>2, HeaderFacts DEF HeaderStage, fileVars
<1>5. AnswerSettled'
  BY <1>1, <1>2, <1>3 DEF AnswerSettled, ServesFile
<1>6. RequestLineStage' /\ BodyStage' /\ BodyAccounting'
  BY <1>2 DEF RequestLineStage, BodyStage, BodyAccounting
<1>7. ClosedEarly'
  <2>1. stage' = "FINISHED" => total < HeadEnd \/ (bufEnd' = BufLen /\ bufEnd' < HeadEnd)
    BY <1>1, <1>2, HeaderFacts, ReadingFacts
  <2>2. DeclaredBody \in Nat /\ HeadEnd \in Nat /\ total \in Nat
    BY <1>1, HeaderFacts, ReadingFacts
  <2>3. stage' = "FINISHED" =>
          \/ total < HeadEnd + (IF method = "PUT" THEN DeclaredBody ELSE 0)
          \/ bufEnd' = BufLen /\ bufEnd' < HeadEnd
    BY <2>1, <2>2
  <2> QED
    BY <1>1, <2>3 DEF ClosedEarly
<1>8. FilesMatch'
  BY <1>1, <1>2 DEF Inv, FilesMatch, fileVars
<1> QED
  BY <1>3, <1>4, <1>5, <1>6, <1>7, <1>8 DEF Inv

-----------------------------------------------------------------------------
(***************************************************************************)
(* read_request_body.                                                      *)
(***************************************************************************)

\* What read_request_body relies on.  One read never asks for more than the
\* body; with more than half a scratch buffer, or more than the body, left over
\* from the head it asks for less than nothing.
LEMMA BodyFacts ==
  ASSUME Inv, stage = "READ_BODY"
  PROVE  /\ method = "PUT" /\ ~getFd /\ status \in {"OK", "BAD_REQUEST", "CREATED"}
         /\ leftover \in 0..bufEnd /\ DeclaredBody \in Nat
         /\ written + bodyLen = DeclaredBody /\ written + leftover = got - HeadEnd
         /\ leftover > 0 => got = bufEnd
         /\ read_len \in Int /\ leftover + read_len <= bodyLen
         /\ read_len < 0 => leftover > bodyLen \/ leftover > BufLen
<1>1. method = "PUT" /\ ~getFd /\ status \in {"OK", "BAD_REQUEST", "CREATED"}
  BY DEF Inv, BodyStage
<1>2. leftover \in 0..bufEnd
  BY ReadingFacts DEF leftover
<1>3. DeclaredBody \in Nat
  BY DeclaredStep, ReadingFacts DEF DeclaredBody
<1>4. written + bodyLen = DeclaredBody /\ written + leftover = got - HeadEnd
  BY DEF Inv, BodyAccounting
<1>5. leftover > 0 => got = bufEnd
  BY DEF Inv, BodyStage
<1>6. /\ read_len \in Int /\ leftover + read_len <= bodyLen
      /\ read_len < 0 => leftover > bodyLen \/ leftover > BufLen
  <2>1. ReadLen - leftover \in Int /\ bodyLen \in Int /\ leftover \in Int
    BY <1>2, ReadingFacts
  <2>2. Min({ReadLen - leftover, bodyLen})
          = IF ReadLen - leftover <= bodyLen THEN ReadLen - leftover ELSE bodyLen
    BY <2>1, MinTwo
  <2>3. read_len = (IF ReadLen - leftover <= bodyLen THEN ReadLen - leftover ELSE bodyLen)
                     - leftover
    BY <2>2 DEF read_len
  <2>4. ReadLen \in Nat /\ BufLen \in Nat /\ ReadLen > 2 * BufLen
    BY BufAssumption, ReadLenAssumption
  <2> QED
    BY <2>1, <2>3, <2>4
<1> QED
  BY <1>1, <1>2, <1>3, <1>4, <1>5, <1>6

\* A PUT whose head is good deserves what the state of its file says.
LEMMA DeservedPut ==
  ASSUME Inv, stage = "READ_BODY", ~BadKey
  PROVE  Deserved = IF input.rl.uri = "long" THEN "INTERNAL_ERROR"
                    ELSE IF input.file.kind \in {"regular", "putonly"} THEN "OK"
                    ELSE IF input.file.kind = "absent" THEN "CREATED" ELSE "FORBIDDEN"
<1>1. /\ input.rl.method = "PUT" /\ input.rl.uri # "invalid" /\ input.rl.proto # "invalid"
      /\ \A k \in DOMAIN input.hfs : input.hfs[k].key \notin BadKeys
  BY DEF Inv, BodyStage
<1>2. ~(\E k \in DOMAIN input.hfs : input.hfs[k].key \in {"badlength", "nocolon"})
  BY <1>1 DEF BadKeys
<1> QED
  BY <1>1, <1>2 DEF Deserved

\* The file of a PUT: open already, or truncated or created now.  Its size is
\* what was written, however often the handler was entered.
LEMMA OpenPutEffect ==
  ASSUME Inv, stage = "READ_BODY"
  PROVE  /\ OpenPut.ok => /\ OpenPut.opened = IF putFd THEN 0 ELSE 1
                          /\ OpenPut.file \in FileStates
                          /\ OpenPut.file.kind \in {"regular", "putonly"}
                          /\ OpenPut.file.size = written
                          /\ OpenPut.status \in {"OK", "BAD_REQUEST", "CREATED"}
                          /\ OpenPut.status = "BAD_REQUEST" => bufEnd >= BufLen - 1
                          /\ ~BadKey => /\ Deserved \in {"OK", "CREATED"}
                                        /\ OpenPut.status \in {Deserved, "BAD_REQUEST"}
         /\ ~OpenPut.ok => /\ OpenPut.status \in {"FORBIDDEN", "INTERNAL_ERROR"}
                           /\ ~BadKey => OpenPut.status = Deserved
<1>0. file \in FileStates /\ written \in Nat /\ status \in {"OK", "BAD_REQUEST", "CREATED"}
  BY ReadingFacts, BodyFacts
<1>1. CASE putFd
  <2>1. /\ file.kind \in {"regular", "putonly"} /\ file.size = written
        /\ ~BadKey => Deserved \in {"OK", "CREATED"} /\ status \in {Deserved, "BAD_REQUEST"}
        /\ status = "BAD_REQUEST" => bufEnd >= BufLen - 1
    BY <1>1 DEF Inv, BodyStage, BodyAccounting
  <2>2. OpenPut = [status |-> status, file |-> file, opened |-> 0, ok |-> TRUE]
    BY <1>1 DEF OpenPut
  <2> QED
    BY <1>0, <1>1, <2>1, <2>2
<1>2. CASE ~putFd
  <2>1. /\ written = 0 /\ status \in {"OK", "BAD_REQUEST"} /\ file = input.file
        /\ status = "BAD_REQUEST" => bufEnd >= BufLen - 1
    BY <1>2 DEF Inv, BodyStage, FilesMatch
  <2>2. OpenPut = create_filename
    BY <1>2 DEF OpenPut
  <2>3. CASE input.rl.uri = "long"
    <3>1. OpenPut = [status |-> "INTERNAL_ERROR", file |-> file, opened |-> 0, ok |-> FALSE]
      BY <2>2, <2>3 DEF create_filename
    <3>2. ~BadKey => Deserved = "INTERNAL_ERROR"
      BY <2>3, DeservedPut
    <3> QED
      BY <3>1, <3>2
  <2>4. CASE input.rl.uri # "long" /\ file.kind \in {"regular", "putonly"}
    <3>1. OpenPut = [status |-> status, file |-> [kind |-> file.kind, size |-> 0],
                     opened |-> 1, ok |-> TRUE]
      BY <2>2, <2>4 DEF create_filename
    <3>2. ~BadKey => Deserved = "OK"
      BY <2>1, <2>4, DeservedPut
    <3>3. [kind |-> file.kind, size |-> 0] \in FileStates
      BY <2>4 DEF FileStates
    <3> QED
      BY <1>0, <1>2, <2>1, <2>4, <3>1, <3>2, <3>3
  <2>5. CASE input.rl.uri # "long" /\ file.kind = "absent"
    <3>1. OpenPut = [status |-> "CREATED", file |-> [kind |-> "regular", size |-> 0],
                     opened |-> 1, ok |-> TRUE]
      BY <2>2, <2>5 DEF create_filename
    <3>2. ~BadKey => Deserved = "CREATED"
      BY <2>1, <2>5, DeservedPut
    <3>3. [kind |-> "regular", size |-> 0] \in FileStates
      BY DEF FileStates
    <3> QED
      BY <1>2, <2>1, <3>1, <3>2, <3>3
  <2>6. CASE input.rl.uri # "long" /\ file.kind \notin {"regular", "putonly", "absent"}
    <3>1. OpenPut = [status |-> "FORBIDDEN", file |-> file, opened |-> 0, ok |-> FALSE]
      BY <2>2, <2>6 DEF create_filename
    <3>2. ~BadKey => Deserved = "FORBIDDEN"
      BY <2>1, <2>6, DeservedPut
    <3> QED
      BY <3>1, <3>2
  <2> QED
    BY <2>3, <2>4, <2>5, <2>6
<1> QED
  BY <1>1, <1>2

\* m bytes of the body reach the file.
LEMMA BodyStep ==
  ASSUME Inv, stage = "READ_BODY", call = "running", OpenPut.ok,
         UNCHANGED <<input, total, method, lines, bufEnd, resVars>>,
         NEW m \in Nat, m <= bodyLen, Opened(written + m),
         written' = written + m, bodyLen' = bodyLen - m, parsedEnd' \in {parsedEnd, bufEnd},
         got' \in got..total, status' \in {OpenPut.status, "INTERNAL_ERROR"},
         failed' \in BOOLEAN,
         stage' \in {"READ_BODY", "BUILD_HEADER", "FINISHED"}, call' \in {"running", "idle"}
  PROVE  /\ TypeOK' /\ OneAnswer' /\ ResponseStage' /\ ContentLengthHonest' /\ headers' = 0
         /\ FilesMatch' /\ RequestLineStage' /\ HeaderStage'
         /\ putFd' /\ ~getFd' /\ file'.kind \in {"regular", "putonly"}
         /\ file'.size = written'
<1>1. /\ OpenPut.opened = IF putFd THEN 0 ELSE 1
      /\ OpenPut.file \in FileStates
      /\ OpenPut.file.kind \in {"regular", "putonly"}
      /\ OpenPut.status \in {"OK", "BAD_REQUEST", "CREATED"}
  BY OpenPutEffect
<1>2. written' \in Nat /\ bodyLen' \in Nat
  <2>1. written \in Nat /\ bodyLen \in Nat
    BY ReadingFacts
  <2> QED
    BY <2>1
<1>3. /\ file' \in FileStates /\ file'.kind \in {"regular", "putonly"} /\ file'.size = written'
  <2>1. file' = [OpenPut.file EXCEPT !.size = written']
    BY DEF Opened
  <2> QED
    BY <1>1, <1>2, <2>1 DEF FileStates
<1>4. putFd' = TRUE /\ getFd' = getFd /\ ~getFd
  BY BodyFacts DEF Opened
<1>5. opens' = 1
  <2>1. opens = IF putFd THEN 1 ELSE 0
    BY <1>4 DEF Inv, FilesMatch
  <2> QED
    BY <1>1, <2>1 DEF Opened
<1>6. FilesMatch'
  BY <1>4, <1>5 DEF FilesMatch
<1>7. RequestLineStage' /\ HeaderStage'
  BY DEF RequestLineStage, HeaderStage
<1>8. TypeOK' /\ OneAnswer' /\ ResponseStage' /\ ContentLengthHonest' /\ headers' = 0
  <2>1. putFd' \in BOOLEAN /\ getFd' \in BOOLEAN
    <3>1. getFd \in BOOLEAN
      BY ReadingFacts
    <3> QED
      BY <1>4, <3>1
  <2>2. parsedEnd' \in 0..bufEnd' /\ bufEnd' \in 0..got' /\ got' \in 0..total
    <3>1. /\ total \in Nat /\ got \in 0..total /\ bufEnd \in 0..got /\ parsedEnd \in 0..bufEnd
          /\ bufEnd' = bufEnd
      BY ReadingFacts
    <3> QED
      BY <3>1
  <2>3. /\ stage \in Reading /\ stage' \in Reading \cup {"BUILD_HEADER", "FINISHED"}
        /\ status' \in Statuses
    BY <1>1 DEF Reading, Statuses
  <2>4. opens' \in Nat
    BY <1>5
  <2>5. method' \in Methods /\ lines' \in 0..(Len(input.hfs) + 2)
    BY ReadingFacts
  <2>6. UNCHANGED <<input, total, resVars>>
    OBVIOUS
  <2> QED
    BY <1>2, <1>3, <2>1, <2>2, <2>3, <2>4, <2>5, <2>6, ReadingKeeps
<1> QED
  BY <1>3, <1>4, <1>6, <1>7, <1>8

\* The file cannot be opened, or the scratch buffer is full.
LEMMA ReadBodyRefusedInv == ASSUME Inv, ReadBodyRefused PROVE Inv'
<1> USE InputFixed
<1>1. /\ UNCHANGED <<input, total, reqVars, fileVars, resVars, call>>
      /\ call = "running" /\ stage = "READ_BODY" /\ stage' = "BUILD_HEADER"
      /\ leftover = ReadLen \/ ~OpenPut.ok
      /\ status' = IF leftover = ReadLen THEN "BAD_REQUEST" ELSE OpenPut.status
  BY DEF ReadBodyRefused, At
<1>2. /\ UNCHANGED <<method, lines, bufEnd, parsedEnd, got, bodyLen, failed>>
      /\ UNCHANGED <<putFd, getFd, opens, file, written>>
  BY <1>1 DEF reqVars, fileVars
<1>3. /\ status' \in {"BAD_REQUEST", "FORBIDDEN", "INTERNAL_ERROR"}
      /\ ~BadKey => GoodAnswer'
  <2>1. CASE leftover = ReadLen
    <3>1. bufEnd >= BufLen - 1
      <4>1. leftover \in 0..bufEnd /\ bufEnd \in Nat
        BY <1>1, BodyFacts, ReadingFacts
      <4>2. ReadLen \in Nat /\ BufLen \in Nat /\ ReadLen > 2 * BufLen
        BY BufAssumption, ReadLenAssumption
      <4> QED
        BY <2>1, <4>1, <4>2
    <3> QED
      BY <1>1, <1>2, <2>1, <3>1 DEF GoodAnswer, Cramped
  <2>2. CASE leftover # ReadLen
    <3>1. status' \in {"FORBIDDEN", "INTERNAL_ERROR"} /\ (~BadKey => status' = Deserved)
      BY <1>1, <2>2, OpenPutEffect
    <3> QED
      BY <1>1, <3>1 DEF GoodAnswer
  <2> QED
    BY <2>1, <2>2
<1>4. TypeOK' /\ OneAnswer' /\ ResponseStage' /\ ContentLengthHonest' /\ headers' = 0
  <2>1. status' \in Statuses
    BY <1>3 DEF Statuses
  <2>2. /\ stage \in Reading /\ stage' \in Reading \cup {"BUILD_HEADER", "FINISHED"}
        /\ call' \in {"running", "idle"}
    BY <1>1 DEF Reading
  <2> QED
    BY <1>1, <1>2, <2>1, <2>2, ReadingKeeps, ReadingFacts
<1>5. AnswerSettled'
  BY <1>1, <1>2, <1>3, BodyFacts DEF AnswerSettled, ServesFile
<1>6. RequestLineStage' /\ HeaderStage' /\ BodyStage' /\ BodyAccounting' /\ ClosedEarly'
  BY <1>1 DEF RequestLineStage, HeaderStage, BodyStage, BodyAccounting, ClosedEarly
<1>7. FilesMatch'
  BY <1>1, <1>2 DEF Inv, FilesMatch
<1> QED
  BY <1>4, <1>5, <1>6, <1>7 DEF Inv

\* READ_BODY is entered again with the file open and the status it was given.
LEMMA BodyStageKept ==
  ASSUME Inv, stage = "READ_BODY", UNCHANGED <<input, method>>, OpenPut.ok,
         stage' = "READ_BODY" => /\ status' = OpenPut.status
                                 /\ leftover' > 0 => got' = bufEnd',
         bufEnd' = bufEnd, putFd', ~getFd', file'.kind \in {"regular", "putonly"}
  PROVE  BodyStage'
<1>1. /\ OpenPut.status \in {"OK", "BAD_REQUEST", "CREATED"}
      /\ OpenPut.status = "BAD_REQUEST" => bufEnd >= BufLen - 1
      /\ ~BadKey => Deserved \in {"OK", "CREATED"} /\ OpenPut.status \in {Deserved, "BAD_REQUEST"}
  BY OpenPutEffect
<1> QED
  BY <1>1, InputFixed DEF Inv, BodyStage

\* The read of the body delivers nothing.
LEMMA ReadBodyStopsInv == ASSUME Inv, ReadBodyStops PROVE Inv'
<1> USE InputFixed
<1>1. /\ UNCHANGED <<input, total, written, resVars>>
      /\ call = "running" /\ stage = "READ_BODY" /\ OpenPut.ok
      /\ Opened(OpenPut.file.size) /\ read_len # 0
      /\ \/ read_len > 0 /\ call' = "idle" /\ stage' = stage /\ status' = OpenPut.status
            /\ failed' = failed
         \/ read_len > 0 /\ got = total /\ stage' = "FINISHED" /\ status' = OpenPut.status
            /\ call' = call /\ failed' = failed
         \/ stage' = "BUILD_HEADER" /\ status' = "INTERNAL_ERROR" /\ call' = call
            /\ failed' = (failed \/ read_len > 0)
  BY DEF ReadBodyStops, BodyStops, At
<1>2. UNCHANGED <<method, lines, bufEnd, parsedEnd, got, bodyLen>>
  BY DEF ReadBodyStops, BodyStops
<1>3. /\ written \in Nat /\ bodyLen \in Nat /\ got \in got..total
      /\ written' = written + 0 /\ bodyLen' = bodyLen - 0 /\ 0 <= bodyLen
  BY <1>1, <1>2, ReadingFacts
<1>4. Opened(written + 0)
  <2>1. OpenPut.file.size = written + 0
    BY <1>1, <1>3, OpenPutEffect
  <2> QED
    BY <1>1, <2>1
<1>5. /\ stage' \in {"READ_BODY", "BUILD_HEADER", "FINISHED"} /\ call' \in {"running", "idle"}
      /\ status' \in {OpenPut.status, "INTERNAL_ERROR"}
      /\ stage' = "READ_BODY" => status' = OpenPut.status
      /\ stage' = "BUILD_HEADER" => status' = "INTERNAL_ERROR"
      /\ stage' = "FINISHED" => got = total /\ read_len > 0
  BY <1>1
<1>6. failed' \in BOOLEAN
  <2>1. failed \in BOOLEAN
    BY ReadingFacts
  <2> QED
    BY <1>1, <2>1
<1>7. stage' = "BUILD_HEADER" /\ ~failed' => read_len < 0
  <2>1. read_len \in Int
    BY <1>1, BodyFacts
  <2>2. stage' = "BUILD_HEADER" => (failed' <=> failed \/ read_len > 0)
    BY <1>1
  <2> QED
    BY <1>1, <2>1, <2>2
<1>8. /\ TypeOK' /\ OneAnswer' /\ ResponseStage' /\ ContentLengthHonest' /\ headers' = 0
      /\ FilesMatch' /\ RequestLineStage' /\ HeaderStage'
      /\ putFd' /\ ~getFd' /\ file'.kind \in {"regular", "putonly"} /\ file'.size = written'
  <2>1. parsedEnd' \in {parsedEnd, bufEnd} /\ got' \in got..total /\ 0 \in Nat
    BY <1>2, <1>3
  <2> QED
    BY <1>1, <1>2, <1>3, <1>4, <1>5, <1>6, <2>1, BodyStep
<1>9. BodyStage'
  <2>1. leftover' > 0 => got' = bufEnd'
    BY <1>1, <1>2, BodyFacts DEF leftover
  <2> QED
    BY <1>1, <1>2, <1>5, <1>8, <2>1, BodyStageKept
<1>10. BodyAccounting'
  BY <1>1, <1>2, <1>8, BodyFacts DEF BodyAccounting, leftover
<1>11. AnswerSettled'
  <2>1. ASSUME stage' = "BUILD_HEADER", ~failed', ~BadKey PROVE GoodAnswer'
    <3>1. leftover > bodyLen \/ leftover > BufLen
      BY <1>1, <1>7, <2>1, BodyFacts
    <3>2. /\ leftover \in 0..bufEnd /\ (leftover > 0 => got = bufEnd)
          /\ written + bodyLen = DeclaredBody /\ written + leftover = got - HeadEnd
      BY <1>1, BodyFacts
    <3>3. CASE leftover > BufLen
      <4>1. bufEnd' > BufLen /\ status' = "INTERNAL_ERROR"
        BY <1>2, <1>5, <2>1, <3>2, <3>3, ReadingFacts
      <4> QED
        BY <4>1 DEF GoodAnswer
    <3>4. CASE leftover > bodyLen
      <4>1. bufEnd > HeadEnd + DeclaredBody
        BY <3>2, <3>4, ReadingFacts
      <4>2. method' = "PUT" /\ bufEnd' = bufEnd
        BY <1>1, <1>2, BodyFacts
      <4>3. Surplus'
        BY <1>1, <4>1, <4>2 DEF Surplus
      <4>4. Deserved \in {"OK", "CREATED"}
        BY <1>1, <2>1, OpenPutEffect
      <4> QED
        BY <1>1, <1>5, <2>1, <4>3, <4>4 DEF GoodAnswer
    <3> QED
      BY <3>1, <3>3, <3>4
  <2> QED
    BY <1>2, <1>5, <1>8, <1>1, <2>1, BodyFacts DEF AnswerSettled, ServesFile
<1>12. ClosedEarly'
  <2> SUFFICES ASSUME stage' = "FINISHED" PROVE total < HeadEnd + DeclaredBody
    BY <1>1, <1>2, BodyFacts DEF ClosedEarly
  <2>1. total = got /\ read_len > 0
    BY <1>5
  <2>2. /\ written + bodyLen = DeclaredBody /\ written + leftover = got - HeadEnd
        /\ read_len \in Int /\ leftover + read_len <= bodyLen /\ leftover \in 0..bufEnd
    BY <1>1, BodyFacts
  <2>3. written \in Nat /\ bodyLen \in Nat /\ HeadEnd \in Nat /\ got \in Nat /\ bufEnd \in Nat
    BY ReadingFacts
  <2> QED
    BY <2>1, <2>2, <2>3
<1> QED
  BY <1>8, <1>9, <1>10, <1>11, <1>12 DEF Inv

\* A read never takes more than the body still lacks, nor more than was sent.
LEMMA BodyReadBounds ==
  ASSUME Inv, stage = "READ_BODY", read_len >= 0, NEW g \in BodyRead
  PROVE  g \in got..total /\ leftover + g - got \in 0..bodyLen
<1>1. /\ leftover \in Nat /\ got \in Nat /\ total \in Nat /\ got <= total /\ bodyLen \in Nat
      /\ read_len \in Nat /\ leftover + read_len <= bodyLen
  BY BodyFacts, ReadingFacts
<1>2. CASE read_len = 0
  <2>1. g = got
    BY <1>2 DEF BodyRead
  <2> QED
    BY <1>1, <1>2, <2>1
<1>3. CASE read_len # 0
  <2>1. Min({got + read_len, total}) = IF got + read_len <= total THEN got + read_len ELSE total
    <3>1. got + read_len \in Int /\ total \in Int
      BY <1>1
    <3> QED
      BY <3>1, MinTwo
  <2>2. g \in (got + 1)..Min({got + read_len, total})
    BY <1>3 DEF BodyRead
  <2> QED
    BY <1>1, <2>1, <2>2
<1> QED
  BY <1>2, <1>3

\* The bytes in the scratch buffer are written to the file.
LEMMA ReadBodyStoresInv == ASSUME Inv, ReadBodyStores PROVE Inv'
<1> USE InputFixed
<1>1. /\ UNCHANGED <<input, total, method, lines, bufEnd, failed, resVars, call>>
      /\ call = "running" /\ stage = "READ_BODY" /\ OpenPut.ok /\ read_len >= 0
      /\ parsedEnd' = bufEnd
  BY DEF ReadBodyStores, StoreBody, At
<1>2. PICK g \in BodyRead :
         /\ got' = g
         /\ Opened(OpenPut.file.size + (leftover + g - got))
         /\ written' = written + (leftover + g - got)
         /\ bodyLen' = bodyLen - (leftover + g - got)
         /\ status' = OpenPut.status
         /\ stage' = IF bodyLen = leftover + g - got THEN "BUILD_HEADER" ELSE stage
  BY DEF ReadBodyStores, StoreBody
<1> DEFINE n == leftover + g - got
<1>3. g \in got..total /\ n \in 0..bodyLen
  BY <1>1, BodyReadBounds
<1>4. /\ written \in Nat /\ bodyLen \in Nat /\ HeadEnd \in Nat /\ got \in Nat /\ leftover \in Int
      /\ written + bodyLen = DeclaredBody /\ written + leftover = got - HeadEnd
  BY <1>1, BodyFacts, ReadingFacts
<1>5. written + n = g - HeadEnd
  BY <1>3, <1>4
<1>6. Opened(written + n) /\ written' = written + n /\ bodyLen' = bodyLen - n
  <2>1. OpenPut.file.size = written
    BY <1>1, OpenPutEffect
  <2> QED
    BY <1>2, <2>1
<1> HIDE DEF n
<1>7. n \in Nat /\ n <= bodyLen
  BY <1>3, <1>4
<1>8. /\ stage' = IF bodyLen = n THEN "BUILD_HEADER" ELSE "READ_BODY"
      /\ status' = OpenPut.status /\ got' = g
  BY <1>1, <1>2 DEF n
<1>9. /\ TypeOK' /\ OneAnswer' /\ ResponseStage' /\ ContentLengthHonest' /\ headers' = 0
      /\ FilesMatch' /\ RequestLineStage' /\ HeaderStage'
      /\ putFd' /\ ~getFd' /\ file'.kind \in {"regular", "putonly"} /\ file'.size = written'
  <2>1. parsedEnd' \in {parsedEnd, bufEnd} /\ got' \in got..total /\ call' \in {"running", "idle"}
    BY <1>1, <1>3, <1>8
  <2>2. /\ stage' \in {"READ_BODY", "BUILD_HEADER", "FINISHED"}
        /\ status' \in {OpenPut.status, "INTERNAL_ERROR"} /\ failed' \in BOOLEAN
    BY <1>1, <1>8, ReadingFacts
  <2> QED
    BY <1>1, <1>6, <1>7, <2>1, <2>2, BodyStep
<1>10. BodyStage'
  <2>1. leftover' = 0
    BY <1>1, ReadingFacts DEF leftover
  <2>2. (leftover' > 0 => got' = bufEnd') /\ bufEnd' = bufEnd
    BY <1>1, <2>1
  <2> QED
    BY <1>1, <1>8, <1>9, <2>2, BodyStageKept
<1>11. BodyAccounting'
  <2>1. leftover' = 0
    BY <1>1, ReadingFacts DEF leftover
  <2>2. written' + bodyLen' = DeclaredBody /\ written' + 0 = got' - HeadEnd
    BY <1>4, <1>5, <1>6, <1>7, <1>8
  <2> QED
    BY <1>1, <1>9, <2>1, <2>2 DEF BodyAccounting
<1>12. AnswerSettled'
  <2> SUFFICES ASSUME stage' = "BUILD_HEADER" PROVE AnswerSettled'
    BY <1>9 DEF AnswerSettled
  <2>1. file'.size = DeclaredBody
    BY <1>4, <1>6, <1>7, <1>8, <1>9
  <2>2. ~BadKey => GoodAnswer'
    <3>1. /\ status' = "BAD_REQUEST" => bufEnd' >= BufLen - 1
          /\ ~BadKey => status' \in {Deserved, "BAD_REQUEST"}
      BY <1>1, <1>8, OpenPutEffect
    <3>2. ~Surplus'
      <4>1. bufEnd <= got /\ bufEnd \in Nat /\ read_len \in Int /\ leftover + read_len <= bodyLen
        BY <1>1, BodyFacts, ReadingFacts
      <4>2. bufEnd <= HeadEnd + DeclaredBody
        BY <1>1, <1>4, <4>1
      <4> QED
        BY <1>1, <1>4, <4>1, <4>2 DEF Surplus
    <3> QED
      BY <1>1, <3>1, <3>2 DEF GoodAnswer, Cramped
  <2>3. method' = "PUT"
    BY <1>1, BodyFacts
  <2> QED
    BY <1>1, <1>9, <2>1, <2>2, <2>3 DEF AnswerSettled, ServesFile
<1>13. ClosedEarly'
  BY <1>8 DEF ClosedEarly
<1> QED
  BY <1>9, <1>10, <1>11, <1>12, <1>13 DEF Inv

\* A write fails half-way.
LEMMA ReadBodyWriteErrorInv == ASSUME Inv, ReadBodyWriteError PROVE Inv'
<1> USE InputFixed
<1>1. /\ UNCHANGED <<input, total, method, lines, bufEnd, parsedEnd, resVars, call>>
      /\ call = "running" /\ stage = "READ_BODY" /\ OpenPut.ok /\ read_len >= 0
      /\ stage' = "BUILD_HEADER" /\ status' = "INTERNAL_ERROR" /\ failed' = TRUE
  BY DEF ReadBodyWriteError, At
<1>2. PICK g \in BodyRead : \E m \in 0..(leftover + g - got - 1) :
         /\ got' = g
         /\ Opened(OpenPut.file.size + m)
         /\ written' = written + m
         /\ bodyLen' = bodyLen - m
  BY DEF ReadBodyWriteError
<1>3. PICK m \in 0..(leftover + g - got - 1) :
         /\ got' = g
         /\ Opened(OpenPut.file.size + m)
         /\ written' = written + m
         /\ bodyLen' = bodyLen - m
  BY <1>2
<1>4. g \in got..total /\ m \in Nat /\ m <= bodyLen
  <2>1. g \in got..total /\ leftover + g - got \in 0..bodyLen
    BY <1>1, BodyReadBounds
  <2>2. bodyLen \in Nat /\ got \in Nat /\ total \in Nat /\ leftover \in Int
    BY <1>1, ReadingFacts, BodyFacts
  <2> QED
    BY <2>1, <2>2
<1>5. Opened(written + m)
  <2>1. OpenPut.file.size = written
    BY <1>1, OpenPutEffect
  <2> QED
    BY <1>3, <2>1
<1>6. /\ TypeOK' /\ OneAnswer' /\ ResponseStage' /\ ContentLengthHonest' /\ headers' = 0
      /\ FilesMatch' /\ RequestLineStage' /\ HeaderStage'
  <2>1. parsedEnd' \in {parsedEnd, bufEnd} /\ got' \in got..total /\ call' \in {"running", "idle"}
    BY <1>1, <1>3, <1>4
  <2>2. /\ stage' \in {"READ_BODY", "BUILD_HEADER", "FINISHED"}
        /\ status' \in {OpenPut.status, "INTERNAL_ERROR"} /\ failed' \in BOOLEAN
    BY <1>1
  <2> QED
    BY <1>1, <1>3, <1>4, <1>5, <2>1, <2>2, BodyStep
<1>7. AnswerSettled'
  BY <1>1, <1>6, BodyFacts DEF AnswerSettled, ServesFile
<1>8. BodyStage' /\ BodyAccounting' /\ ClosedEarly'
  BY <1>1 DEF BodyStage, BodyAccounting, ClosedEarly
<1> QED
  BY <1>6, <1>7, <1>8 DEF Inv

-----------------------------------------------------------------------------
(***************************************************************************)
(* The theorems.                                                           *)
(***************************************************************************)

\* Every step of handle_request keeps what its stages rely on.
LEMMA NextInv == Inv /\ [Next]_vars => Inv'
<1> SUFFICES ASSUME Inv, [Next]_vars PROVE Inv'
  OBVIOUS
<1>1. CASE Call \/ UNCHANGED vars
  BY <1>1, CallInv
<1>2. CASE ReadRlLine \/ ReadRlTooLong \/ ReadRlStops
  BY <1>2, ReadRlLineInv, ReadRlNoLineInv
<1>3. CASE ReadHfField \/ ReadHfEmpty \/ ReadHfStops
  BY <1>3, ReadHfFieldInv, ReadHfEmptyInv, ReadHfStopsInv
<1>4. CASE ReadBodyRefused \/ ReadBodyStops \/ ReadBodyStores \/ ReadBodyWriteError
  BY <1>4, ReadBodyRefusedInv, ReadBodyStopsInv, ReadBodyStoresInv, ReadBodyWriteErrorInv
<1>5. CASE Responding
  BY <1>5, RespondingInv
<1>6. CASE Finish
  BY <1>6, FinishInv
<1> QED
  BY <1>1, <1>2, <1>3, <1>4, <1>5, <1>6 DEF Next, handle_request, Responding

\* The invariant holds in every state of every run.
LEMMA InvHolds == Spec => []Inv
<1>1. Init => Inv
  BY InitInv
<1>2. Inv /\ [Next]_vars => Inv'
  BY NextInv
<1> QED
  BY <1>1, <1>2, PTL DEF Spec

\* Offsets are ordered and counters are never negative: parsed_end <= buf_end
\* <= what was received, whatever the sizes of the buffers.
THEOREM HandlerTypes == Spec => []TypeOK
<1>1. Inv => TypeOK
  BY DEF Inv
<1> QED
  BY <1>1, InvHolds, PTL

\* read_request_body neither loses nor repeats a byte of a body.
THEOREM BodiesAreAccountedFor == Spec => []BodyAccounting
<1>1. Inv => BodyAccounting
  BY DEF Inv
<1> QED
  BY <1>1, InvHolds, PTL

\* A PUT answered with 200 or 201 has stored the body that was declared.
THEOREM PutsAreStored == Spec => []PutStoresBody
<1>1. Inv => PutStoresBody
  BY DEF Inv, AnswerSettled, PutStoresBody
<1> QED
  BY <1>1, InvHolds, PTL

\* file_size and read_get_body never meet a request without its file.
THEOREM ServedFilesAreOpen == Spec => []ServedFileIsOpen
<1>1. Inv => ServedFileIsOpen
  <2> SUFFICES ASSUME Inv PROVE ServedFileIsOpen
    OBVIOUS
  <2>1. stage = "BUILD_HEADER" /\ ServesFile => getFd
    BY DEF Inv, AnswerSettled
  <2>2. stage = "READ_FILE" => ServesFile /\ headers > 0
    BY DEF Inv, ResponseStage, ContentLengthHonest, ServesFile
  <2>3. stage = "READ_FILE" => getFd
    BY <2>2 DEF Inv, AnswerSettled
  <2> QED
    BY <2>1, <2>3 DEF ServedFileIsOpen
<1> QED
  BY <1>1, InvHolds, PTL

\* The Content-Length that build_header promises is what send_res sends.
THEOREM ContentLengthsAreHonest == Spec => []ContentLengthHonest
<1>1. Inv => ContentLengthHonest
  BY DEF Inv
<1> QED
  BY <1>1, InvHolds, PTL

\* cleanup leaves no file open.
THEOREM FilesAreClosed == Spec => []FilesClosed
<1>1. Inv => FilesClosed
  BY DEF Inv, FilesMatch, FilesClosed
<1> QED
  BY <1>1, InvHolds, PTL

\* Unless a read or a write fails, the answer is the one that the request's
\* text and its file call for, however the network delivers it, with two
\* exceptions: a PUT whose surplus came along with its head gets 500, and one
\* that filled the header buffer up to its last byte but one may get 400 (500
\* once the buffer was overrun).  Bad keys are left out: see BadKeyIsBadRequest.
THEOREM AnswersMatchRequests == Spec => []AnswerMatchesRequest
<1>1. Inv => AnswerMatchesRequest
  BY DEF Inv, AnswerSettled, AnswerMatchesRequest, GoodAnswer, Cramped
<1> QED
  BY <1>1, InvHolds, PTL

\* A connection is closed without an answer only if its client stopped before
\* the request was complete, or if the header buffer was filled to its last
\* byte before the head was complete.
THEOREM CompleteRequestsAreAnswered == Spec => []CompleteRequestAnswered
<1>1. Inv => CompleteRequestAnswered
  BY DEF Inv, FilesMatch, ClosedEarly, CompleteRequestAnswered
<1> QED
  BY <1>1, InvHolds, PTL

-----------------------------------------------------------------------------
(***************************************************************************)
(* What the client sees.                                                   *)
(***************************************************************************)

\* While the request is read the client sees nothing, or is given up.
LEMMA ReadingIsSilent ==
  ASSUME Inv, \/ ReadRlLine \/ ReadRlTooLong \/ ReadRlStops
              \/ ReadHfField \/ ReadHfEmpty \/ ReadHfStops
              \/ ReadBodyRefused \/ ReadBodyStops \/ ReadBodyStores \/ ReadBodyWriteError
  PROVE  [Client!Next]_(Client!vars)
<1>1. UNCHANGED resVars /\ stage \in Reading
  <2>1. CASE ReadRlLine \/ ReadRlTooLong \/ ReadRlStops
    BY <2>1 DEF ReadRlLine, ReadRlTooLong, ReadRlStops, At, Reading
  <2>2. CASE ReadHfField \/ ReadHfEmpty \/ ReadHfStops
    BY <2>2 DEF ReadHfField, ReadHfEmpty, ReadHfStops, At, Reading
  <2>3. CASE ReadBodyRefused \/ ReadBodyStops \/ ReadBodyStores \/ ReadBodyWriteError
    BY <2>3 DEF ReadBodyRefused, ReadBodyStops, BodyStops, ReadBodyStores, StoreBody,
                ReadBodyWriteError, At, Reading
  <2> QED
    BY <2>1, <2>2, <2>3
<1>2. /\ headers = 0 /\ headers' = 0 /\ promised' = promised /\ bodySent' = bodySent
      /\ stage # "FINISHED"
  BY <1>1 DEF Inv, OneAnswer, Reading, resVars
<1>3. CASE stage' = "FINISHED"
  BY <1>2, <1>3 DEF Client!Next, Client!Abandon
<1>4. CASE stage' # "FINISHED"
  BY <1>2, <1>4 DEF Client!vars
<1> QED
  BY <1>3, <1>4

\* build_header settles the answer, send_res and read_get_body deliver it.
LEMMA RespondingDelivers ==
  ASSUME Inv, Responding
  PROVE  [Client!Next]_(Client!vars)
<1>0. /\ UNCHANGED <<status, method, file>> /\ headers' = 1 /\ status \in Statuses
      /\ file.size \in Nat /\ filePos \in Nat /\ bodySent \in Nat /\ promised \in Nat
      /\ res.body \in Nat /\ res.hdr \in Nat
  BY RespondingEffect, LenAssumption DEF Inv, TypeOK, FileStates
<1>1. CASE build_header
  <2>1. /\ stage = "BUILD_HEADER" /\ stage' = "SEND_RES" /\ bodySent' = bodySent
        /\ promised' = IF ServesFile THEN file.size ELSE StaticLen
    BY <1>1 DEF build_header, BuildHead, At
  <2>2. headers = 0 /\ promised' \in Nat
    BY <1>0, <2>1, LenAssumption DEF Inv, OneAnswer
  <2> QED
    BY <1>0, <2>1, <2>2 DEF Client!Next, Client!Decide
<1>2. CASE ReadFileChunk \/ ReadFileEnd \/ SendAll \/ SendStops
  <2>1. stage \in {"READ_FILE", "SEND_RES"} /\ promised' = promised
    BY <1>2 DEF ReadFileChunk, ReadFileEnd, SendAll, SendStops, At, resVars
  <2>2. /\ headers = 1
        /\ bodySent + res.body + (IF ServesFile THEN file.size - filePos ELSE 0) = promised
        /\ ServesFile => filePos <= file.size
    BY <2>1 DEF Inv, ContentLengthHonest, ResponseStage
  <2>3. bodySent + res.body <= promised
    BY <1>0, <2>2
  <2>4. bodySent' \in bodySent..promised
    <3>1. CASE ReadFileChunk \/ ReadFileEnd
      <4>1. bodySent' = bodySent
        BY <3>1 DEF ReadFileChunk, ReadFileEnd, resVars
      <4> QED
        BY <1>0, <2>3, <4>1
    <3>2. CASE SendAll \/ SendStops
      <4>1. PICK n \in 0..(res.hdr + res.body) : Flush(n)
        <5>1. CASE SendAll
          BY <1>0, <5>1 DEF SendAll
        <5>2. CASE SendStops
          <6>1. PICK n \in 0..(res.hdr + res.body - 1) : Flush(n)
            BY <5>2 DEF SendStops
          <6>2. n \in 0..(res.hdr + res.body)
            BY <1>0
          <6> QED
            BY <6>1, <6>2
        <5> QED
          BY <3>2, <5>1, <5>2
      <4>2. /\ res' \in [hdr : 0..HdrLen, body : 0..ResLen]
            /\ bodySent' \in Nat /\ bodySent <= bodySent'
            /\ bodySent' + res'.body = bodySent + res.body
        BY <4>1, FlushEffect DEF Inv
      <4>3. res'.body \in Nat
        BY <4>2, LenAssumption
      <4> QED
        BY <1>0, <2>3, <4>2, <4>3
    <3> QED
      BY <1>2, <3>1, <3>2
  <2> QED
    BY <1>0, <2>1, <2>2, <2>4 DEF Client!Next, Client!Deliver
<1> QED
  BY <1>1, <1>2 DEF Responding

\* A connection is one Exchange: at most one answer, settled when its head is
\* built, with a body that is never longer than announced.
THEOREM HandlerImplementsExchange == Spec => ImplementsExchange
<1>1. Init => Client!Init
  BY DEF Init, Client!Init
<1>2. Inv /\ [Next]_vars => [Client!Next]_(Client!vars)
  <2> SUFFICES ASSUME Inv, [Next]_vars PROVE [Client!Next]_(Client!vars)
    OBVIOUS
  <2>1. CASE Call \/ UNCHANGED vars
    BY <2>1 DEF Call, vars, resVars, Client!vars
  <2>2. CASE Finish
    BY <2>2 DEF Finish, Close, resVars, Client!vars
  <2>3. CASE Responding
    BY <2>3, RespondingDelivers
  <2>4. CASE \/ ReadRlLine \/ ReadRlTooLong \/ ReadRlStops
             \/ ReadHfField \/ ReadHfEmpty \/ ReadHfStops
             \/ ReadBodyRefused \/ ReadBodyStops \/ ReadBodyStores \/ ReadBodyWriteError
    BY <2>4, ReadingIsSilent
  <2> QED
    BY <2>1, <2>2, <2>3, <2>4 DEF Next, handle_request, Responding
<1> QED
  BY <1>1, <1>2, InvHolds, PTL DEF Spec, ImplementsExchange, Client!Spec
=============================================================================
