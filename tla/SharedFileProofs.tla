--------------------------- MODULE SharedFileProofs ---------------------------
(***************************************************************************)
(* Several requests on one file, for any number of PUTs and GETs and any   *)
(* lengths of their bodies: what concurrent, unlocked PUTs can and cannot  *)
(* do to the file and to the answers of GETs.                              *)
(***************************************************************************)
EXTENDS SharedFile, SequenceTheorems, TLAPS

-----------------------------------------------------------------------------
(***************************************************************************)
(* The inductive invariant.                                                *)
(***************************************************************************)

\* Where a PUT is says how much of its body is written and what it answers.
PutState ==
  /\ \A p \in Puts :
       /\ pc[p] \in {"begin", "create", "write", "done"}
       /\ pc[p] \in {"begin", "create"} => off[p] = 0 /\ status[p] = "none"
       /\ pc[p] \in {"write", "done"} => exists
       /\ off[p] <= BodyLen[p]
       /\ Acked(p) => off[p] = BodyLen[p]
  /\ ~exists => content = <<>>

\* A PUT without a clash is alone from its first to its last step, and it is
\* the one that began last until another one begins.
Alone ==
  /\ latest = NoPut => \A p \in Puts : pc[p] = "begin"
  /\ \A p \in Puts : latest = p => pc[p] # "begin" /\ (clash[p] \/ Writing \subseteq {p})
  /\ \A p \in Writing : clash[p] \/ latest = p

\* So the file holds what it has written, and nothing else.
SoloContent ==
  /\ latest = NoPut => content = Text(Old, Len(content))
  /\ \A p \in Puts : (latest = p /\ ~clash[p]) =>
       /\ pc[p] = "create" => ~exists
       /\ pc[p] \in {"write", "done"} => content = Text(p, off[p])

\* And it is the only one that may find the file missing.
SoloCreator ==
  \A p \in Puts : (~clash[p] /\ (pc[p] = "create" \/ status[p] = "CREATED")) =>
    \A q \in Puts \ {p} : pc[q] # "create" /\ status[q] # "CREATED"

\* The part of the file that the latest PUT has written stays covered.
Covered ==
  \A p \in Puts : latest = p =>
    /\ Len(content) >= off[p]
    /\ \A i \in 1..off[p] :
         content[i][1] = p \/ \E q \in Puts : clash[q] /\ content[i] = <<q, i>>

\* A sequence whose bytes are in their places.
InPlace(s) ==
  \A i \in DOMAIN s : s[i][2] = i /\ (s[i][1] = Hole => \E p \in Puts : clash[p])

\* Where a GET is says how much of the file it has sent.
Sending(g) ==
  /\ pc[g] \in {"begin", "open", "size", "read", "done"}
  /\ pc[g] \in {"begin", "open", "size"} => sent[g] = <<>>
  /\ pc[g] = "read" => Len(sent[g]) = off[g]

\* The file does not change under a GET that is not torn.
Steady(g) ==
  (~torn[g] /\ pc[g] \in {"size", "read"}) =>
    /\ Writing = {}
    /\ pc[g] = "read" =>
         /\ promised[g] = Len(content) /\ off[g] <= Len(content)
         /\ \A i \in 1..off[g] : sent[g][i] = content[i]

\* What such a GET has sent, when it ends, came from a PUT that had ended.
Served(g) ==
  (pc[g] = "done" /\ status[g] = "OK" /\ ~torn[g]) =>
    /\ Len(sent[g]) = promised[g]
    /\ (\A p \in Puts : ~clash[p]) =>
         \E s \in Puts \cup {Old} :
           /\ sent[g] = Text(s, Len(sent[g]))
           /\ s \in Puts => pc[s] = "done" /\ (Acked(s) => Len(sent[g]) = BodyLen[s])

GetInv(g) == Sending(g) /\ InPlace(sent[g]) /\ Steady(g) /\ Served(g)

PutInv ==
  PutState /\ Alone /\ SoloContent /\ SoloCreator /\ Covered /\ InPlace(content)

FileInv == TypeOK /\ PutInv /\ \A g \in Gets : GetInv(g)

\* Bytes are in place in the file and in every answer.
LEMMA InPlaceParts == BytesInPlace <=> InPlace(content) /\ \A g \in Gets : InPlace(sent[g])
  BY DEF BytesInPlace, InPlace

-----------------------------------------------------------------------------
(***************************************************************************)
(* Texts and writes.                                                       *)
(***************************************************************************)

\* The larger of two sizes.
LEMMA MaxTwo ==
  ASSUME NEW a \in Nat, NEW b \in Nat
  PROVE  Max({a, b}) = IF a >= b THEN a ELSE b
<1>1. CASE a >= b
  <2>1. \A x \in {a, b} : (\A y \in {a, b} : x >= y) => x = a
    BY <1>1
  <2>2. a \in {a, b} /\ \A y \in {a, b} : a >= y
    BY <1>1
  <2> QED
    BY <1>1, <2>1, <2>2 DEF Max
<1>2. CASE ~(a >= b)
  <2>1. \A x \in {a, b} : (\A y \in {a, b} : x >= y) => x = b
    BY <1>2
  <2>2. b \in {a, b} /\ \A y \in {a, b} : b >= y
    BY <1>2
  <2> QED
    BY <1>2, <2>1, <2>2 DEF Max
<1> QED
  BY <1>1, <1>2

\* The text of one source.
LEMMA TextFacts ==
  ASSUME NEW s \in Puts \cup {Old}, NEW n \in Nat
  PROVE  /\ Text(s, n) \in Seq(Bytes) /\ Len(Text(s, n)) = n
         /\ DOMAIN Text(s, n) = 1..n
         /\ \A i \in 1..n : Text(s, n)[i] = <<s, i>>
<1>1. \A i \in 1..n : <<s, i>> \in Bytes
  BY DEF Bytes
<1> QED
  BY <1>1 DEF Text

\* The empty text.
LEMMA EmptyText == ASSUME NEW s PROVE Text(s, 0) = <<>>
  BY DEF Text

\* What a write at p's own offset o leaves in the file.
LEMMA WrittenFacts ==
  ASSUME TypeOK, NEW p \in Puts, NEW o \in Nat, NEW n \in Nat \ {0}
  PROVE  LET w == Written(p, o, o, n)
         IN  /\ w \in Seq(Bytes)
             /\ Len(w) = IF Len(content) >= o + n THEN Len(content) ELSE o + n
             /\ DOMAIN w = 1..Len(w)
             /\ \A i \in 1..Len(w) :
                  w[i] = IF o < i /\ i <= o + n THEN <<p, i>>
                         ELSE IF i <= Len(content) THEN content[i] ELSE <<Hole, i>>
<1> DEFINE m == IF Len(content) >= o + n THEN Len(content) ELSE o + n
           w == Written(p, o, o, n)
<1>1. content \in Seq(Bytes) /\ Len(content) \in Nat /\ o + n \in Nat
  BY DEF TypeOK
<1>2. Max({Len(content), o + n}) = m
  BY <1>1, MaxTwo
<1>3. m \in Nat /\ m >= Len(content) /\ m >= o + n
  BY <1>1
<1>4. w = [i \in 1..m |-> IF i \in o + 1 .. o + n THEN <<p, i - o + o>>
                          ELSE IF i <= Len(content) THEN content[i] ELSE <<Hole, i>>]
  BY <1>2 DEF Written
<1> HIDE DEF m, w
<1>5. ASSUME NEW i \in 1..m
      PROVE  /\ w[i] = IF o < i /\ i <= o + n THEN <<p, i>>
                       ELSE IF i <= Len(content) THEN content[i] ELSE <<Hole, i>>
             /\ w[i] \in Bytes
  <2>1. i \in Nat /\ i - o + o = i /\ (i \in o + 1 .. o + n <=> o < i /\ i <= o + n)
    BY <1>3
  <2>2. w[i] = IF o < i /\ i <= o + n THEN <<p, i>>
               ELSE IF i <= Len(content) THEN content[i] ELSE <<Hole, i>>
    BY <1>4, <2>1
  <2>3. i <= Len(content) => content[i] \in Bytes
    BY <1>1, <2>1, ElementOfSeq
  <2>4. <<p, i>> \in Bytes /\ <<Hole, i>> \in Bytes
    BY <2>1 DEF Bytes
  <2> QED
    BY <2>2, <2>3, <2>4
<1>6. w \in Seq(Bytes) /\ Len(w) = m /\ DOMAIN w = 1..m
  <2>1. w = [i \in 1..m |-> w[i]] /\ DOMAIN w = 1..m
    BY <1>4
  <2>2. \A i \in 1..m : w[i] \in Bytes
    BY <1>5
  <2> QED
    BY <1>3, <2>1, <2>2
<1> QED
  BY <1>5, <1>6 DEF m, w

\* The initial file is empty or holds old text.
LEMMA InitFile == Init => FileInv
<1> SUFFICES ASSUME Init PROVE FileInv
  OBVIOUS
<1>0. /\ \A r \in Requests : pc[r] = "begin" /\ status[r] = "none" /\ off[r] = 0
      /\ \A g \in Gets : promised[g] = 0 /\ sent[g] = <<>> /\ torn[g] = FALSE
      /\ \A p \in Puts : clash[p] = FALSE
      /\ latest = NoPut /\ NoPut \notin Puts /\ Old # Hole
      /\ BodyLen \in [Puts -> Nat] /\ Puts \subseteq Requests /\ Gets \subseteq Requests
  BY RequestsAssumption, BodyLenAssumption DEF Init, Requests
<1>1. content \in Seq(Bytes) /\ content = Text(Old, Len(content)) /\ (~exists => content = <<>>)
  <2>1. CASE exists = FALSE /\ content = <<>>
    BY <2>1, EmptyText
  <2>2. CASE exists = TRUE /\ \E n \in OldLens : content = Text(Old, n)
    <3>1. PICK n \in Nat : content = Text(Old, n)
      BY <2>2, BodyLenAssumption
    <3>2. Text(Old, n) \in Seq(Bytes) /\ Len(Text(Old, n)) = n
      BY TextFacts
    <3> QED
      BY <2>2, <3>1, <3>2
  <2> QED
    BY <2>1, <2>2 DEF Init
<1>2. TypeOK
  <2>1. exists \in BOOLEAN /\ clash \in [Puts -> BOOLEAN] /\ torn \in [Gets -> BOOLEAN]
    BY DEF Init
  <2>2. /\ pc \in [Requests -> {"begin", "create", "write", "open", "size", "read", "done"}]
        /\ status \in [Requests -> {"none", "OK", "CREATED", "NOT_FOUND", "INTERNAL_ERROR"}]
        /\ off \in [Requests -> Nat] /\ promised \in [Gets -> Nat]
    BY DEF Init
  <2>3. sent \in [Gets -> Seq(Bytes)] /\ latest \in Puts \cup {NoPut}
    BY DEF Init
  <2> QED
    BY <1>1, <2>1, <2>2, <2>3 DEF TypeOK
<1>3. Writing = {}
  BY <1>0 DEF Writing
<1>4. PutState
  BY <1>0, <1>1 DEF PutState, Acked
<1>5. Alone /\ SoloContent /\ SoloCreator /\ Covered
  BY <1>0, <1>1, <1>3 DEF Alone, SoloContent, SoloCreator, Covered
<1>6. InPlace(content)
  <2>1. Len(content) \in Nat
    BY <1>1
  <2>2. DOMAIN content = 1..Len(content) /\ \A i \in 1..Len(content) : content[i] = <<Old, i>>
    BY <1>1, <2>1, TextFacts
  <2> QED
    BY <1>0, <2>2 DEF InPlace
<1>7. ASSUME NEW g \in Gets PROVE GetInv(g)
  BY <1>0 DEF GetInv, Sending, InPlace, Steady, Served
<1> QED
  BY <1>2, <1>4, <1>5, <1>6, <1>7 DEF FileInv, PutInv

-----------------------------------------------------------------------------
(***************************************************************************)
(* GETs leave the file and the PUTs alone.                                 *)
(***************************************************************************)
GetStep(g) ==
  \/ Lstat(g) \/ OpenGet(g) \/ FileSize(g) \/ ReadEnd(g) \/ GetStops(g)
  \/ \E n \in 1..MaxPiece : ReadPiece(g, n)

\* What a step of g does not touch.
LEMMA GetFrame ==
  ASSUME FileInv, NEW g \in Gets, GetStep(g)
  PROVE  /\ UNCHANGED <<exists, content, latest, clash>>
         /\ \A r \in Requests \ {g} : pc'[r] = pc[r] /\ status'[r] = status[r] /\ off'[r] = off[r]
         /\ \A h \in Gets \ {g} :
              promised'[h] = promised[h] /\ sent'[h] = sent[h] /\ torn'[h] = torn[h]
         /\ Writing' = Writing
<1> USE DEF FileInv, TypeOK
<1>1. UNCHANGED <<exists, content, latest, clash>>
  BY DEF GetStep, Lstat, OpenGet, FileSize, SizeWith, ReadEnd, GetStops, ReadPiece, fileVars,
         history
<1>2. \A r \in Requests \ {g} : pc'[r] = pc[r]
  BY DEF GetStep, Lstat, OpenGet, FileSize, SizeWith, ReadEnd, GetStops, ReadPiece, Goto
<1>3. \A r \in Requests \ {g} : status'[r] = status[r]
  BY DEF GetStep, Lstat, OpenGet, FileSize, SizeWith, ReadEnd, GetStops, ReadPiece, Answer
<1>4. \A r \in Requests \ {g} : off'[r] = off[r]
  BY DEF GetStep, Lstat, OpenGet, FileSize, SizeWith, ReadEnd, GetStops, ReadPiece
<1>5. \A h \in Gets \ {g} : promised'[h] = promised[h] /\ sent'[h] = sent[h]
  BY DEF GetStep, Lstat, OpenGet, FileSize, SizeWith, ReadEnd, GetStops, ReadPiece, getVars
<1>6. \A h \in Gets \ {g} : torn'[h] = torn[h]
  BY DEF GetStep, Lstat, OpenGet, FileSize, SizeWith, ReadEnd, GetStops, ReadPiece, history
<1>7. Writing' = Writing
  <2>1. \A p \in Puts : pc'[p] = pc[p]
    BY <1>2, RequestsAssumption DEF Requests
  <2> QED
    BY <2>1 DEF Writing
<1> QED
  BY <1>1, <1>2, <1>3, <1>4, <1>5, <1>6, <1>7

\* So everything said about PUTs and about other GETs stays true.
LEMMA GetKeeps ==
  ASSUME FileInv, NEW g \in Gets, GetStep(g)
  PROVE  PutInv' /\ \A h \in Gets \ {g} : GetInv(h)'
<1>1. /\ UNCHANGED <<exists, content, latest, clash>>
      /\ \A p \in Puts : pc'[p] = pc[p] /\ status'[p] = status[p] /\ off'[p] = off[p]
      /\ \A h \in Gets \ {g} :
           /\ pc'[h] = pc[h] /\ status'[h] = status[h] /\ off'[h] = off[h]
           /\ promised'[h] = promised[h] /\ sent'[h] = sent[h] /\ torn'[h] = torn[h]
      /\ Writing' = Writing
  BY GetFrame, RequestsAssumption DEF Requests
<1>2. \A p \in Puts : Acked(p)' <=> Acked(p)
  BY <1>1 DEF Acked
<1>3. PutState'
  BY <1>1, <1>2 DEF FileInv, PutInv, PutState
<1>4. Alone'
  <2>1. \A p \in Writing : p \in Puts
    BY DEF Writing
  <2> QED
    BY <1>1, <2>1 DEF FileInv, PutInv, Alone
<1>5. SoloContent' /\ SoloCreator' /\ Covered' /\ InPlace(content)'
  BY <1>1 DEF FileInv, PutInv, SoloContent, SoloCreator, Covered, InPlace, Text
<1>6. ASSUME NEW h \in Gets \ {g} PROVE GetInv(h)'
  <2>1. GetInv(h)
    BY DEF FileInv
  <2>2. Sending(h)' /\ InPlace(sent[h])' /\ Steady(h)'
    BY <1>1, <2>1 DEF GetInv, Sending, InPlace, Steady
  <2>3. Served(h)'
    BY <1>1, <1>2, <2>1 DEF GetInv, Served, Text
  <2> QED
    BY <2>2, <2>3 DEF GetInv
<1> QED
  BY <1>3, <1>4, <1>5, <1>6 DEF PutInv

\* A piece that read_get_body reads is a part of the file, at g's offset.
LEMMA PieceFacts ==
  ASSUME TypeOK, NEW g \in Gets, NEW n, ReadPiece(g, n)
  PROVE  /\ off[g] \in Nat /\ n \in Nat \ {0} /\ off[g] + n \in Nat
         /\ off[g] + n <= Len(content)
         /\ SubSeq(content, off[g] + 1, off[g] + n) \in Seq(Bytes)
         /\ Len(SubSeq(content, off[g] + 1, off[g] + n)) = n
         /\ \A i \in 1..n : SubSeq(content, off[g] + 1, off[g] + n)[i] = content[off[g] + i]
<1>1. n \in 1..(Len(content) - off[g])
  BY DEF ReadPiece
<1>2. off[g] \in Nat /\ content \in Seq(Bytes) /\ Len(content) \in Nat
  BY DEF TypeOK, Requests
<1>3. n \in Nat \ {0} /\ off[g] + n \in Nat /\ off[g] + n <= Len(content)
  BY <1>1, <1>2
<1> DEFINE a == off[g] + 1
           b == off[g] + n
<1>4. a \in Int /\ b \in Int /\ a <= b /\ b - a + 1 = n
  BY <1>2, <1>3
<1>5. /\ SubSeq(content, a, b) \in Seq(Bytes)
      /\ Len(SubSeq(content, a, b)) = b - a + 1
      /\ \A i \in 1..(b - a + 1) : SubSeq(content, a, b)[i] = content[a + i - 1]
  <2>1. \A i \in a..b : content[i] \in Bytes
    BY <1>2, <1>3, ElementOfSeq
  <2> HIDE DEF a, b
  <2> QED
    BY <1>4, <2>1, SubSeqProperties
<1>6. \A i \in 1..n : a + i - 1 = off[g] + i
  BY <1>2
<1> QED
  BY <1>2, <1>3, <1>4, <1>5, <1>6

\* The types survive a step of a GET.
LEMMA GetTypes == ASSUME FileInv, NEW g \in Gets, GetStep(g) PROVE TypeOK'
<1>0. TypeOK /\ g \in Requests /\ content \in Seq(Bytes) /\ Len(content) \in Nat
  BY DEF FileInv, TypeOK, Requests
<1>1. exists' \in BOOLEAN /\ content' \in Seq(Bytes) /\ latest' \in Puts \cup {NoPut}
  BY <1>0, GetFrame DEF TypeOK
<1>2. clash' \in [Puts -> BOOLEAN]
  BY <1>0, GetFrame DEF TypeOK
<1>3. torn' \in [Gets -> BOOLEAN]
  <2>1. torn' = torn \/ torn' = [torn EXCEPT ![g] = (Writing # {})]
    BY DEF GetStep, Lstat, OpenGet, FileSize, SizeWith, ReadEnd, GetStops, ReadPiece, history
  <2>2. (Writing # {}) \in BOOLEAN
    OBVIOUS
  <2> QED
    BY <1>0, <2>1, <2>2 DEF TypeOK
<1>4. pc' \in [Requests -> {"begin", "create", "write", "open", "size", "read", "done"}]
  <2>1. \E to \in {"open", "size", "read", "done"} : pc' = [pc EXCEPT ![g] = to]
    BY DEF GetStep, Lstat, OpenGet, FileSize, SizeWith, ReadEnd, GetStops, ReadPiece, Goto
  <2> QED
    BY <1>0, <2>1 DEF TypeOK
<1>5. status' \in [Requests -> {"none", "OK", "CREATED", "NOT_FOUND", "INTERNAL_ERROR"}]
  <2>1. status' = status \/ \E s \in {"OK", "NOT_FOUND", "none"} :
                              status' = [status EXCEPT ![g] = s]
    BY DEF GetStep, Lstat, OpenGet, FileSize, SizeWith, ReadEnd, GetStops, ReadPiece, Answer
  <2> QED
    BY <1>0, <2>1 DEF TypeOK
<1>6. /\ off' \in [Requests -> Nat] /\ promised' \in [Gets -> Nat] /\ sent' \in [Gets -> Seq(Bytes)]
  <2>1. CASE Lstat(g) \/ OpenGet(g) \/ ReadEnd(g) \/ GetStops(g)
    <3>1. UNCHANGED <<off, promised, sent>>
      BY <2>1 DEF Lstat, OpenGet, ReadEnd, GetStops, getVars
    <3> QED
      BY <1>0, <3>1 DEF TypeOK
  <2>2. CASE FileSize(g)
    <3>1. /\ promised' = [promised EXCEPT ![g] = Len(content)] /\ off' = [off EXCEPT ![g] = 0]
          /\ sent' = sent
      BY <2>2 DEF FileSize, SizeWith
    <3> QED
      BY <1>0, <3>1 DEF TypeOK
  <2>3. CASE \E n \in 1..MaxPiece : ReadPiece(g, n)
    <3>1. PICK n : ReadPiece(g, n)
      BY <2>3
    <3>2. /\ promised' = promised
          /\ sent' = [sent EXCEPT ![g] = @ \o SubSeq(content, off[g] + 1, off[g] + n)]
          /\ off' = [off EXCEPT ![g] = @ + n]
      BY <3>1 DEF ReadPiece
    <3>3. sent[g] \in Seq(Bytes)
      BY <1>0 DEF TypeOK
    <3>4. off[g] + n \in Nat /\ SubSeq(content, off[g] + 1, off[g] + n) \in Seq(Bytes)
      BY <1>0, <3>1, PieceFacts
    <3>5. sent[g] \o SubSeq(content, off[g] + 1, off[g] + n) \in Seq(Bytes)
      BY <3>3, <3>4
    <3> QED
      BY <1>0, <3>2, <3>4, <3>5 DEF TypeOK
  <2> QED
    BY <2>1, <2>2, <2>3 DEF GetStep
<1> QED
  BY <1>1, <1>2, <1>3, <1>4, <1>5, <1>6 DEF TypeOK

\* lstat and open: nothing is sent yet, and a GET that opens the file while a
\* PUT is under way counts as torn.
LEMMA GetOpens ==
  ASSUME FileInv, NEW g \in Gets, Lstat(g) \/ OpenGet(g) PROVE GetInv(g)'
<1>1. GetInv(g) /\ TypeOK /\ g \in Requests
  BY DEF FileInv, Requests
<1>2. UNCHANGED <<content, clash>> /\ Writing' = Writing
  BY GetFrame DEF GetStep
<1>3. CASE Lstat(g)
  <2>1. /\ pc[g] = "begin" /\ sent' = sent /\ torn' = torn
        /\ pc'[g] = IF exists THEN "open" ELSE "done"
        /\ status'[g] = IF exists THEN "OK" ELSE "NOT_FOUND"
    BY <1>1, <1>3 DEF Lstat, Goto, Answer, TypeOK, getVars, history
  <2> QED
    BY <1>1, <1>2, <2>1 DEF GetInv, Sending, InPlace, Steady, Served
<1>4. CASE OpenGet(g)
  <2>1. /\ pc[g] = "open" /\ pc'[g] = "size" /\ sent' = sent
        /\ torn'[g] = (Writing # {})
    BY <1>1, <1>4 DEF OpenGet, Goto, TypeOK, getVars
  <2> QED
    BY <1>1, <1>2, <2>1 DEF GetInv, Sending, InPlace, Steady, Served
<1> QED
  BY <1>3, <1>4

\* file_size: what is promised is what is there, and reading starts at 0.
LEMMA GetSizes == ASSUME FileInv, NEW g \in Gets, FileSize(g) PROVE GetInv(g)'
<1>1. GetInv(g) /\ TypeOK /\ g \in Requests /\ Len(content) \in Nat
  BY DEF FileInv, Requests, TypeOK
<1>2. UNCHANGED <<content, clash>> /\ Writing' = Writing
  BY GetFrame DEF GetStep
<1>3. /\ pc[g] = "size" /\ pc'[g] = "read" /\ sent' = sent /\ torn' = torn
      /\ promised'[g] = Len(content) /\ off'[g] = 0
  BY <1>1 DEF FileSize, SizeWith, Goto, TypeOK, history
<1>4. sent[g] = <<>> /\ Len(sent[g]) = 0
  BY <1>1, <1>3 DEF GetInv, Sending
<1> QED
  BY <1>1, <1>2, <1>3, <1>4 DEF GetInv, Sending, InPlace, Steady, Served

\* read_get_body: the next bytes of the file follow the ones already sent.
LEMMA GetReads == ASSUME FileInv, NEW g \in Gets, NEW n, n \in 1..MaxPiece, ReadPiece(g, n)
                  PROVE  GetInv(g)'
<1>1. GetInv(g) /\ TypeOK /\ g \in Requests /\ content \in Seq(Bytes) /\ Len(content) \in Nat
  BY DEF FileInv, Requests, TypeOK
<1>2. UNCHANGED <<content, clash>> /\ Writing' = Writing
  BY GetFrame DEF GetStep
<1> DEFINE piece == SubSeq(content, off[g] + 1, off[g] + n)
<1>3. /\ off[g] \in Nat /\ n \in Nat \ {0} /\ off[g] + n <= Len(content)
      /\ piece \in Seq(Bytes) /\ Len(piece) = n
      /\ \A i \in 1..n : piece[i] = content[off[g] + i]
  BY <1>1, PieceFacts
<1>4. /\ pc[g] = "read" /\ pc'[g] = "read" /\ torn' = torn /\ promised' = promised
      /\ sent'[g] = sent[g] \o piece /\ off'[g] = off[g] + n
  BY <1>1 DEF ReadPiece, Goto, TypeOK, history
<1>5. sent[g] \in Seq(Bytes) /\ Len(sent[g]) = off[g]
  BY <1>1, <1>4 DEF GetInv, Sending, TypeOK
<1> HIDE DEF piece
<1>6. /\ Len(sent'[g]) = off'[g] /\ DOMAIN sent'[g] = 1..(off[g] + n)
      /\ \A i \in 1..off[g] : sent'[g][i] = sent[g][i]
      /\ \A i \in (off[g] + 1)..(off[g] + n) : sent'[g][i] = content[i]
  <2>1. /\ sent'[g] \in Seq(Bytes) /\ Len(sent'[g]) = off[g] + n
        /\ \A i \in 1..(off[g] + n) :
             sent'[g][i] = IF i <= off[g] THEN sent[g][i] ELSE piece[i - off[g]]
    <3>1. /\ sent[g] \o piece \in Seq(Bytes)
          /\ Len(sent[g] \o piece) = Len(sent[g]) + Len(piece)
          /\ \A i \in 1..(Len(sent[g]) + Len(piece)) :
               (sent[g] \o piece)[i] = IF i <= Len(sent[g]) THEN sent[g][i]
                                       ELSE piece[i - Len(sent[g])]
      BY <1>3, <1>5, ConcatProperties
    <3> QED
      BY <1>3, <1>4, <1>5, <3>1
  <2>2. \A i \in (off[g] + 1)..(off[g] + n) :
          i - off[g] \in 1..n /\ off[g] + (i - off[g]) = i /\ ~(i <= off[g])
            /\ i \in 1..(off[g] + n)
    BY <1>3
  <2>3. \A i \in 1..off[g] : i \in 1..(off[g] + n) /\ i <= off[g]
    BY <1>3
  <2>4. \A i \in (off[g] + 1)..(off[g] + n) : sent'[g][i] = content[i]
    BY <1>3, <2>1, <2>2
  <2>5. DOMAIN sent'[g] = 1..(off[g] + n)
    BY <2>1, LenProperties
  <2> QED
    BY <1>4, <2>1, <2>3, <2>4, <2>5
<1>7. \A i \in 1..(off[g] + n) : i \in 1..off[g] \/ i \in (off[g] + 1)..(off[g] + n)
  BY <1>3
<1>8. Sending(g)'
  BY <1>4, <1>6 DEF Sending
<1>9. InPlace(sent[g])'
  <2>1. DOMAIN sent[g] = 1..off[g] /\ DOMAIN content = 1..Len(content)
    BY <1>1, <1>5, LenProperties
  <2>2. \A i \in (off[g] + 1)..(off[g] + n) : i \in 1..Len(content)
    BY <1>1, <1>3
  <2>3. InPlace(sent[g]) /\ InPlace(content)
    BY <1>1 DEF GetInv, FileInv, PutInv
  <2>4. ASSUME NEW i \in 1..(off[g] + n)
        PROVE  sent'[g][i][2] = i /\ (sent'[g][i][1] = Hole => \E p \in Puts : clash[p])
    <3>1. CASE i \in 1..off[g]
      BY <1>6, <2>1, <2>3, <3>1 DEF InPlace
    <3>2. CASE i \in (off[g] + 1)..(off[g] + n)
      BY <1>6, <2>1, <2>2, <2>3, <3>2 DEF InPlace
    <3> QED
      BY <1>7, <3>1, <3>2
  <2> QED
    BY <1>2, <1>6, <2>4 DEF InPlace
<1>10. Steady(g)'
  <2> SUFFICES ASSUME ~torn[g]
               PROVE  /\ Writing = {}
                      /\ promised[g] = Len(content) /\ off[g] + n <= Len(content)
                      /\ \A i \in 1..(off[g] + n) : sent'[g][i] = content[i]
    BY <1>2, <1>4 DEF Steady
  <2>1. /\ Writing = {} /\ promised[g] = Len(content)
        /\ \A i \in 1..off[g] : sent[g][i] = content[i]
    BY <1>1, <1>4 DEF GetInv, Steady
  <2> QED
    BY <1>3, <1>6, <1>7, <2>1
<1>11. Served(g)'
  BY <1>4 DEF Served
<1> QED
  BY <1>8, <1>9, <1>10, <1>11 DEF GetInv

\* The end of the file: a GET that was not torn has sent all of it.
LEMMA GetEnds == ASSUME FileInv, NEW g \in Gets, ReadEnd(g) \/ GetStops(g) PROVE GetInv(g)'
<1>1. GetInv(g) /\ TypeOK /\ g \in Requests /\ content \in Seq(Bytes) /\ Len(content) \in Nat
      /\ off[g] \in Nat /\ sent[g] \in Seq(Bytes)
  BY DEF FileInv, Requests, TypeOK
<1>2. /\ UNCHANGED <<content, clash>> /\ Writing' = Writing
      /\ \A p \in Puts : pc'[p] = pc[p] /\ status'[p] = status[p]
  BY GetFrame, RequestsAssumption DEF GetStep, Requests
<1>3. /\ pc[g] = "read" /\ pc'[g] = "done" /\ UNCHANGED <<sent, torn, promised, off>>
      /\ status'[g] = "OK" => ReadEnd(g)
  BY <1>1 DEF ReadEnd, GetStops, Goto, Answer, TypeOK, getVars, history
<1>4. Sending(g)' /\ InPlace(sent[g])' /\ Steady(g)'
  BY <1>1, <1>2, <1>3 DEF GetInv, Sending, InPlace, Steady
<1>5. Served(g)'
  <2> SUFFICES ASSUME ReadEnd(g), ~torn[g]
               PROVE  /\ Len(sent[g]) = promised[g]
                      /\ (\A p \in Puts : ~clash[p]) =>
                           \E s \in Puts \cup {Old} :
                             /\ sent[g] = Text(s, Len(sent[g]))
                             /\ s \in Puts => pc[s] = "done"
                                              /\ (Acked(s) => Len(sent[g]) = BodyLen[s])
    <3>1. \A p \in Puts : Acked(p)' <=> Acked(p)
      BY <1>2 DEF Acked
    <3> QED
      BY <1>2, <1>3, <3>1 DEF Served, Text
  <2>1. /\ Writing = {} /\ promised[g] = Len(content) /\ off[g] <= Len(content)
        /\ \A i \in 1..off[g] : sent[g][i] = content[i]
        /\ Len(sent[g]) = off[g] /\ off[g] >= Len(content)
    BY <1>1, <1>3 DEF GetInv, Steady, Sending, ReadEnd
  <2>2. Len(sent[g]) = Len(content)
    BY <1>1, <2>1
  <2>3. sent[g] = content
    BY <1>1, <2>1, <2>2, SeqEqual
  <2>4. ASSUME \A p \in Puts : ~clash[p]
        PROVE  \E s \in Puts \cup {Old} :
                 /\ content = Text(s, Len(content))
                 /\ s \in Puts => pc[s] = "done" /\ (Acked(s) => Len(content) = BodyLen[s])
    <3>1. CASE latest = NoPut
      <4>1. content = Text(Old, Len(content)) /\ Old \notin Puts
        BY <3>1, RequestsAssumption DEF FileInv, PutInv, SoloContent
      <4> QED
        BY <4>1
    <3>2. CASE latest # NoPut
      <4>1. latest \in Puts
        BY <1>1, <3>2 DEF TypeOK
      <4>2. pc[latest] = "done"
        BY <2>1, <4>1 DEF FileInv, PutInv, PutState, Alone, Writing
      <4>3. content = Text(latest, off[latest])
        BY <2>4, <4>1, <4>2 DEF FileInv, PutInv, SoloContent
      <4>4. Len(content) = off[latest]
        <5>1. off[latest] \in Nat
          BY <1>1, <4>1 DEF TypeOK, Requests
        <5> QED
          BY <4>1, <4>3, <5>1, TextFacts
      <4>5. Acked(latest) => off[latest] = BodyLen[latest]
        BY <4>1 DEF FileInv, PutInv, PutState
      <4> QED
        BY <4>1, <4>2, <4>3, <4>4, <4>5
    <3> QED
      BY <3>1, <3>2
  <2> QED
    BY <2>1, <2>2, <2>3, <2>4
<1> QED
  BY <1>4, <1>5 DEF GetInv

\* A step of a GET keeps the invariant.
LEMMA GetStepInv == ASSUME FileInv, NEW g \in Gets, GetStep(g) PROVE FileInv'
<1>1. GetInv(g)'
  BY GetOpens, GetSizes, GetReads, GetEnds DEF GetStep
<1>2. PutInv' /\ \A h \in Gets \ {g} : GetInv(h)'
  BY GetKeeps
<1>3. TypeOK'
  BY GetTypes
<1> QED
  BY <1>1, <1>2, <1>3 DEF FileInv

-----------------------------------------------------------------------------
(***************************************************************************)
(* PUTs.                                                                   *)
(***************************************************************************)

\* The steps of a PUT that has begun.
PutGoesOn(p) == Create(p) \/ PutStops(p) \/ \E n \in 1..MaxPiece : Write(p, n)
PutStep(p) == OpenTruncate(p) \/ OpenMissing(p) \/ PutGoesOn(p)

\* What a step of p does not touch; a clash is never forgotten.
LEMMA PutFrame ==
  ASSUME FileInv, NEW p \in Puts, PutStep(p)
  PROVE  /\ \A r \in Requests \ {p} : pc'[r] = pc[r] /\ status'[r] = status[r] /\ off'[r] = off[r]
         /\ UNCHANGED <<promised, sent>>
         /\ \A q \in Puts : clash[q] => clash'[q]
         /\ pc[p] \in {"begin", "create", "write"} /\ pc'[p] \in {"create", "write", "done"}
<1> USE DEF FileInv, TypeOK
<1>1. \A r \in Requests \ {p} : pc'[r] = pc[r] /\ status'[r] = status[r] /\ off'[r] = off[r]
  <2>1. CASE OpenTruncate(p) \/ OpenMissing(p)
    BY <2>1 DEF OpenTruncate, OpenWith, OpenMissing, Goto, Answer
  <2>2. CASE PutGoesOn(p)
    BY <2>2 DEF PutGoesOn, Create, CreateWith, PutStops, Write, WritePiece, Goto, Answer
  <2> QED
    BY <2>1, <2>2 DEF PutStep
<1>2. UNCHANGED <<promised, sent>>
  BY DEF PutStep, PutGoesOn, OpenTruncate, OpenWith, OpenMissing, Create, CreateWith, PutStops,
         Write, WritePiece, getVars
<1>3. \A q \in Puts : clash[q] => clash'[q]
  <2>1. CASE OpenTruncate(p) \/ OpenMissing(p)
    BY <2>1 DEF OpenTruncate, OpenWith, OpenMissing, Begin
  <2>2. CASE PutGoesOn(p)
    BY <2>2 DEF PutGoesOn, Create, CreateWith, PutStops, Write, WritePiece, history
  <2> QED
    BY <2>1, <2>2 DEF PutStep
<1>4. pc[p] \in {"begin", "create", "write"} /\ pc'[p] \in {"create", "write", "done"}
  <2>0. p \in Requests
    BY DEF Requests
  <2>1. CASE OpenTruncate(p) \/ OpenMissing(p)
    BY <2>0, <2>1 DEF OpenTruncate, OpenWith, OpenMissing, Goto, Opened
  <2>2. CASE PutGoesOn(p)
    BY <2>0, <2>2 DEF PutGoesOn, Create, CreateWith, PutStops, Write, WritePiece, Goto, Opened
  <2> QED
    BY <2>1, <2>2 DEF PutStep
<1> QED
  BY <1>1, <1>2, <1>3, <1>4

\* A PUT that begins marks the GETs that have the file open, and one that
\* goes on has none to disturb that is not marked.
LEMMA PutKeepsGets ==
  ASSUME FileInv, NEW p \in Puts, PutStep(p) PROVE \A g \in Gets : GetInv(g)'
<1> SUFFICES ASSUME NEW g \in Gets PROVE GetInv(g)'
  OBVIOUS
<1>1. /\ pc'[g] = pc[g] /\ status'[g] = status[g] /\ off'[g] = off[g]
      /\ UNCHANGED <<promised, sent>>
      /\ \A q \in Puts : clash[q] => clash'[q]
      /\ \A q \in Puts \ {p} : pc'[q] = pc[q] /\ status'[q] = status[q]
      /\ pc[p] # "done"
  BY PutFrame, RequestsAssumption DEF Requests
<1>2. GetInv(g)
  BY DEF FileInv
<1>3. Sending(g)' /\ InPlace(sent[g])'
  BY <1>1, <1>2 DEF GetInv, Sending, InPlace
<1>4. pc[g] \in {"size", "read"} => torn'[g]
  <2>1. CASE OpenTruncate(p) \/ OpenMissing(p)
    BY <2>1 DEF OpenTruncate, OpenWith, OpenMissing, Begin, Reading
  <2>2. CASE PutGoesOn(p)
    <3>1. p \in Writing /\ torn' = torn
      BY <2>2 DEF PutGoesOn, Create, CreateWith, PutStops, Write, WritePiece, Goto, history,
                  Writing
    <3> QED
      BY <1>2, <3>1 DEF GetInv, Steady
  <2> QED
    BY <2>1, <2>2 DEF PutStep
<1>5. pc[g] = "done" => torn'[g] = torn[g]
  <2>1. CASE OpenTruncate(p) \/ OpenMissing(p)
    <3>1. torn' = [h \in Gets |-> torn[h] \/ h \in Reading] /\ torn \in [Gets -> BOOLEAN]
      BY <2>1 DEF OpenTruncate, OpenWith, OpenMissing, Begin, FileInv, TypeOK
    <3>2. pc[g] = "done" => g \notin Reading
      BY DEF Reading
    <3> QED
      BY <3>1, <3>2
  <2>2. CASE PutGoesOn(p)
    BY <2>2 DEF PutGoesOn, Create, CreateWith, PutStops, Write, WritePiece, history
  <2> QED
    BY <2>1, <2>2 DEF PutStep
<1>6. Steady(g)'
  BY <1>1, <1>4 DEF Steady
<1>7. Served(g)'
  <2> SUFFICES ASSUME pc[g] = "done", status[g] = "OK", ~torn[g]
               PROVE  /\ Len(sent[g]) = promised[g]
                      /\ (\A q \in Puts : ~clash'[q]) =>
                           \E s \in Puts \cup {Old} :
                             /\ sent[g] = Text(s, Len(sent[g]))
                             /\ s \in Puts => pc'[s] = "done"
                                              /\ (Acked(s)' => Len(sent[g]) = BodyLen[s])
    BY <1>1, <1>5 DEF Served, Text
  <2>1. Len(sent[g]) = promised[g]
    BY <1>2 DEF GetInv, Served
  <2>2. ASSUME \A q \in Puts : ~clash'[q]
        PROVE  \E s \in Puts \cup {Old} :
                 /\ sent[g] = Text(s, Len(sent[g]))
                 /\ s \in Puts => pc'[s] = "done" /\ (Acked(s)' => Len(sent[g]) = BodyLen[s])
    <3>1. \A q \in Puts : ~clash[q]
      BY <1>1, <2>2
    <3>2. PICK s \in Puts \cup {Old} :
             /\ sent[g] = Text(s, Len(sent[g]))
             /\ s \in Puts => pc[s] = "done" /\ (Acked(s) => Len(sent[g]) = BodyLen[s])
      BY <1>2, <3>1 DEF GetInv, Served
    <3>3. s \in Puts => s # p /\ pc'[s] = "done" /\ (Acked(s)' <=> Acked(s))
      BY <1>1, <3>2 DEF Acked
    <3> QED
      BY <3>2, <3>3
  <2> QED
    BY <2>1, <2>2
<1> QED
  BY <1>3, <1>6, <1>7 DEF GetInv

\* open with O_TRUNC, or not at all: the file of p is empty.
LEMMA PutBegins ==
  ASSUME FileInv, NEW p \in Puts, OpenTruncate(p) \/ OpenMissing(p) PROVE TypeOK' /\ PutInv'
<1> DEFINE to == IF exists THEN Opened(p) ELSE "create"
<1>0. TypeOK /\ PutInv /\ p \in Requests /\ NoPut \notin Puts /\ BodyLen[p] \in Nat
  BY RequestsAssumption, BodyLenAssumption DEF FileInv, Requests
<1>1. /\ pc[p] = "begin" /\ pc' = [pc EXCEPT ![p] = to] /\ latest' = p
      /\ clash' = [q \in Puts |-> clash[q] \/ (Writing # {} /\ q \in Writing \cup {p})]
      /\ torn' = [g \in Gets |-> torn[g] \/ g \in Reading]
      /\ UNCHANGED <<exists, off, promised, sent>>
      /\ status' = IF exists THEN [status EXCEPT ![p] = "OK"] ELSE status
      /\ content' = IF exists THEN <<>> ELSE content
  <2>1. CASE OpenTruncate(p)
    BY <2>1 DEF OpenTruncate, OpenWith, Goto, Answer, Begin, getVars
  <2>2. CASE OpenMissing(p)
    BY <2>2 DEF OpenMissing, Goto, Begin, getVars, fileVars
  <2> QED
    BY <2>1, <2>2
<1>2. content' = <<>> /\ off[p] = 0 /\ status[p] = "none"
  BY <1>0, <1>1 DEF PutInv, PutState
<1>3. /\ pc'[p] = to /\ to \in {"create", "write", "done"}
      /\ exists => to # "create"
      /\ to = "done" => BodyLen[p] = 0
      /\ \A q \in Puts \ {p} : pc'[q] = pc[q]
  BY <1>0, <1>1 DEF TypeOK, Requests, Opened
<1>4. /\ \A q \in Puts \ {p} : status'[q] = status[q]
      /\ status'[p] = IF exists THEN "OK" ELSE "none"
  BY <1>0, <1>1, <1>2 DEF TypeOK, Requests
<1>5. /\ \A q \in Puts : clash'[q] = (clash[q] \/ (Writing # {} /\ q \in Writing \cup {p}))
  BY <1>1
<1>6. Writing' \subseteq Writing \cup {p}
  BY <1>3 DEF Writing
<1>7. TypeOK'
  <2>1. exists' \in BOOLEAN /\ content' \in Seq(Bytes) /\ latest' \in Puts \cup {NoPut}
    BY <1>0, <1>1, <1>2 DEF TypeOK
  <2>2. pc' \in [Requests -> {"begin", "create", "write", "open", "size", "read", "done"}]
    BY <1>0, <1>1, <1>3 DEF TypeOK
  <2>3. status' \in [Requests -> {"none", "OK", "CREATED", "NOT_FOUND", "INTERNAL_ERROR"}]
    BY <1>0, <1>1 DEF TypeOK
  <2>4. off' \in [Requests -> Nat] /\ promised' \in [Gets -> Nat] /\ sent' \in [Gets -> Seq(Bytes)]
    BY <1>0, <1>1 DEF TypeOK
  <2>5. clash' \in [Puts -> BOOLEAN]
    <3>1. \A q \in Puts : (clash[q] \/ (Writing # {} /\ q \in Writing \cup {p})) \in BOOLEAN
      OBVIOUS
    <3> QED
      BY <1>1, <3>1
  <2>6. torn' \in [Gets -> BOOLEAN]
    <3>1. \A g \in Gets : (torn[g] \/ g \in Reading) \in BOOLEAN
      OBVIOUS
    <3> QED
      BY <1>1, <3>1
  <2> QED
    BY <2>1, <2>2, <2>3, <2>4, <2>5, <2>6 DEF TypeOK
<1>8. PutState'
  BY <1>0, <1>1, <1>2, <1>3, <1>4 DEF PutInv, PutState, Acked
<1>9. Alone'
  <2>1. latest' # NoPut /\ pc'[p] # "begin"
    BY <1>0, <1>1, <1>3
  <2>2. clash'[p] \/ Writing' \subseteq {p}
    BY <1>5, <1>6
  <2>3. ASSUME NEW q \in Writing' PROVE clash'[q] \/ latest' = q
    <3>1. q \in Puts /\ (q = p \/ q \in Writing)
      BY <1>6 DEF Writing
    <3> QED
      BY <1>1, <1>5, <3>1
  <2> QED
    BY <1>1, <2>1, <2>2, <2>3 DEF Alone
<1>10. SoloContent'
  BY <1>0, <1>1, <1>2, <1>3, EmptyText DEF SoloContent, Text
<1>11. SoloCreator'
  <2> SUFFICES ASSUME NEW q \in Puts, ~clash'[q], pc'[q] = "create" \/ status'[q] = "CREATED",
                      NEW r \in Puts \ {q}
               PROVE  pc'[r] # "create" /\ status'[r] # "CREATED"
    BY DEF SoloCreator
  <2>1. \A x \in Puts : status[x] = "CREATED" => exists
    BY <1>0 DEF PutInv, PutState, Acked
  <2>2. CASE q = p
    <3>1. ~exists /\ Writing = {}
      BY <1>3, <1>4, <1>5, <2>2
    <3> QED
      BY <1>3, <1>4, <2>1, <2>2, <3>1 DEF Writing
  <2>3. CASE q # p
    <3>1. ~clash[q] /\ (pc[q] = "create" \/ status[q] = "CREATED")
      BY <1>3, <1>4, <1>5, <2>3
    <3>2. q \notin Writing
      BY <1>5
    <3>3. exists
      BY <2>1, <3>1, <3>2 DEF Writing
    <3>4. r # p => pc[r] # "create" /\ status[r] # "CREATED"
      BY <1>0, <3>1 DEF PutInv, SoloCreator
    <3> QED
      BY <1>3, <1>4, <3>3, <3>4
  <2> QED
    BY <2>2, <2>3
<1>12. Covered'
  BY <1>1, <1>2 DEF Covered
<1>13. InPlace(content)'
  BY <1>2 DEF InPlace
<1> QED
  BY <1>7, <1>8, <1>9, <1>10, <1>11, <1>12, <1>13 DEF PutInv

\* What every later step of p finds and leaves: p is under way before it, the
\* history is as it was, and nobody starts to write.
LEMMA PutGoesOnFrame ==
  ASSUME FileInv, NEW p \in Puts, PutGoesOn(p)
  PROVE  /\ TypeOK /\ PutInv /\ p \in Requests /\ BodyLen[p] \in Nat /\ off[p] \in Nat
         /\ p \in Writing /\ UNCHANGED <<latest, clash, torn, promised, sent>>
         /\ pc'[p] \in {"write", "done"} /\ Writing' \subseteq Writing
         /\ \A q \in Puts \ {p} : pc'[q] = pc[q] /\ status'[q] = status[q] /\ off'[q] = off[q]
         /\ latest # NoPut
         /\ \A q \in Puts : latest = q /\ ~clash[q] => q = p
         /\ Alone'
<1>1. /\ TypeOK /\ PutInv /\ p \in Requests /\ BodyLen[p] \in Nat /\ off[p] \in Nat
  BY BodyLenAssumption DEF FileInv, TypeOK, Requests
<1>2. p \in Writing /\ UNCHANGED <<latest, clash, torn, promised, sent>>
  BY DEF PutGoesOn, Create, CreateWith, PutStops, Write, WritePiece, Goto, history, getVars,
         Writing
<1>3. pc'[p] \in {"write", "done"}
  BY <1>1 DEF PutGoesOn, Create, CreateWith, PutStops, Write, WritePiece, Goto, Opened, TypeOK
<1>4. \A q \in Puts \ {p} : pc'[q] = pc[q] /\ status'[q] = status[q] /\ off'[q] = off[q]
  BY PutFrame DEF PutStep, Requests
<1>5. Writing' \subseteq Writing
  BY <1>2, <1>4 DEF Writing
<1>6. latest # NoPut /\ \A q \in Puts : latest = q /\ ~clash[q] => q = p
  BY <1>1, <1>2 DEF PutInv, Alone, Writing
<1>7. Alone'
  BY <1>1, <1>2, <1>3, <1>4, <1>5, <1>6 DEF PutInv, Alone
<1> QED
  BY <1>1, <1>2, <1>3, <1>4, <1>5, <1>6, <1>7

\* open with O_CREAT: 201, and the file as it is.
LEMMA PutCreates == ASSUME FileInv, NEW p \in Puts, Create(p) PROVE TypeOK' /\ PutInv'
<1>0. PutGoesOn(p)
  BY DEF PutGoesOn
<1> USE <1>0, PutGoesOnFrame
<1>1. /\ pc[p] = "create" /\ exists' = TRUE /\ content' = content /\ off' = off
      /\ pc' = [pc EXCEPT ![p] = Opened(p)]
      /\ status' = [status EXCEPT ![p] = "CREATED"]
  BY DEF Create, CreateWith, Goto, Answer
<1>2. /\ status'[p] = "CREATED" /\ off[p] = 0
      /\ pc'[p] = "done" => BodyLen[p] = 0
  BY <1>1 DEF TypeOK, PutInv, PutState, Opened
<1>3. TypeOK'
  <2>1. pc' \in [Requests -> {"begin", "create", "write", "open", "size", "read", "done"}]
    BY <1>1 DEF TypeOK, Opened
  <2>2. status' \in [Requests -> {"none", "OK", "CREATED", "NOT_FOUND", "INTERNAL_ERROR"}]
    BY <1>1 DEF TypeOK
  <2>3. exists' \in BOOLEAN
    BY <1>1
  <2> QED
    BY <1>1, <2>1, <2>2, <2>3 DEF TypeOK
<1>4. PutState'
  BY <1>1, <1>2 DEF PutInv, PutState, Acked
<1>5. SoloContent'
  <2> SUFFICES ASSUME latest = p, ~clash[p] PROVE content = Text(p, off[p])
    BY <1>1 DEF SoloContent, Text
  <2>1. ~exists
    BY <1>1 DEF PutInv, SoloContent
  <2>2. content = <<>>
    BY <2>1 DEF PutInv, PutState
  <2> QED
    BY <1>2, <2>2, EmptyText
<1>6. SoloCreator'
  <2> SUFFICES ASSUME NEW q \in Puts, ~clash[q], pc'[q] = "create" \/ status'[q] = "CREATED",
                      NEW r \in Puts \ {q}
               PROVE  pc'[r] # "create" /\ status'[r] # "CREATED"
    BY DEF SoloCreator
  <2>1. pc[q] = "create" \/ status[q] = "CREATED"
    BY <1>1
  <2>2. pc[r] # "create" /\ status[r] # "CREATED"
    BY <2>1 DEF PutInv, SoloCreator
  <2> QED
    BY <1>1, <2>2
<1>7. Covered' /\ InPlace(content)'
  BY <1>1 DEF PutInv, Covered, InPlace
<1> QED
  BY <1>3, <1>4, <1>5, <1>6, <1>7 DEF PutInv

\* A PUT that is given up leaves what it has written.
LEMMA PutGivesUp == ASSUME FileInv, NEW p \in Puts, PutStops(p) PROVE TypeOK' /\ PutInv'
<1>0. PutGoesOn(p)
  BY DEF PutGoesOn
<1> USE <1>0, PutGoesOnFrame
<1>1. PICK s \in {"none", "INTERNAL_ERROR"} : status' = [status EXCEPT ![p] = s]
  BY DEF PutStops, Answer
<1>2. /\ pc[p] = "write" /\ exists' = exists /\ content' = content /\ off' = off
      /\ pc' = [pc EXCEPT ![p] = "done"] /\ status'[p] = s
  BY <1>1 DEF PutStops, Goto, fileVars, TypeOK
<1>3. TypeOK'
  <2>1. pc' \in [Requests -> {"begin", "create", "write", "open", "size", "read", "done"}]
    BY <1>2 DEF TypeOK
  <2>2. status' \in [Requests -> {"none", "OK", "CREATED", "NOT_FOUND", "INTERNAL_ERROR"}]
    BY <1>1 DEF TypeOK
  <2> QED
    BY <1>2, <2>1, <2>2 DEF TypeOK
<1>4. PutState'
  BY <1>2 DEF PutInv, PutState, Acked
<1>5. SoloContent'
  BY <1>2 DEF PutInv, SoloContent, Text
<1>6. SoloCreator'
  BY <1>2 DEF PutInv, SoloCreator
<1>7. Covered' /\ InPlace(content)'
  BY <1>2 DEF PutInv, Covered, InPlace
<1> QED
  BY <1>3, <1>4, <1>5, <1>6, <1>7 DEF PutInv

\* A write at p's own offset: bytes go to their places, and only a truncation
\* by a PUT that overlapped can leave a hole below them.
LEMMA PutWrites ==
  ASSUME FileInv, NEW p \in Puts, NEW n \in 1..MaxPiece, Write(p, n) PROVE TypeOK' /\ PutInv'
<1>0. PutGoesOn(p)
  BY DEF PutGoesOn
<1> USE <1>0, PutGoesOnFrame
<1> DEFINE o == off[p]
           w == Written(p, o, o, n)
<1>1. /\ n \in 1..(BodyLen[p] - o) /\ pc[p] = "write"
      /\ pc' = [pc EXCEPT ![p] = IF o + n = BodyLen[p] THEN "done" ELSE "write"]
      /\ content' = w /\ off' = [off EXCEPT ![p] = o + n] /\ UNCHANGED <<exists, status>>
  BY DEF Write, WritePiece, Goto
<1>2. n \in Nat \ {0} /\ o \in Nat /\ o + n <= BodyLen[p]
  BY <1>1
<1>3. /\ w \in Seq(Bytes)
      /\ Len(w) = IF Len(content) >= o + n THEN Len(content) ELSE o + n
      /\ DOMAIN w = 1..Len(w)
      /\ \A i \in 1..Len(w) :
           w[i] = IF o < i /\ i <= o + n THEN <<p, i>>
                  ELSE IF i <= Len(content) THEN content[i] ELSE <<Hole, i>>
  BY <1>2, WrittenFacts
<1>4. /\ content \in Seq(Bytes) /\ Len(content) \in Nat /\ DOMAIN content = 1..Len(content)
      /\ off'[p] = o + n
      /\ pc'[p] = "done" => o + n = BodyLen[p]
  BY <1>1, <1>2 DEF TypeOK
<1> HIDE DEF w, o
<1>5. Len(w) \in Nat /\ Len(w) >= Len(content) /\ Len(w) >= o + n
  BY <1>2, <1>3, <1>4
<1>6. TypeOK'
  <2>1. pc' \in [Requests -> {"begin", "create", "write", "open", "size", "read", "done"}]
    BY <1>1 DEF TypeOK
  <2>2. off' \in [Requests -> Nat]
    BY <1>1, <1>2 DEF TypeOK
  <2>3. exists' \in BOOLEAN
    BY <1>1 DEF TypeOK
  <2> QED
    BY <1>1, <1>3, <2>1, <2>2, <2>3 DEF TypeOK
<1>7. PutState'
  <2>1. exists
    BY <1>1 DEF PutInv, PutState
  <2> QED
    BY <1>1, <1>2, <1>4, <2>1 DEF PutInv, PutState, Acked
<1>8. latest = p => Len(content) >= o
  BY DEF PutInv, Covered, o
<1>9. SoloContent'
  <2> SUFFICES ASSUME latest = p, ~clash[p] PROVE w = Text(p, o + n)
    BY <1>1, <1>4 DEF SoloContent, Text
  <2>1. content = Text(p, o)
    BY <1>1 DEF PutInv, SoloContent, o
  <2>2. Len(content) = o /\ \A i \in 1..o : content[i] = <<p, i>>
    BY <1>2, <2>1, TextFacts
  <2>3. Len(w) = o + n
    BY <1>2, <1>3, <2>2
  <2>4. \A i \in 1..Len(w) : w[i] = <<p, i>>
    <3> SUFFICES ASSUME NEW i \in 1..Len(w) PROVE w[i] = <<p, i>>
      OBVIOUS
    <3>1. i \in 1..o \/ (o < i /\ i <= o + n)
      BY <1>2, <2>3
    <3>2. i \in 1..o => ~(o < i) /\ i <= Len(content)
      BY <1>2, <2>2
    <3> QED
      BY <1>3, <2>2, <3>1, <3>2
  <2>5. /\ Text(p, o + n) \in Seq(Bytes) /\ Len(Text(p, o + n)) = o + n
        /\ \A i \in 1..(o + n) : Text(p, o + n)[i] = <<p, i>>
    <3>1. o + n \in Nat
      BY <1>2
    <3> QED
      BY <3>1, TextFacts
  <2> QED
    BY <1>3, <2>3, <2>4, <2>5, SeqEqual
<1>10. SoloCreator'
  BY <1>1 DEF PutInv, SoloCreator
<1>11. Covered'
  <2> SUFFICES ASSUME NEW q \in Puts, latest = q
               PROVE  /\ Len(w) >= off'[q]
                      /\ \A i \in 1..off'[q] :
                           w[i][1] = q \/ \E r \in Puts : clash[r] /\ w[i] = <<r, i>>
    BY <1>1 DEF Covered
  <2>1. /\ Len(content) >= off[q] /\ off[q] \in Nat
        /\ \A i \in 1..off[q] :
             content[i][1] = q \/ \E r \in Puts : clash[r] /\ content[i] = <<r, i>>
    BY DEF PutInv, Covered, TypeOK, Requests
  <2>2. Len(w) >= off'[q]
    BY <1>4, <1>5, <2>1
  <2>3. ASSUME NEW i \in 1..off'[q]
        PROVE  w[i][1] = q \/ \E r \in Puts : clash[r] /\ w[i] = <<r, i>>
    <3>1. i \in 1..Len(w)
      BY <1>2, <1>4, <1>5, <2>1, <2>2
    <3>2. CASE o < i /\ i <= o + n
      <4>1. w[i] = <<p, i>>
        BY <1>3, <3>1, <3>2
      <4>2. q = p \/ clash[p]
        BY DEF PutInv, Alone
      <4> QED
        BY <4>1, <4>2
    <3>3. CASE ~(o < i /\ i <= o + n)
      <4>1. i \in 1..off[q]
        BY <1>2, <1>4, <2>1, <3>3 DEF o
      <4>2. i <= Len(content)
        BY <1>4, <2>1, <4>1
      <4>3. w[i] = content[i]
        BY <1>3, <3>1, <3>3, <4>2
      <4> QED
        BY <2>1, <4>1, <4>3
    <3> QED
      BY <3>2, <3>3
  <2> QED
    BY <2>2, <2>3
<1>12. InPlace(content)'
  <2>1. ASSUME NEW i \in 1..Len(w)
        PROVE  w[i][2] = i /\ (w[i][1] = Hole => \E q \in Puts : clash[q])
    <3>1. CASE o < i /\ i <= o + n
      <4>1. w[i] = <<p, i>> /\ p # Hole
        BY <1>3, <3>1, RequestsAssumption
      <4> QED
        BY <4>1
    <3>2. CASE ~(o < i /\ i <= o + n) /\ i <= Len(content)
      <4>1. w[i] = content[i]
        BY <1>3, <3>2
      <4>2. i \in DOMAIN content
        BY <1>4, <1>5, <3>2
      <4> QED
        BY <4>1, <4>2 DEF PutInv, InPlace
    <3>3. CASE ~(o < i /\ i <= o + n) /\ ~(i <= Len(content))
      <4>1. w[i] = <<Hole, i>>
        BY <1>3, <3>3
      <4>2. Len(content) < o
        BY <1>2, <1>3, <1>4, <3>3
      <4>3. latest # p
        BY <1>2, <1>4, <1>8, <4>2
      <4>4. clash[p]
        BY <4>3 DEF PutInv, Alone
      <4> QED
        BY <4>1, <4>4
    <3> QED
      BY <3>1, <3>2, <3>3
  <2> QED
    BY <1>1, <1>3, <2>1 DEF InPlace
<1> QED
  BY <1>6, <1>7, <1>9, <1>10, <1>11, <1>12 DEF PutInv

\* A step of a PUT keeps the invariant.
LEMMA PutStepInv == ASSUME FileInv, NEW p \in Puts, PutStep(p) PROVE FileInv'
<1>1. TypeOK' /\ PutInv'
  BY PutBegins, PutCreates, PutGivesUp, PutWrites DEF PutStep, PutGoesOn
<1>2. \A g \in Gets : GetInv(g)'
  BY PutKeepsGets
<1> QED
  BY <1>1, <1>2 DEF FileInv

\* The invariant holds in every reachable state.
LEMMA FileInvHolds == Spec => []FileInv
<1>1. Init => FileInv
  BY InitFile
<1>2. FileInv /\ [Next]_vars => FileInv'
  <2> SUFFICES ASSUME FileInv, [Next]_vars PROVE FileInv'
    OBVIOUS
  <2>1. CASE \E p \in Puts : PutStep(p)
    BY <2>1, PutStepInv
  <2>2. CASE \E g \in Gets : GetStep(g)
    BY <2>2, GetStepInv
  <2>3. CASE UNCHANGED vars
    <3>1. /\ UNCHANGED <<exists, content, pc, status, off>>
          /\ UNCHANGED <<promised, sent, latest, clash, torn>>
      BY <2>3 DEF vars, fileVars, getVars, history
    <3>2. TypeOK'
      BY <3>1 DEF FileInv, TypeOK
    <3>3. PutState' /\ SoloCreator' /\ Covered' /\ InPlace(content)'
      BY <3>1 DEF FileInv, PutInv, PutState, Acked, SoloCreator, Covered, InPlace
    <3>4. Alone' /\ SoloContent'
      BY <3>1 DEF FileInv, PutInv, Alone, SoloContent, Writing, Text
    <3>5. ASSUME NEW g \in Gets PROVE GetInv(g)'
      BY <3>1 DEF FileInv, GetInv, Sending, InPlace, Steady, Served, Writing, Acked, Text
    <3> QED
      BY <3>2, <3>3, <3>4, <3>5 DEF FileInv, PutInv
  <2>4. Next => (\E p \in Puts : PutStep(p)) \/ (\E g \in Gets : GetStep(g))
    BY DEF Next, PutStep, PutGoesOn, GetStep
  <2> QED
    BY <2>1, <2>2, <2>3, <2>4
<1> QED
  BY <1>1, <1>2, PTL DEF Spec

-----------------------------------------------------------------------------
(***************************************************************************)
(* The properties.                                                         *)
(***************************************************************************)

\* The file, the requests and the history keep their types.
THEOREM FileTypes == Spec => []TypeOK
<1>1. FileInv => TypeOK
  BY DEF FileInv
<1> QED
  BY <1>1, FileInvHolds, PTL

\* A PUT that create_filename and read_request_body answered with 200 or 201
\* without another PUT on the file has left exactly its body there, and was
\* alone in creating it.
THEOREM SoloPutsAreStored == Spec => []SoloPutStored
<1>1. FileInv => SoloPutStored
  <2> SUFFICES ASSUME FileInv, NEW p \in Puts, Acked(p), ~clash[p]
               PROVE  /\ latest = p => content = Text(p, BodyLen[p])
                      /\ status[p] = "CREATED" => \A q \in Puts \ {p} : status[q] # "CREATED"
    BY DEF SoloPutStored
  <2>1. off[p] = BodyLen[p]
    BY DEF FileInv, PutInv, PutState
  <2>2. latest = p => content = Text(p, off[p])
    BY DEF FileInv, PutInv, SoloContent, Acked
  <2>3. status[p] = "CREATED" => \A q \in Puts \ {p} : status[q] # "CREATED"
    BY DEF FileInv, PutInv, SoloCreator
  <2> QED
    BY <2>1, <2>2, <2>3
<1> QED
  BY <1>1, FileInvHolds, PTL

\* However PUTs overlap, the one that began last leaves no gap: the open that
\* creates does not truncate what it has written.
THEOREM LatestPutsCover == Spec => []LatestPutCovers
<1>1. FileInv => LatestPutCovers
  <2> SUFFICES ASSUME FileInv, NEW p \in Puts, latest = p, Acked(p)
               PROVE  /\ Len(content) >= BodyLen[p]
                      /\ \A i \in 1..BodyLen[p] :
                           content[i][1] = p \/ \E q \in Puts : clash[q] /\ content[i] = <<q, i>>
    BY DEF LatestPutCovers
  <2>1. off[p] = BodyLen[p]
    BY DEF FileInv, PutInv, PutState
  <2> QED
    BY <2>1 DEF FileInv, PutInv, Covered
<1> QED
  BY <1>1, FileInvHolds, PTL

\* Writes at a descriptor's own offset and reads from the start put every byte
\* in its place, and holes are left only by PUTs that overlapped.
THEOREM BytesStayInPlace == Spec => []BytesInPlace
<1>1. FileInv => BytesInPlace
  BY InPlaceParts DEF FileInv, PutInv, GetInv
<1> QED
  BY <1>1, FileInvHolds, PTL

\* A GET that had the file open while no PUT was under way sends what its
\* Content-Length promised, all of it from one source.
THEOREM UntornReadsAreWhole == Spec => []UntornRead
<1>1. FileInv => UntornRead
  <2> SUFFICES ASSUME FileInv, NEW g \in Gets, pc[g] = "done", status[g] = "OK", ~torn[g]
               PROVE  /\ Len(sent[g]) = promised[g]
                      /\ (\A p \in Puts : ~clash[p]) =>
                           \E s \in Puts \cup {Old} :
                             /\ sent[g] = Text(s, Len(sent[g]))
                             /\ (s \in Puts /\ Acked(s)) => Len(sent[g]) = BodyLen[s]
    BY DEF UntornRead
  <2>1. Served(g)
    BY DEF FileInv, GetInv
  <2> QED
    BY <2>1 DEF Served
<1> QED
  BY <1>1, FileInvHolds, PTL
=============================================================================
