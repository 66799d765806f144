--------------------------- MODULE LoggerTextProofs ---------------------------
(***************************************************************************)
(* log.c, what becomes of the text: for any number of threads and any      *)
(* lines no byte is lost between the buffer and the file, and as long as   *)
(* no two calls overlap every line arrives intact and in order.            *)
(***************************************************************************)
EXTENDS LoggerProofs, FiniteSetTheorems, WellFoundedInduction

-----------------------------------------------------------------------------
(***************************************************************************)
(* Flattening a sequence of sequences.  FlattenSeq is defined by a         *)
(* recursive function; that there is one, and that it does not depend on   *)
(* how long the sequence is, is proved from the least place that would be  *)
(* an exception.                                                           *)
(***************************************************************************)

\* A set of numbers that is not empty has a least element.
LEMMA LeastNumber ==
  ASSUME NEW S \in SUBSET Nat, S # {}
  PROVE  \E n \in S : \A m \in S : n <= m
<1>1. \E n \in S : \A m \in S : ~(<<m, n>> \in OpToRel(<, Nat))
  BY NatLessThanWellFounded, WFMin
<1>2. \A m, n \in Nat : m < n => <<m, n>> \in OpToRel(<, Nat)
  BY DEF OpToRel
<1>3. \A m, n \in Nat : ~(m < n) => n <= m
  OBVIOUS
<1> QED
  BY <1>1, <1>2, <1>3

\* f[i] is the concatenation of the first i of n sequences.
Flattens(f, seqs, n) ==
  /\ f = [i \in 1..n |-> f[i]]
  /\ \A i \in 1..n : f[i] = IF i = 1 THEN seqs[1] ELSE f[i - 1] \o seqs[i]

\* There is such a function.
LEMMA FlattensExists ==
  ASSUME NEW seqs, NEW n \in Nat
  PROVE  \E f : Flattens(f, seqs, n)
<1> DEFINE S == {m \in Nat : ~\E f : Flattens(f, seqs, m)}
<1> SUFFICES S = {}
  OBVIOUS
<1> SUFFICES ASSUME S # {} PROVE FALSE
  OBVIOUS
<1>1. PICK m \in S : \A k \in S : m <= k
  BY LeastNumber
<1>2. m # 0
  <2>1. Flattens([i \in 1..0 |-> 0], seqs, 0)
    BY DEF Flattens
  <2> QED
    BY <2>1
<1>3. m - 1 \in Nat /\ m - 1 \notin S
  BY <1>1, <1>2
<1>4. PICK f : Flattens(f, seqs, m - 1)
  BY <1>3
<1> DEFINE g == [i \in 1..m |->
                   IF i < m THEN f[i] ELSE IF i = 1 THEN seqs[1] ELSE f[i - 1] \o seqs[i]]
<1>5. \A i \in 1..m : g[i] = IF i = 1 THEN seqs[1] ELSE g[i - 1] \o seqs[i]
  <2> SUFFICES ASSUME NEW i \in 1..m PROVE g[i] = IF i = 1 THEN seqs[1] ELSE g[i - 1] \o seqs[i]
    OBVIOUS
  <2>1. CASE i < m
    <3>1. i \in 1..(m - 1) /\ (i # 1 => i - 1 \in 1..m /\ i - 1 < m)
      BY <1>3, <2>1
    <3>2. g[i] = f[i] /\ (i # 1 => g[i - 1] = f[i - 1])
      BY <2>1, <3>1
    <3>3. f[i] = IF i = 1 THEN seqs[1] ELSE f[i - 1] \o seqs[i]
      BY <1>4, <3>1 DEF Flattens
    <3> QED
      BY <3>2, <3>3
  <2>2. CASE i = m
    BY <1>3, <2>2
  <2> QED
    BY <2>1, <2>2
<1>6. Flattens(g, seqs, m)
  BY <1>5 DEF Flattens
<1> QED
  BY <1>6

\* Two of them agree as far as both go.
LEMMA FlattensAgree ==
  ASSUME NEW f, NEW g, NEW s, NEW r, NEW n \in Nat, NEW k \in Nat,
         Flattens(f, s, n), Flattens(g, r, k), n <= k, \A i \in 1..n : s[i] = r[i]
  PROVE  \A i \in 1..n : f[i] = g[i]
<1> DEFINE S == {i \in 1..n : f[i] # g[i]}
<1> SUFFICES ASSUME S # {} PROVE FALSE
  OBVIOUS
<1>0. S \in SUBSET Nat
  OBVIOUS
<1>1. PICK m \in S : \A j \in S : m <= j
  <2> HIDE DEF S
  <2> QED
    BY <1>0, LeastNumber
<1>2. m \in 1..n /\ m \in 1..k /\ n \in Nat /\ k \in Nat
  OBVIOUS
<1>3. m # 1
  BY <1>2 DEF Flattens
<1>4. m - 1 \in 1..n /\ m - 1 \notin S
  BY <1>1, <1>2, <1>3
<1>5. f[m] = f[m - 1] \o s[m] /\ g[m] = g[m - 1] \o r[m]
  BY <1>2, <1>3 DEF Flattens
<1> QED
  BY <1>4, <1>5

\* FlattenSeq is the last value of such a function.
LEMMA FlattenIs ==
  ASSUME NEW seqs, Len(seqs) \in Nat \ {0}
  PROVE  \E f : Flattens(f, seqs, Len(seqs)) /\ FlattenSeq(seqs) = f[Len(seqs)]
<1> DEFINE n == Len(seqs)
           Def(f) == f = [i \in 1..n |-> IF i = 1 THEN seqs[i] ELSE f[i - 1] \o seqs[i]]
           h == CHOOSE f : Def(f)
<1>1. PICK f : Flattens(f, seqs, n)
  BY FlattensExists
<1>2. f = [i \in 1..n |-> IF i = 1 THEN seqs[i] ELSE f[i - 1] \o seqs[i]]
  BY <1>1 DEF Flattens
<1>3. h = [i \in 1..n |-> IF i = 1 THEN seqs[i] ELSE h[i - 1] \o seqs[i]]
  BY <1>2
<1>4. Flattens(h, seqs, n)
  <2> HIDE DEF h
  <2> QED
    BY <1>3 DEF Flattens
<1>5. FlattenSeq(seqs) = h[n]
  BY DEF FlattenSeq
<1> QED
  BY <1>4, <1>5

\* What is appended comes last.
LEMMA FlattenAppend ==
  ASSUME NEW B, NEW seqs \in Seq(Seq(B)), NEW x \in Seq(B)
  PROVE  FlattenSeq(Append(seqs, x)) = FlattenSeq(seqs) \o x
<1> DEFINE n == Len(seqs)
           r == Append(seqs, x)
<1>1. n \in Nat /\ Len(r) = n + 1 /\ r[n + 1] = x /\ \A i \in 1..n : r[i] = seqs[i]
  OBVIOUS
<1> HIDE DEF r, n
<1>2. PICK g : Flattens(g, r, n + 1) /\ FlattenSeq(r) = g[n + 1]
  BY <1>1, FlattenIs
<1>3. g[n + 1] = IF n + 1 = 1 THEN r[1] ELSE g[n] \o x
  <2>1. n + 1 \in 1..(n + 1) /\ (n + 1) - 1 = n
    BY <1>1
  <2>2. g[n + 1] = IF n + 1 = 1 THEN r[1] ELSE g[(n + 1) - 1] \o r[n + 1]
    BY <1>2, <2>1 DEF Flattens
  <2> QED
    BY <1>1, <2>1, <2>2
<1>4. CASE n = 0
  <2>1. FlattenSeq(seqs) = <<>>
    BY <1>4 DEF FlattenSeq, n
  <2>2. FlattenSeq(r) = x
    BY <1>1, <1>2, <1>3, <1>4
  <2>3. <<>> \o x = x
    OBVIOUS
  <2> QED
    BY <2>1, <2>2, <2>3 DEF r
<1>5. CASE n # 0
  <2>1. PICK f : Flattens(f, seqs, n) /\ FlattenSeq(seqs) = f[n]
    BY <1>1, <1>5, FlattenIs DEF n
  <2>2. n \in 1..n /\ n + 1 \in Nat /\ n <= n + 1
    BY <1>1, <1>5
  <2>3. \A i \in 1..n : seqs[i] = r[i]
    BY <1>1
  <2>4. \A i \in 1..n : f[i] = g[i]
    BY <1>1, <1>2, <2>1, <2>2, <2>3, FlattensAgree
  <2>5. n + 1 # 1 /\ f[n] = g[n]
    BY <1>1, <1>5, <2>2, <2>4
  <2>6. FlattenSeq(r) = FlattenSeq(seqs) \o x
    BY <1>2, <1>3, <2>1, <2>5
  <2> QED
    BY <2>6 DEF r
<1> QED
  BY <1>4, <1>5

-----------------------------------------------------------------------------
(***************************************************************************)
(* The text of the lines logged.                                           *)
(***************************************************************************)
LineText(l) == [i \in 1..l.len |-> <<l.call, i>>]

\* The bytes of a line.
LEMMA LineTextFacts ==
  ASSUME NEW l \in Lines
  PROVE  /\ LineText(l) \in Seq(Bytes) /\ Len(LineText(l)) = l.len
         /\ \A i \in 1..l.len : LineText(l)[i] = <<l.call, i>>
<1>1. l.len \in Nat /\ l.len <= Size /\ l.call \in 0..MaxCalls /\ Size \in Nat
  BY SizeAssumption DEF Lines
<1>2. \A i \in 1..l.len : <<l.call, i>> \in Bytes
  BY <1>1 DEF Bytes
<1> QED
  BY <1>1, <1>2 DEF LineText

\* Nothing was logged at first.
LEMMA TextEmpty == Text(<<>>) = <<>>
<1> DEFINE s == [k \in DOMAIN <<>> |-> LineText(<<>>[k])]
<1>1. s = <<>>
  OBVIOUS
<1>2. FlattenSeq(<<>>) = <<>>
  BY DEF FlattenSeq
<1> QED
  BY <1>1, <1>2 DEF Text, LineText

\* Another line adds its bytes at the end.
LEMMA TextAppend ==
  ASSUME NEW ls \in Seq(Lines), NEW l \in Lines
  PROVE  Text(Append(ls, l)) = Text(ls) \o LineText(l)
<1> DEFINE r == Append(ls, l)
           T(s) == [k \in DOMAIN s |-> LineText(s[k])]
<1>1. \A s : Text(s) = FlattenSeq(T(s))
  BY DEF Text, LineText
<1>2. \A k \in Lines : LineText(k) \in Seq(Bytes)
  BY LineTextFacts
<1>3. T(ls) \in Seq(Seq(Bytes)) /\ LineText(l) \in Seq(Bytes)
  <2>1. Len(ls) \in Nat /\ DOMAIN ls = 1..Len(ls) /\ \A k \in DOMAIN ls : ls[k] \in Lines
    OBVIOUS
  <2>2. T(ls) \in [1..Len(ls) -> Seq(Bytes)]
    BY <1>2, <2>1
  <2> HIDE DEF T
  <2> QED
    BY <1>2, <2>1, <2>2
<1>4. T(r) = Append(T(ls), LineText(l))
  <2>1. Len(ls) \in Nat /\ DOMAIN ls = 1..Len(ls) /\ DOMAIN r = 1..(Len(ls) + 1)
    OBVIOUS
  <2>2. \A k \in 1..(Len(ls) + 1) : T(r)[k] = Append(T(ls), LineText(l))[k]
    BY <2>1
  <2>3. Len(T(ls)) = Len(ls)
    BY <2>1
  <2> QED
    BY <2>1, <2>2, <2>3
<1> HIDE DEF T
<1>5. FlattenSeq(Append(T(ls), LineText(l))) = FlattenSeq(T(ls)) \o LineText(l)
  BY <1>3, FlattenAppend
<1> QED
  BY <1>1, <1>4, <1>5

-----------------------------------------------------------------------------
(***************************************************************************)
(* The inductive invariant.  A byte that was logged is in the file, in the *)
(* buffer (or has its room there), or still missing: one of the rest of a  *)
(* line for which no room is reserved yet.                                 *)
(***************************************************************************)
Pending == {"mutex", "rdlock", "reserve", "fill", "full", "flush", "rdagain"}

Rest(t) == IF pc[t] \in Pending THEN done[t] + 1 .. line[t].len ELSE {}

Missing == {b \in Threads \X (1..Size) : b[2] \in Rest(b[1])}

Accounted ==
  /\ Text(logged) \in Seq(Bytes)
  /\ Len(out) + head + Cardinality(Missing) = Len(Text(logged))

Active == {t \in Threads : pc[t] \notin {"idle", "closed"}}

\* The line of t is the last text logged.
LineIsLast(t) ==
  /\ line[t].len <= Len(Text(logged))
  /\ \A i \in 1..line[t].len :
       Text(logged)[Len(Text(logged)) - line[t].len + i] = <<line[t].call, i>>

\* Place j of the buffer is below what is still being copied.
Copied(j) == \A t \in Threads : pc[t] = "copy" => j <= CopyTarget(t)

\* File and buffer hold, up to where a line is being copied, the text.
Stored ==
  /\ \A i \in 1..Len(out) : out[i] = Text(logged)[i]
  /\ \A j \in 1..head : Copied(j) => buf[j - 1] = Text(logged)[Len(out) + j]

\* While calls do not overlap.
InOrder ==
  ~overlap =>
    /\ \A t, u \in Active : t = u
    /\ \A t \in Active : LineIsLast(t)
    /\ ~short => Stored

TextInv == LogInv /\ Accounted /\ InOrder

\* When nobody is inside log_buf nothing is missing.
LEMMA NobodyMisses == Quiet => Missing = {}
  BY DEF Quiet, Missing, Rest, Pending

\* A set of missing bytes is finite, and adding or taking a piece of a line
\* that is not in it changes its size by the length of that piece.
LEMMA PieceSize ==
  ASSUME NEW S \in SUBSET (Threads \X (1..Size)), NEW t \in Threads, NEW a \in Nat, NEW b \in Nat,
         a <= b, S \cap ({t} \X (a + 1 .. b)) = {}
  PROVE  /\ IsFiniteSet(S) /\ Cardinality(S) \in Nat
         /\ Cardinality(S \cup ({t} \X (a + 1 .. b))) = Cardinality(S) + (b - a)
<1> DEFINE R == {t} \X (a + 1 .. b)
<1>1. IsFiniteSet(S)
  <2>1. IsFiniteSet(1..Size)
    BY SizeAssumption, FS_Interval
  <2>2. IsFiniteSet(Threads \X (1..Size))
    BY <2>1, ThreadsAssumption, FS_Product
  <2> QED
    BY <2>2, FS_Subset
<1>2. IsFiniteSet(R) /\ Cardinality(R) = b - a
  <2>1. IsFiniteSet(a + 1 .. b) /\ Cardinality(a + 1 .. b) = b - a
    <3>1. a + 1 \in Int /\ b \in Int /\ (a + 1 > b => b - a = 0) /\ b - (a + 1) + 1 = b - a
      OBVIOUS
    <3> QED
      BY <3>1, FS_Interval
  <2>2. IsFiniteSet({t}) /\ Cardinality({t}) = 1
    BY FS_Singleton
  <2>3. IsFiniteSet(R) /\ Cardinality(R) = 1 * Cardinality(a + 1 .. b)
    BY <2>1, <2>2, FS_Product
  <2> QED
    BY <2>1, <2>3
<1>3. Cardinality(S \cap R) = 0
  BY FS_EmptySet
<1>4. Cardinality(S \cup R) = Cardinality(S) + Cardinality(R) - Cardinality(S \cap R)
  BY <1>1, <1>2, FS_Union
<1>5. Cardinality(S) \in Nat
  BY <1>1, FS_CardinalityType
<1> HIDE DEF R
<1>6. Cardinality(S \cup R) = Cardinality(S) + (b - a)
  BY <1>2, <1>3, <1>4, <1>5
<1> QED
  BY <1>1, <1>5, <1>6 DEF R

\* What the steps need of the types.
LEMMA LogFacts ==
  ASSUME TextInv
  PROVE  /\ Size \in Nat /\ head \in 0..Size /\ out \in Seq(Bytes) /\ Len(out) \in Nat
         /\ buf \in [0..Size-1 -> Bytes] /\ pc \in [Threads -> PCs]
         /\ done \in [Threads -> 0..Size] /\ line \in [Threads -> Lines]
         /\ \A u \in Threads : /\ done[u] \in Nat /\ line[u].len \in 0..Size
                               /\ line[u].call \in 0..MaxCalls
                               /\ done[u] <= line[u].len /\ line[u].len <= Size
         /\ logged \in Seq(Lines) /\ Text(logged) \in Seq(Bytes) /\ Len(Text(logged)) \in Nat
         /\ Cardinality(Missing) \in Nat /\ Missing \in SUBSET (Threads \X (1..Size))
         /\ Len(out) + head + Cardinality(Missing) = Len(Text(logged))
<1>1. TypeOK /\ LineState /\ Accounted
  BY DEF TextInv, LogInv
<1>2. Size \in Nat
  BY SizeAssumption
<1>3. Len(out) \in Nat /\ Text(logged) \in Seq(Bytes) /\ Len(Text(logged)) \in Nat
  BY <1>1 DEF TypeOK, Accounted
<1>4. \A u \in Threads : /\ done[u] \in Nat /\ line[u].len \in 0..Size
                         /\ line[u].call \in 0..MaxCalls
                         /\ done[u] <= line[u].len /\ line[u].len <= Size
  BY <1>1, <1>2 DEF TypeOK, Lines, LineState
<1>5. Missing \in SUBSET (Threads \X (1..Size))
  BY DEF Missing
<1>6. Cardinality(Missing) \in Nat
  <2>1. IsFiniteSet(1..Size)
    BY <1>2, FS_Interval
  <2>2. IsFiniteSet(Threads \X (1..Size))
    BY <2>1, ThreadsAssumption, FS_Product
  <2> QED
    BY <1>5, <2>2, FS_Subset, FS_CardinalityType
<1> QED
  BY <1>1, <1>2, <1>3, <1>4, <1>5, <1>6 DEF TypeOK, Accounted

-----------------------------------------------------------------------------
(***************************************************************************)
(* No byte is lost.                                                        *)
(***************************************************************************)

\* A step that neither reserves room nor logs.
LEMMA AccountKept ==
  ASSUME TextInv, logged' = logged, Len(out') + head' = Len(out) + head,
         \A u \in Threads : Rest(u)' = Rest(u)
  PROVE  Accounted'
<1>1. Missing' = Missing
  BY DEF Missing
<1> QED
  BY <1>1 DEF TextInv, Accounted

\* t gets room for bytes a+1 .. b of its line.
LEMMA AccountRoom ==
  ASSUME TextInv, NEW t \in Threads, NEW a \in Nat, NEW b \in Nat, a <= b, b <= line[t].len,
         logged' = logged, out' = out, head' = head + (b - a),
         Rest(t) = a + 1 .. line[t].len, Rest(t)' = b + 1 .. line[t].len,
         \A u \in Threads \ {t} : Rest(u)' = Rest(u)
  PROVE  Accounted'
<1> DEFINE R == {t} \X (a + 1 .. b)
<1>0. line[t].len \in Nat /\ line[t].len <= Size /\ Size \in Nat
  BY LogFacts
<1>1. Missing' \in SUBSET (Threads \X (1..Size))
  BY DEF Missing
<1>2. Missing' \cap R = {}
  <2>1. \A x \in R : x[1] = t /\ x[2] \in a + 1 .. b
    OBVIOUS
  <2>2. \A x \in Missing' : x[1] = t => x[2] \in b + 1 .. line[t].len
    BY DEF Missing
  <2>3. (a + 1 .. b) \cap (b + 1 .. line[t].len) = {}
    BY <1>0
  <2> HIDE DEF R
  <2> QED
    BY <2>1, <2>2, <2>3
<1>3. Missing = Missing' \cup R
  <2>1. \A i : i \in a + 1 .. line[t].len <=> i \in b + 1 .. line[t].len \/ i \in a + 1 .. b
    BY <1>0
  <2>2. \A i \in a + 1 .. b : i \in 1..Size
    BY <1>0
  <2>3. \A x \in R : x \in Threads \X (1..Size) /\ x[1] = t /\ x[2] \in a + 1 .. b
    BY <2>2
  <2>4. \A x \in Missing : x \in Missing' \cup R
    BY <2>1 DEF Missing
  <2>5. \A x \in Missing' \cup R : x \in Missing
    BY <2>1, <2>3 DEF Missing
  <2> QED
    BY <2>4, <2>5
<1>4. Cardinality(Missing') \in Nat /\ Cardinality(Missing) = Cardinality(Missing') + (b - a)
  BY <1>1, <1>2, <1>3, PieceSize
<1>5. Len(out') + head' + Cardinality(Missing') = Len(Text(logged'))
  <2>1. /\ Len(out) \in Nat /\ head \in Nat /\ Len(Text(logged)) \in Nat
        /\ Len(out) + head + Cardinality(Missing) = Len(Text(logged))
    BY LogFacts
  <2>2. Len(out) + head + Cardinality(Missing') + (b - a) = Len(Text(logged))
    BY <1>4, <2>1
  <2>3. Len(out) + (head + (b - a)) + Cardinality(Missing') = Len(Text(logged))
    BY <1>4, <2>1, <2>2
  <2> QED
    BY <2>3
<1> QED
  BY <1>5 DEF TextInv, Accounted

\* What a flush takes from the buffer it adds to the file.
LEMMA WriteBytesMoves ==
  ASSUME TypeOK, NEW n \in 0..head, NEW cut \in BOOLEAN, WriteBytes(n, cut)
  PROVE  /\ Len(out') + head' = Len(out) + head /\ head' = head - n
         /\ short' = (short \/ cut)
         /\ ~short' => /\ Len(out') = Len(out) + n
                       /\ \A i \in 1..Len(out) : out'[i] = out[i]
                       /\ \A j \in 1..n : out'[Len(out) + j] = buf[j - 1]
<1>0. /\ Size \in Nat /\ head \in 0..Size /\ out \in Seq(Bytes) /\ Len(out) \in Nat /\ n \in Nat
      /\ buf \in [0..Size-1 -> Bytes] /\ NoByte \in Bytes /\ n <= head
  BY SizeAssumption DEF TypeOK, NoByte, Bytes
<1>1. head' = head - n /\ short' = (short \/ cut)
  BY DEF WriteBytes
<1>2. CASE short'
  <2>1. out' = [i \in 1..(Len(out) + n) |-> NoByte]
    BY <1>2 DEF WriteBytes
  <2>2. Len(out') = Len(out) + n
    BY <1>0, <2>1
  <2> QED
    BY <1>0, <1>1, <1>2, <2>2
<1>3. CASE ~short'
  <2> DEFINE b == Buffered(n)
  <2>1. out' = out \o b
    BY <1>3 DEF WriteBytes
  <2>2. b \in Seq(Bytes) /\ Len(b) = n /\ \A j \in 1..n : b[j] = buf[j - 1]
    <3>1. \A j \in 1..n : buf[j - 1] \in Bytes
      BY <1>0
    <3> QED
      BY <1>0, <3>1 DEF Buffered
  <2> HIDE DEF b
  <2>3. /\ Len(out') = Len(out) + n
        /\ \A i \in 1..Len(out) : out'[i] = out[i]
        /\ \A j \in 1..n : out'[Len(out) + j] = b[j]
    <3>1. /\ Len(out \o b) = Len(out) + Len(b)
          /\ \A i \in 1..(Len(out) + Len(b)) :
               (out \o b)[i] = IF i <= Len(out) THEN out[i] ELSE b[i - Len(out)]
      BY <1>0, <2>2, ConcatProperties
    <3>2. /\ \A i \in 1..Len(out) : i \in 1..(Len(out) + n) /\ i <= Len(out)
          /\ \A j \in 1..n : /\ Len(out) + j \in 1..(Len(out) + n)
                             /\ ~(Len(out) + j <= Len(out)) /\ (Len(out) + j) - Len(out) = j
      BY <1>0
    <3> QED
      BY <2>1, <2>2, <3>1, <3>2
  <2>4. Len(out') + head' = Len(out) + head
    BY <1>0, <1>1, <2>3
  <2> QED
    BY <1>1, <2>2, <2>3, <2>4
<1> QED
  BY <1>1, <1>2, <1>3

\* The steps of log_buf.
LEMMA LogBufAccounts == ASSUME TextInv, NEW t \in Threads, log_buf(t) PROVE Accounted'
<1>0. /\ pc \in [Threads -> PCs] /\ TypeOK
      /\ \A u \in Threads : done[u] \in Nat /\ line[u].len \in Nat /\ done[u] <= line[u].len
      /\ done \in [Threads -> 0..Size]
      /\ Len(out) \in Nat /\ head \in Nat
  BY LogFacts DEF TextInv, LogInv
<1>1. CASE \/ LockMutex(t) \/ ReadLock(t) \/ FastReturn(t) \/ TooLittle(t) \/ BufferFull(t)
           \/ FillEnd(t) \/ SlowReturn(t) \/ WriteLock(t)
  <2>1. UNCHANGED <<head, out, line, done, logged>>
    BY <1>1 DEF LockMutex, ReadLock, FastReturn, TooLittle, BufferFull, LeaveFull, FillEnd,
                SlowReturn, WriteLock, LockForWriting
  <2>2. \A u \in Threads \ {t} : pc'[u] = pc[u]
    BY <1>0, <1>1 DEF LockMutex, ReadLock, FastReturn, TooLittle, BufferFull, LeaveFull, FillEnd,
                      SlowReturn, WriteLock, LockForWriting, Goto
  <2>3. (pc'[t] \in Pending) = (pc[t] \in Pending) \/ done[t] = line[t].len
    BY <1>0, <1>1 DEF LockMutex, ReadLock, FastReturn, TooLittle, BufferFull, LeaveFull, FillEnd,
                      SlowReturn, WriteLock, LockForWriting, Goto, Pending
  <2>4. done[t] = line[t].len => done[t] + 1 .. line[t].len = {}
    BY <1>0
  <2>5. \A u \in Threads : Rest(u)' = Rest(u)
    BY <2>1, <2>2, <2>3, <2>4 DEF Rest
  <2> QED
    BY <2>1, <2>5, AccountKept
<1>2. CASE CopyByte(t)
  <2>1. UNCHANGED <<head, out, line, logged>> /\ pc[t] = "copy" /\ pc'[t] \in {"copy", "rdunlock"}
    BY <1>0, <1>2 DEF CopyByte, Goto
  <2>2. \A u \in Threads \ {t} : pc'[u] = pc[u] /\ done'[u] = done[u]
    BY <1>0, <1>2 DEF CopyByte, Goto
  <2>3. \A u \in Threads : Rest(u)' = Rest(u)
    BY <2>1, <2>2 DEF Rest, Pending
  <2> QED
    BY <2>1, <2>3, AccountKept
<1>3. CASE Reserve(t)
  <2>1. /\ UNCHANGED <<out, line, done, logged>> /\ head' = head + line[t].len
        /\ pc[t] = "reserve" /\ pc'[t] = "copy" /\ \A u \in Threads \ {t} : pc'[u] = pc[u]
    BY <1>0, <1>3 DEF Reserve, ReserveRoom, Goto
  <2>2. done[t] = 0
    BY <2>1 DEF TextInv, LogInv, LineState
  <2>3. Rest(t) = 0 + 1 .. line[t].len /\ Rest(t)' = line[t].len + 1 .. line[t].len
    <3>1. line[t].len + 1 .. line[t].len = {}
      BY <1>0
    <3> QED
      BY <2>1, <2>2, <3>1 DEF Rest, Pending
  <2>4. \A u \in Threads \ {t} : Rest(u)' = Rest(u)
    BY <2>1 DEF Rest
  <2>5. head' = head + (line[t].len - 0) /\ 0 <= line[t].len /\ line[t].len <= line[t].len
    BY <1>0, <2>1
  <2> QED
    BY <1>0, <2>1, <2>3, <2>4, <2>5, AccountRoom
<1>4. CASE FillByte(t)
  <2>1. /\ UNCHANGED <<out, line, logged>> /\ head' = head + 1 /\ done[t] < line[t].len
        /\ pc[t] = "fill" /\ pc' = [pc EXCEPT ![t] = "fill"]
        /\ done' = [done EXCEPT ![t] = @ + 1]
    BY <1>4 DEF FillByte, AppendByte, Goto
  <2>2. pc'[t] = "fill" /\ done'[t] = done[t] + 1
    BY <1>0, <2>1
  <2>3. \A u \in Threads \ {t} : Rest(u)' = Rest(u)
    BY <1>0, <2>1 DEF Rest
  <2>4. Rest(t) = done[t] + 1 .. line[t].len /\ Rest(t)' = (done[t] + 1) + 1 .. line[t].len
    BY <2>1, <2>2 DEF Rest, Pending
  <2>5. /\ head' = head + ((done[t] + 1) - done[t]) /\ done[t] + 1 \in Nat
        /\ done[t] <= done[t] + 1 /\ done[t] + 1 <= line[t].len
    BY <1>0, <2>1
  <2> QED
    BY <1>0, <2>1, <2>3, <2>4, <2>5, AccountRoom
<1>5. CASE Write(t)
  <2>1. /\ UNCHANGED <<line, done, logged>> /\ pc[t] \in {"flush", "lastflush"}
        /\ \E n \in 0..head : WriteBytes(n, n # head)
        /\ pc' = pc \/ pc' = [pc EXCEPT ![t] = IF pc[t] = "flush" THEN "rdagain" ELSE "unlock"]
    BY <1>5 DEF Write, FlushReturn
  <2>2. PICK n \in 0..head : WriteBytes(n, n # head)
    BY <2>1
  <2>3. Len(out') + head' = Len(out) + head
    <3>1. (n # head) \in BOOLEAN
      OBVIOUS
    <3> QED
      BY <1>0, <2>2, <3>1, WriteBytesMoves
  <2>4. /\ \A u \in Threads \ {t} : pc'[u] = pc[u]
        /\ pc'[t] \in Pending <=> pc[t] \in Pending
    BY <1>0, <2>1 DEF Pending
  <2>5. \A u \in Threads : Rest(u)' = Rest(u)
    BY <2>1, <2>4 DEF Rest
  <2> QED
    BY <2>1, <2>3, <2>5, AccountKept
<1> QED
  BY <1>1, <1>2, <1>3, <1>4, <1>5 DEF log_buf

\* A call of log_buf: the line it brings is missing at first.
LEMMA CallAdds ==
  ASSUME TextInv, NEW t \in Threads, Call(t)
  PROVE  /\ pc[t] = "idle" /\ pc' = [pc EXCEPT ![t] = "mutex"]
         /\ UNCHANGED <<head, buf, out, short>>
         /\ overlap' = (overlap \/ \E u \in Threads : pc[u] # "idle")
         /\ line'[t] \in Lines /\ line'[t].len \in Nat /\ line'[t].len <= Size /\ done'[t] = 0
         /\ \A u \in Threads \ {t} : line'[u] = line[u] /\ done'[u] = done[u]
         /\ Text(logged') = Text(logged) \o LineText(line'[t])
         /\ Text(logged') \in Seq(Bytes)
         /\ Len(Text(logged')) = Len(Text(logged)) + line'[t].len
<1>0. /\ Size \in Nat /\ logged \in Seq(Lines) /\ Text(logged) \in Seq(Bytes)
      /\ line \in [Threads -> Lines] /\ done \in [Threads -> 0..Size]
  BY LogFacts
<1>1. PICK n \in Lens :
        LET l == [call |-> Len(logged) + 1, len |-> n]
        IN line' = [line EXCEPT ![t] = l] /\ logged' = Append(logged, l)
  BY DEF Call
<1> DEFINE l == [call |-> Len(logged) + 1, len |-> n]
<1>2. l \in Lines /\ l.len \in Nat /\ l.len <= Size
  <2>1. Len(logged) \in Nat /\ Len(logged) < MaxCalls /\ MaxCalls \in Nat
    BY <1>0, SizeAssumption DEF Call
  <2>2. n \in 0..Size
    BY <1>0, LensAssumption
  <2>3. Len(logged) + 1 \in 0..MaxCalls
    BY <2>1
  <2> QED
    BY <1>0, <2>2, <2>3 DEF Lines
<1>3. line' = [line EXCEPT ![t] = l] /\ logged' = Append(logged, l)
  BY <1>1
<1> HIDE DEF l
<1>4. line'[t] = l /\ \A u \in Threads \ {t} : line'[u] = line[u]
  BY <1>0, <1>3
<1>5. Text(logged') = Text(logged) \o LineText(l)
  BY <1>0, <1>2, <1>3, TextAppend
<1>6. LineText(l) \in Seq(Bytes) /\ Len(LineText(l)) = l.len
  BY <1>2, LineTextFacts
<1>7. Text(logged') \in Seq(Bytes) /\ Len(Text(logged')) = Len(Text(logged)) + l.len
  BY <1>0, <1>5, <1>6, ConcatProperties
<1>8. done'[t] = 0 /\ \A u \in Threads \ {t} : done'[u] = done[u]
  BY <1>0 DEF Call
<1> QED
  BY <1>2, <1>4, <1>5, <1>7, <1>8 DEF Call, Goto

\* So it is accounted for.
LEMMA CallAccounts == ASSUME TextInv, NEW t \in Threads, Call(t) PROVE Accounted'
<1> DEFINE n == line'[t].len
           R == {t} \X (0 + 1 .. n)
<1>0. n \in Nat /\ n <= Size /\ 0 <= n /\ Size \in Nat /\ pc \in [Threads -> PCs]
  BY CallAdds, LogFacts
<1>1. Rest(t) = {} /\ Rest(t)' = 0 + 1 .. n
  BY <1>0, CallAdds DEF Rest, Pending
<1>2. \A u \in Threads \ {t} : Rest(u)' = Rest(u)
  BY <1>0, CallAdds DEF Rest
<1> HIDE DEF n
<1>3. Missing \cap R = {}
  BY <1>1 DEF Missing
<1>4. Missing' = Missing \cup R
  <2>1. \A x \in R : x \in Threads \X (1..Size) /\ x[1] = t /\ x[2] \in 0 + 1 .. n
    BY <1>0
  <2>2. \A x \in Missing' : x \in Missing \cup R
    BY <1>1, <1>2 DEF Missing
  <2>3. \A x \in Missing \cup R : x \in Missing'
    BY <1>1, <1>2, <2>1 DEF Missing
  <2> QED
    BY <2>2, <2>3
<1>5. Cardinality(Missing) \in Nat /\ Cardinality(Missing') = Cardinality(Missing) + (n - 0)
  <2>1. Missing \in SUBSET (Threads \X (1..Size)) /\ 0 \in Nat
    BY DEF Missing
  <2>2. /\ Cardinality(Missing) \in Nat
        /\ Cardinality(Missing \cup ({t} \X (0 + 1 .. n))) = Cardinality(Missing) + (n - 0)
    BY <1>0, <1>3, <2>1, PieceSize
  <2> QED
    BY <1>4, <2>2
<1>6. /\ Len(out') = Len(out) /\ head' = head /\ Len(Text(logged')) = Len(Text(logged)) + n
      /\ Text(logged') \in Seq(Bytes)
  BY CallAdds DEF n
<1>7. /\ Len(out) \in Nat /\ head \in Nat /\ Len(Text(logged)) \in Nat
      /\ Len(out) + head + Cardinality(Missing) = Len(Text(logged))
  BY LogFacts
<1>8. Len(out) + head + Cardinality(Missing') = Len(Text(logged)) + n
  BY <1>0, <1>5, <1>7
<1> QED
  BY <1>6, <1>8 DEF Accounted

\* destroy_log.
LEMMA DestroyAccounts == ASSUME TextInv, destroy_log PROVE Accounted'
<1>1. /\ \A t \in Threads : pc[t] = "idle"
      /\ pc' = [t \in Threads |-> "closed"]
      /\ UNCHANGED logged
  BY DEF destroy_log
<1>2. PICK n \in 0..head, cut \in BOOLEAN : WriteBytes(n, cut)
  BY DEF destroy_log
<1>3. Len(out') + head' = Len(out) + head
  BY <1>2, WriteBytesMoves DEF TextInv, LogInv
<1>4. \A u \in Threads : Rest(u)' = Rest(u)
  BY <1>1 DEF Rest, Pending
<1> QED
  BY <1>1, <1>3, <1>4, AccountKept

-----------------------------------------------------------------------------
(***************************************************************************)
(* Lines arrive intact and in order as long as calls do not overlap.       *)
(***************************************************************************)

\* A step inside log_buf, or of destroy_log, that stores the right bytes.
LEMMA OrderKept ==
  ASSUME TextInv, UNCHANGED <<line, logged, overlap>>, short => short', Active' \subseteq Active,
         ~overlap /\ ~short' => Stored'
  PROVE  InOrder'
<1>1. \A t \in Threads : LineIsLast(t) => LineIsLast(t)'
  BY DEF LineIsLast
<1>2. Active \subseteq Threads
  BY DEF Active
<1> QED
  BY <1>1, <1>2 DEF TextInv, InOrder

\* The one call that runs is alone with its missing bytes.
LEMMA AloneMissing ==
  ASSUME TextInv, ~overlap, NEW t \in Active
  PROVE  /\ LineIsLast(t) /\ \A u \in Threads \ {t} : pc[u] \in {"idle", "closed"}
         /\ Rest(t) = {} => Len(out) + head = Len(Text(logged))
         /\ Rest(t) = done[t] + 1 .. line[t].len =>
              Len(out) + head + (line[t].len - done[t]) = Len(Text(logged))
<1>0. t \in Threads
  BY DEF Active
<1>1. LineIsLast(t) /\ \A u \in Threads \ {t} : pc[u] \in {"idle", "closed"}
  BY DEF TextInv, InOrder, Active
<1>2. \A u \in Threads \ {t} : Rest(u) = {}
  BY <1>1 DEF Rest, Pending
<1>3. /\ Len(out) \in Nat /\ head \in Nat /\ Len(Text(logged)) \in Nat /\ Size \in Nat
      /\ done[t] \in Nat /\ line[t].len \in Nat /\ done[t] <= line[t].len /\ line[t].len <= Size
      /\ Len(out) + head + Cardinality(Missing) = Len(Text(logged))
  BY <1>0, LogFacts
<1>4. ASSUME Rest(t) = {} PROVE Len(out) + head = Len(Text(logged))
  <2>1. Missing = {}
    BY <1>2, <1>4 DEF Missing
  <2>2. Cardinality(Missing) = 0
    BY <2>1, FS_EmptySet
  <2> QED
    BY <1>3, <2>2
<1>5. ASSUME Rest(t) = done[t] + 1 .. line[t].len
      PROVE  Len(out) + head + (line[t].len - done[t]) = Len(Text(logged))
  <2> DEFINE R == {t} \X (done[t] + 1 .. line[t].len)
  <2>1. Missing = {} \cup R
    <3>1. \A x \in R : x \in Threads \X (1..Size) /\ x[1] = t /\ x[2] \in done[t] + 1 .. line[t].len
      BY <1>0, <1>3
    <3>2. \A x \in Missing : x \in R
      BY <1>2, <1>5 DEF Missing
    <3>3. \A x \in R : x \in Missing
      BY <1>5, <3>1 DEF Missing
    <3> QED
      BY <3>2, <3>3
  <2>2. {} \in SUBSET (Threads \X (1..Size)) /\ {} \cap R = {}
    OBVIOUS
  <2>3. Cardinality({} \cup R) = Cardinality({}) + (line[t].len - done[t])
    <3> DEFINE a == done[t]
               b == line[t].len
    <3>1. a \in Nat /\ b \in Nat /\ a <= b /\ R = {t} \X (a + 1 .. b)
      BY <1>3
    <3> HIDE DEF a, b, R
    <3>2. Cardinality({} \cup ({t} \X (a + 1 .. b))) = Cardinality({}) + (b - a)
      BY <1>0, <2>2, <3>1, PieceSize
    <3> QED
      BY <3>1, <3>2 DEF a, b
  <2>4. Cardinality({}) = 0
    BY FS_EmptySet
  <2> HIDE DEF R
  <2>5. Cardinality(Missing) = line[t].len - done[t]
    BY <1>3, <2>1, <2>3, <2>4
  <2> QED
    BY <1>3, <2>5
<1> QED
  BY <1>1, <1>4, <1>5

\* Steps that move no byte.
LEMMA QuietOrder ==
  ASSUME TextInv, NEW t \in Threads,
         \/ LockMutex(t) \/ ReadLock(t) \/ FastReturn(t) \/ TooLittle(t) \/ BufferFull(t)
         \/ FillEnd(t) \/ SlowReturn(t) \/ WriteLock(t)
  PROVE  InOrder'
<1>0. pc \in [Threads -> PCs]
  BY LogFacts
<1>1. UNCHANGED <<head, buf, out, line, done, logged, overlap, short>>
  BY DEF LockMutex, ReadLock, FastReturn, TooLittle, BufferFull, LeaveFull, FillEnd, SlowReturn,
         WriteLock, LockForWriting
<1>2. /\ \A u \in Threads \ {t} : pc'[u] = pc[u]
      /\ pc[t] # "copy" /\ pc'[t] # "copy" /\ pc[t] \notin {"idle", "closed"}
  BY <1>0 DEF LockMutex, ReadLock, FastReturn, TooLittle, BufferFull, LeaveFull, FillEnd,
              SlowReturn, WriteLock, LockForWriting, Goto
<1>3. Active' \subseteq Active
  BY <1>2 DEF Active
<1>4. \A u \in Threads : (pc'[u] = "copy") = (pc[u] = "copy")
  BY <1>2
<1>5. Stored => Stored'
  <2>1. \A j : Copied(j)' => Copied(j)
    BY <1>1, <1>4 DEF Copied, CopyTarget
  <2> QED
    BY <1>1, <2>1 DEF Stored
<1> QED
  BY <1>1, <1>3, <1>5, OrderKept DEF TextInv, InOrder

\* Room is reserved at the end: nothing of it counts as copied yet.
LEMMA ReserveOrder == ASSUME TextInv, NEW t \in Threads, Reserve(t) PROVE InOrder'
<1>0. /\ pc \in [Threads -> PCs] /\ head \in Nat /\ line[t].len \in Nat /\ done[t] \in Nat
  BY LogFacts
<1>1. /\ UNCHANGED <<buf, out, line, done, logged, overlap, short>> /\ head' = head + line[t].len
      /\ pc[t] = "reserve" /\ pc'[t] = "copy" /\ \A u \in Threads \ {t} : pc'[u] = pc[u]
  BY <1>0 DEF Reserve, ReserveRoom, Goto
<1>2. Active' \subseteq Active
  BY <1>1 DEF Active
<1>3. ASSUME ~overlap, Stored PROVE Stored'
  <2>1. \A u \in Threads \ {t} : pc[u] # "copy"
    <3>1. t \in Active
      BY <1>1 DEF Active
    <3> QED
      BY <1>3, <3>1, AloneMissing
  <2>2. \A j : Copied(j)
    BY <1>1, <2>1 DEF Copied
  <2>3. done[t] = 0
    BY <1>1 DEF TextInv, LogInv, LineState
  <2>4. CopyTarget(t)' = head
    BY <1>0, <1>1, <2>3 DEF CopyTarget
  <2>5. \A j \in 1..head' : Copied(j)' => j \in 1..head
    <3> SUFFICES ASSUME NEW j \in 1..head', Copied(j)' PROVE j \in 1..head
      OBVIOUS
    <3>1. j <= head
      BY <1>1, <2>4 DEF Copied
    <3> QED
      BY <1>0, <1>1, <3>1
  <2> QED
    BY <1>1, <1>3, <2>2, <2>5 DEF Stored
<1> QED
  BY <1>1, <1>2, <1>3, OrderKept DEF TextInv, InOrder

\* The copy loop stores the next byte of the line where the text has it.
LEMMA CopyOrder == ASSUME TextInv, NEW t \in Threads, CopyByte(t) PROVE InOrder'
<1> DEFINE k == line[t].len - done[t]
           T == Text(logged)
<1>0. /\ pc \in [Threads -> PCs] /\ head \in Nat /\ head <= Size /\ Size \in Nat
      /\ line[t].len \in Nat /\ done[t] \in Nat /\ Len(out) \in Nat /\ Len(T) \in Nat
      /\ done \in [Threads -> 0..Size] /\ buf \in [0..Size-1 -> Bytes]
  BY LogFacts
<1>1. /\ UNCHANGED <<head, out, line, logged, overlap, short>> /\ pc[t] = "copy"
      /\ pc'[t] = IF done[t] + 1 = line[t].len THEN "rdunlock" ELSE "copy"
      /\ done'[t] = done[t] + 1 /\ done[t] < line[t].len
      /\ buf' = [buf EXCEPT ![head - k] = <<line[t].call, done[t] + 1>>]
      /\ \A u \in Threads \ {t} : pc'[u] = pc[u]
  BY <1>0 DEF CopyByte, Goto, CopyTarget, NextByte
<1>2. Active' \subseteq Active /\ t \in Active
  BY <1>1 DEF Active
<1>3. k \in Nat /\ k >= 1 /\ k <= head
  BY <1>0, <1>1 DEF TextInv, LogInv, LineState
<1>4. ASSUME ~overlap, Stored PROVE Stored'
  <2>1. /\ \A u \in Threads \ {t} : pc[u] # "copy"
        /\ Len(out) + head = Len(T) /\ LineIsLast(t)
    <3>1. Rest(t) = {}
      BY <1>1 DEF Rest, Pending
    <3> QED
      BY <1>2, <1>4, <3>1, AloneMissing
  <2>2. T[Len(T) - line[t].len + (done[t] + 1)] = <<line[t].call, done[t] + 1>>
    <3>1. done[t] + 1 \in 1..line[t].len
      BY <1>0, <1>1
    <3> QED
      BY <2>1, <3>1 DEF LineIsLast
  <2>3. Len(T) - line[t].len + (done[t] + 1) = Len(out) + (head - k + 1)
    <3> DEFINE l == line[t].len
               d == done[t]
    <3>1. /\ l \in Nat /\ d \in Nat /\ head \in Nat /\ Len(out) \in Nat /\ Len(T) \in Nat
          /\ Len(out) + head = Len(T) /\ k = l - d
      BY <1>0, <2>1
    <3> HIDE DEF T, k, l, d
    <3>2. Len(T) - l + (d + 1) = Len(out) + (head - k + 1)
      BY <3>1
    <3> QED
      BY <3>2 DEF l, d
  <2> HIDE DEF k, T
  <2>4. T[Len(out) + (head - k + 1)] = <<line[t].call, done[t] + 1>>
    BY <2>2, <2>3
  <2>5. \A j \in 1..head : Copied(j)' => j <= head - k + 1
    <3> SUFFICES ASSUME NEW j \in 1..head, Copied(j)' PROVE j <= head - k + 1
      OBVIOUS
    <3>1. CASE pc'[t] = "copy"
      <4>1. j <= CopyTarget(t)'
        BY <3>1 DEF Copied
      <4>2. CopyTarget(t)' = head - k + 1
        <5>1. CopyTarget(t)' = head - (line[t].len - (done[t] + 1))
          BY <1>1 DEF CopyTarget
        <5> DEFINE l == line[t].len
                   d == done[t]
        <5>2. l \in Nat /\ d \in Nat /\ head \in Nat /\ k = l - d
          BY <1>0 DEF k
        <5> HIDE DEF l, d
        <5>3. head - (l - (d + 1)) = head - k + 1
          BY <5>2
        <5> QED
          BY <5>1, <5>3 DEF l, d
      <4> QED
        BY <4>1, <4>2
    <3>2. CASE pc'[t] # "copy"
      <4>1. k = 1
        BY <1>0, <1>1, <3>2 DEF k
      <4> QED
        BY <1>0, <4>1
    <3> QED
      BY <3>1, <3>2
  <2>6. \A j \in 1..head : j <= head - k => Copied(j)
    BY <1>0, <1>1, <2>1 DEF Copied, CopyTarget, k
  <2>7. ASSUME NEW j \in 1..head, j <= head - k + 1 PROVE buf'[j - 1] = T[Len(out) + j]
    <3>1. j - 1 \in 0..Size-1
      BY <1>0
    <3>2. CASE j = head - k + 1
      <4>1. j - 1 = head - k
        BY <1>0, <1>3, <3>2
      <4> QED
        BY <1>0, <1>1, <2>4, <3>1, <3>2, <4>1
    <3>3. CASE j # head - k + 1
      <4>1. j <= head - k /\ j - 1 # head - k
        BY <1>0, <1>3, <2>7, <3>3
      <4>2. buf[j - 1] = T[Len(out) + j]
        BY <1>4, <2>6, <4>1 DEF Stored, T
      <4> QED
        BY <1>0, <1>1, <3>1, <4>1, <4>2
    <3> QED
      BY <3>2, <3>3
  <2>8. \A j \in 1..head' : Copied(j)' => buf'[j - 1] = Text(logged')[Len(out') + j]
    BY <1>1, <2>5, <2>7 DEF T
  <2> QED
    BY <1>1, <1>4, <2>8 DEF Stored
<1> QED
  BY <1>1, <1>2, <1>4, OrderKept DEF TextInv, InOrder

\* So does the loop that fills the buffer.
LEMMA FillOrder == ASSUME TextInv, NEW t \in Threads, FillByte(t) PROVE InOrder'
<1> DEFINE l == line[t].len
           d == done[t]
           T == Text(logged)
<1>0. /\ pc \in [Threads -> PCs] /\ head \in Nat /\ head <= Size /\ Size \in Nat
      /\ l \in Nat /\ d \in Nat /\ Len(out) \in Nat /\ Len(T) \in Nat
      /\ buf \in [0..Size-1 -> Bytes]
  BY LogFacts
<1>1. /\ UNCHANGED <<out, line, logged, overlap, short>> /\ head # Size /\ head' = head + 1
      /\ d < l /\ pc[t] = "fill" /\ pc' = [pc EXCEPT ![t] = "fill"]
      /\ buf' = [buf EXCEPT ![head] = <<line[t].call, d + 1>>]
  BY DEF FillByte, AppendByte, Goto, NextByte
<1>2. pc' = pc /\ Active' = Active /\ t \in Active
  BY <1>0, <1>1 DEF Active
<1>3. ASSUME ~overlap, Stored PROVE Stored'
  <2>1. /\ \A u \in Threads \ {t} : pc[u] # "copy"
        /\ Len(out) + head + (l - d) = Len(T) /\ LineIsLast(t)
    <3>1. Rest(t) = done[t] + 1 .. line[t].len
      BY <1>1 DEF Rest, Pending
    <3> QED
      BY <1>2, <1>3, <3>1, AloneMissing
  <2>2. T[Len(T) - l + (d + 1)] = <<line[t].call, d + 1>>
    <3>1. d + 1 \in 1..l
      BY <1>0, <1>1
    <3> QED
      BY <2>1, <3>1 DEF LineIsLast
  <2>3. \A j : Copied(j)
    BY <1>1, <2>1 DEF Copied
  <2> HIDE DEF l, d, T
  <2>4. T[Len(out) + (head + 1)] = <<line[t].call, d + 1>>
    <3>1. Len(T) - l + (d + 1) = Len(out) + (head + 1)
      BY <1>0, <2>1
    <3> QED
      BY <2>2, <3>1
  <2>5. ASSUME NEW j \in 1..(head + 1) PROVE buf'[j - 1] = T[Len(out) + j]
    <3>1. j - 1 \in 0..Size-1
      BY <1>0, <1>1
    <3>2. CASE j = head + 1
      <4>1. j - 1 = head
        BY <1>0, <3>2
      <4> QED
        BY <1>0, <1>1, <2>4, <3>1, <3>2, <4>1
    <3>3. CASE j # head + 1
      <4>1. j \in 1..head /\ j - 1 # head
        BY <1>0, <3>3
      <4>2. buf[j - 1] = T[Len(out) + j]
        BY <1>3, <2>3, <4>1 DEF Stored, T
      <4> QED
        BY <1>0, <1>1, <3>1, <4>1, <4>2
    <3> QED
      BY <3>2, <3>3
  <2> QED
    BY <1>1, <1>3, <2>5 DEF Stored, T
<1> QED
  BY <1>1, <1>2, <1>3, OrderKept DEF TextInv, InOrder

\* A flush that writes all moves the text from the buffer to the file.
LEMMA FlushOrder ==
  ASSUME TextInv, NEW n \in 0..head, NEW cut \in BOOLEAN, n # head => cut, WriteBytes(n, cut),
         UNCHANGED <<buf, line, logged, overlap>>, Active' \subseteq Active,
         \A u \in Threads : pc[u] # "copy"
  PROVE  InOrder'
<1>0. TypeOK /\ head \in Nat /\ Len(out) \in Nat
  BY LogFacts DEF TextInv, LogInv
<1>1. /\ short' = (short \/ cut) /\ head' = head - n
      /\ ~short' => /\ Len(out') = Len(out) + n
                    /\ \A i \in 1..Len(out) : out'[i] = out[i]
                    /\ \A j \in 1..n : out'[Len(out) + j] = buf[j - 1]
  BY <1>0, WriteBytesMoves
<1>2. ASSUME ~short', Stored PROVE Stored'
  <2>1. n = head /\ head' = 0
    BY <1>0, <1>1, <1>2
  <2>2. \A j \in 1..head : buf[j - 1] = Text(logged)[Len(out) + j]
    BY <1>2 DEF Stored, Copied
  <2>3. ASSUME NEW i \in 1..Len(out') PROVE out'[i] = Text(logged)[i]
    <3>1. i \in 1..(Len(out) + head)
      BY <1>1, <1>2, <2>1
    <3>2. CASE i <= Len(out)
      <4>1. i \in 1..Len(out)
        BY <1>0, <3>1, <3>2
      <4> QED
        BY <1>1, <1>2, <4>1 DEF Stored
    <3>3. CASE ~(i <= Len(out))
      <4> DEFINE j == i - Len(out)
      <4>1. j \in 1..head /\ Len(out) + j = i
        BY <1>0, <3>1, <3>3
      <4> HIDE DEF j
      <4>2. out'[Len(out) + j] = buf[j - 1]
        BY <1>1, <1>2, <2>1, <4>1
      <4> QED
        BY <2>2, <4>1, <4>2
    <3> QED
      BY <3>2, <3>3
  <2>4. 1..head' = {}
    BY <2>1
  <2> QED
    BY <2>3, <2>4 DEF Stored
<1>3. short => short'
  BY <1>1
<1> QED
  BY <1>1, <1>2, <1>3, OrderKept DEF TextInv, InOrder

\* In log_buf flush_lock keeps copies away.
LEMMA WriteOrder == ASSUME TextInv, NEW t \in Threads, Write(t) PROVE InOrder'
<1>1. /\ UNCHANGED <<buf, line, logged, overlap>> /\ pc[t] \in Flushing
      /\ pc' = pc \/ pc' = [pc EXCEPT ![t] = IF pc[t] = "flush" THEN "rdagain" ELSE "unlock"]
  BY DEF Write, FlushReturn, Flushing
<1>2. PICK n \in 0..head : WriteBytes(n, n # head)
  BY DEF Write
<1>3. (n # head) \in BOOLEAN
  OBVIOUS
<1>4. pc \in [Threads -> PCs]
  BY LogFacts
<1>5. \A u \in Threads : pc[u] # "copy"
  <2>1. readers = {}
    <3>1. writer = t /\ t # NoThread
      BY <1>1, ThreadsAssumption DEF TextInv, LogInv, LockState
    <3> QED
      BY <3>1 DEF TextInv, LogInv, LockState
  <2> QED
    BY <2>1 DEF TextInv, LogInv, LockState, Sharing
<1>6. Active' \subseteq Active
  <2>1. \A u \in Threads \ {t} : pc'[u] = pc[u]
    BY <1>1, <1>4
  <2>2. t \in Active
    BY <1>1 DEF Active, Flushing
  <2> QED
    BY <2>1, <2>2 DEF Active
<1> QED
  BY <1>1, <1>2, <1>3, <1>5, <1>6, FlushOrder

\* In destroy_log nobody is left.
LEMMA DestroyOrder == ASSUME TextInv, destroy_log PROVE InOrder'
<1>1. /\ \A t \in Threads : pc[t] = "idle"
      /\ pc' = [t \in Threads |-> "closed"]
      /\ UNCHANGED <<buf, line, logged, overlap>>
  BY DEF destroy_log
<1>2. PICK n \in 0..head, cut \in BOOLEAN : (n # head => cut) /\ WriteBytes(n, cut)
  BY DEF destroy_log
<1>3. Active' \subseteq Active /\ \A u \in Threads : pc[u] # "copy"
  BY <1>1 DEF Active
<1> QED
  BY <1>1, <1>2, <1>3, FlushOrder

\* A call that finds nobody inside brings the last line of the text.
LEMMA CallOrder == ASSUME TextInv, NEW t \in Threads, Call(t) PROVE InOrder'
<1> DEFINE T == Text(logged)
           T2 == Text(logged')
           l == line'[t]
<1>0. /\ pc \in [Threads -> PCs] /\ T \in Seq(Bytes) /\ Len(T) \in Nat
      /\ Len(out) \in Nat /\ head \in Nat /\ Cardinality(Missing) \in Nat
      /\ Len(out) + head + Cardinality(Missing) = Len(T)
  BY LogFacts
<1>1. /\ pc' = [pc EXCEPT ![t] = "mutex"] /\ UNCHANGED <<head, buf, out, short>>
      /\ overlap' = (overlap \/ \E u \in Threads : pc[u] # "idle")
      /\ l \in Lines /\ l.len \in Nat
      /\ T2 = T \o LineText(l) /\ Len(T2) = Len(T) + l.len
  BY CallAdds
<1> SUFFICES ASSUME ~overlap'
             PROVE  /\ \A u, v \in Active' : u = v
                    /\ \A u \in Active' : LineIsLast(u)'
                    /\ ~short' => Stored'
  BY DEF InOrder
<1>2. ~overlap /\ \A u \in Threads : pc[u] = "idle"
  BY <1>1
<1>3. Active' = {t} /\ \A u \in Threads : pc[u] # "copy" /\ pc'[u] # "copy"
  BY <1>0, <1>1, <1>2 DEF Active
<1> HIDE DEF T, T2, l
<1>4. /\ LineText(l) \in Seq(Bytes) /\ Len(LineText(l)) = l.len
      /\ \A i \in 1..l.len : LineText(l)[i] = <<l.call, i>>
  BY <1>1, LineTextFacts
<1>5. /\ \A i \in 1..Len(T) : T2[i] = T[i]
      /\ \A i \in 1..l.len : T2[Len(T) + i] = <<l.call, i>>
  <2>1. \A i \in 1..(Len(T) + l.len) : T2[i] = IF i <= Len(T) THEN T[i] ELSE LineText(l)[i - Len(T)]
    BY <1>0, <1>1, <1>4, ConcatProperties
  <2>2. /\ \A i \in 1..Len(T) : i \in 1..(Len(T) + l.len) /\ i <= Len(T)
        /\ \A i \in 1..l.len : /\ Len(T) + i \in 1..(Len(T) + l.len) /\ ~(Len(T) + i <= Len(T))
                               /\ (Len(T) + i) - Len(T) = i
    BY <1>0, <1>1
  <2> QED
    BY <1>4, <2>1, <2>2
<1>6. LineIsLast(t)'
  <2>1. \A i \in 1..l.len : Len(T2) - l.len + i = Len(T) + i
    <3> DEFINE m == l.len
    <3>1. m \in Nat /\ Len(T) \in Nat /\ Len(T2) = Len(T) + m
      BY <1>0, <1>1
    <3> HIDE DEF m
    <3>2. \A i \in 1..m : Len(T2) - m + i = Len(T) + i
      BY <3>1
    <3> QED
      BY <3>2 DEF m
  <2>2. l.len <= Len(T2)
    BY <1>0, <1>1
  <2> QED
    BY <1>5, <2>1, <2>2 DEF LineIsLast, T2, l
<1>7. ASSUME Stored PROVE Stored'
  <2>1. \A i \in 1..Len(out) : i \in 1..Len(T)
    BY <1>0
  <2>2. \A j \in 1..head : Len(out) + j \in 1..Len(T)
    BY <1>0
  <2>3. \A i \in 1..Len(out) : out[i] = T2[i]
    BY <1>5, <1>7, <2>1 DEF Stored, T
  <2>4. \A j \in 1..head : buf[j - 1] = T2[Len(out) + j]
    BY <1>3, <1>5, <1>7, <2>2 DEF Stored, Copied, T
  <2> QED
    BY <1>1, <2>3, <2>4 DEF Stored, T2
<1> QED
  BY <1>1, <1>2, <1>3, <1>6, <1>7 DEF TextInv, InOrder

-----------------------------------------------------------------------------
(***************************************************************************)
(* The properties.                                                         *)
(***************************************************************************)

\* The invariant holds in every reachable state.
LEMMA TextInvHolds == Spec => []TextInv
<1>1. Init => TextInv
  <2> SUFFICES ASSUME Init PROVE TextInv
    OBVIOUS
  <2>1. Missing = {} /\ Active = {}
    BY DEF Init, Missing, Rest, Pending, Active
  <2>2. Cardinality(Missing) = 0
    BY <2>1, FS_EmptySet
  <2>3. Text(logged) = <<>> /\ Len(out) = 0 /\ head = 0
    BY TextEmpty DEF Init
  <2>4. Accounted
    BY <2>2, <2>3 DEF Accounted
  <2>5. InOrder
    BY <2>1, <2>3 DEF InOrder, Stored
  <2> QED
    BY <2>4, <2>5, InitLog DEF TextInv
<1>2. TextInv /\ LogInv' /\ [Next]_vars => TextInv'
  <2> SUFFICES ASSUME TextInv, LogInv', [Next]_vars PROVE Accounted' /\ InOrder'
    BY DEF TextInv
  <2>1. ASSUME NEW t \in Threads, Call(t) PROVE Accounted' /\ InOrder'
    BY <2>1, CallAccounts, CallOrder
  <2>2. ASSUME NEW t \in Threads, log_buf(t) PROVE Accounted' /\ InOrder'
    <3>1. InOrder'
      BY <2>2, QuietOrder, ReserveOrder, CopyOrder, FillOrder, WriteOrder DEF log_buf
    <3> QED
      BY <2>2, <3>1, LogBufAccounts
  <2>3. CASE destroy_log
    BY <2>3, DestroyAccounts, DestroyOrder
  <2>4. CASE UNCHANGED vars
    <3>1. /\ UNCHANGED <<head, buf, out, pc, line, done, logged, overlap, short>>
      BY <2>4 DEF vars
    <3>2. \A u \in Threads : Rest(u)' = Rest(u)
      BY <3>1 DEF Rest
    <3>3. Accounted'
      BY <3>1, <3>2, AccountKept
    <3>4. Active' = Active
      BY <3>1 DEF Active
    <3>5. Stored => Stored'
      BY <3>1 DEF Stored, Copied, CopyTarget
    <3>6. InOrder'
      BY <3>1, <3>4, <3>5, OrderKept DEF TextInv, InOrder
    <3> QED
      BY <3>3, <3>6
  <2> QED
    BY <2>1, <2>2, <2>3, <2>4 DEF Next
<1> QED
  BY <1>1, <1>2, LogInvHolds, PTL DEF Spec

\* File and buffer of the log hold as many bytes as log_buf was given,
\* whatever the interleaving and however often write is short or fails.
THEOREM LogLosesNoByte == Spec => []BytesAccounted
<1>1. TextInv => BytesAccounted
  <2> SUFFICES ASSUME TextInv, Quiet PROVE Len(out) + head = Len(Text(logged))
    BY DEF BytesAccounted
  <2>1. Cardinality(Missing) = 0
    BY NobodyMisses, FS_EmptySet
  <2>2. /\ Len(out) \in Nat /\ head \in Nat
        /\ Len(out) + head + Cardinality(Missing) = Len(Text(logged))
    BY LogFacts
  <2> QED
    BY <2>1, <2>2
<1> QED
  BY <1>1, TextInvHolds, PTL

\* Calls of log_buf that never overlap, and writes that are never short, leave
\* exactly the lines logged, in order and intact, in file and buffer.
THEOREM SequentialLogsAreExact == Spec => []SequentialLogExact
<1>1. TextInv => SequentialLogExact
  <2> DEFINE T == Text(logged)
             b == Buffered(head)
  <2> SUFFICES ASSUME TextInv, Quiet, ~overlap, ~short PROVE out \o b = T
    BY DEF SequentialLogExact
  <2>1. /\ Len(out) \in Nat /\ head \in Nat /\ head <= Size /\ Size \in Nat /\ T \in Seq(Bytes)
        /\ out \in Seq(Bytes) /\ buf \in [0..Size-1 -> Bytes]
        /\ Len(out) + head + Cardinality(Missing) = Len(T)
    BY LogFacts
  <2>2. Cardinality(Missing) = 0
    BY NobodyMisses, FS_EmptySet
  <2>3. Stored /\ \A j : Copied(j)
    BY DEF TextInv, InOrder, Quiet, Copied
  <2>4. b \in Seq(Bytes) /\ Len(b) = head /\ \A j \in 1..head : b[j] = buf[j - 1]
    <3>1. \A j \in 1..head : buf[j - 1] \in Bytes
      BY <2>1
    <3> QED
      BY <2>1, <3>1 DEF Buffered
  <2> HIDE DEF T, b
  <2>5. /\ out \o b \in Seq(Bytes) /\ Len(out \o b) = Len(out) + head
        /\ \A i \in 1..(Len(out) + head) :
             (out \o b)[i] = IF i <= Len(out) THEN out[i] ELSE b[i - Len(out)]
    BY <2>1, <2>4, ConcatProperties
  <2>6. Len(T) = Len(out) + head
    BY <2>1, <2>2
  <2>7. ASSUME NEW i \in 1..(Len(out) + head) PROVE (out \o b)[i] = T[i]
    <3>1. CASE i <= Len(out)
      <4>1. i \in 1..Len(out)
        BY <2>1, <3>1
      <4> QED
        BY <2>3, <2>5, <3>1, <4>1 DEF Stored, T
    <3>2. CASE ~(i <= Len(out))
      <4> DEFINE j == i - Len(out)
      <4>1. j \in 1..head /\ Len(out) + j = i
        BY <2>1, <3>2
      <4>2. (out \o b)[i] = b[j]
        BY <2>5, <3>2
      <4> HIDE DEF j
      <4>3. b[j] = T[Len(out) + j]
        BY <2>3, <2>4, <4>1 DEF Stored, T
      <4> QED
        BY <4>1, <4>2, <4>3
    <3> QED
      BY <3>1, <3>2
  <2> QED
    BY <2>1, <2>5, <2>6, <2>7, SeqEqual
<1> QED
  BY <1>1, TextInvHolds, PTL
=============================================================================
