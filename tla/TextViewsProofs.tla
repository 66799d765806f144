---------------------------- MODULE TextViewsProofs ----------------------------
(***************************************************************************)
(* The scanning routines of helpers.c and strview.c, and parse_rl, on      *)
(* texts of any length over any alphabet.  The loops are recursive         *)
(* functions; what these compute is proved from the last place that would  *)
(* be an exception.                                                        *)
(***************************************************************************)
EXTENDS TextViews, SequenceTheorems, WellFoundedInduction, TLAPS

\* A set of numbers that is not empty has a least element.
LEMMA LeastNumber ==
  ASSUME NEW S \in SUBSET Nat, S # {}
  PROVE  \E n \in S : \A m \in S : n <= m
<1>1. \E n \in S : \A m \in S : ~(<<m, n>> \in OpToRel(<, Nat))
  BY NatLessThanWellFounded, WFMin
<1>2. \A m, n \in Nat : m < n => <<m, n>> \in OpToRel(<, Nat)
  BY DEF OpToRel
<1>3. \A m, n \in Nat : ~(m < n) => n <= m
  OBVIOUS
<1> QED
  BY <1>1, <1>2, <1>3

\* A set of numbers that is bounded and not empty has a greatest element.
LEMMA GreatestNumber ==
  ASSUME NEW b \in Nat, NEW S \in SUBSET (0..b), S # {}
  PROVE  \E n \in S : \A m \in S : m <= n
<1> DEFINE R == {k \in 0..b : b - k \in S}
<1>1. R \in SUBSET Nat /\ R # {}
  <2>1. PICK n \in S : TRUE
    OBVIOUS
  <2>2. b - n \in 0..b /\ b - (b - n) = n
    OBVIOUS
  <2> QED
    BY <2>2
<1>2. PICK k \in R : \A m \in R : k <= m
  <2> HIDE DEF R
  <2> QED
    BY <1>1, LeastNumber
<1>3. b - k \in S /\ k \in 0..b
  OBVIOUS
<1>4. ASSUME NEW m \in S PROVE m <= b - k
  <2>1. b - m \in 0..b /\ b - (b - m) = m
    OBVIOUS
  <2>2. k <= b - m
    BY <1>2, <2>1
  <2> QED
    BY <1>3, <2>1, <2>2
<1> QED
  BY <1>3, <1>4

\* Downward induction: a set that holds n + 1 and, with i + 1, also i holds
\* all places from 1 on.
LEMMA Downward ==
  ASSUME NEW n \in Nat, NEW S, n + 1 \in S, \A i \in 1..n : i + 1 \in S => i \in S
  PROVE  \A i \in 1..(n + 1) : i \in S
<1> DEFINE R == {i \in 1..(n + 1) : i \notin S}
<1> SUFFICES ASSUME R # {} PROVE FALSE
  OBVIOUS
<1>1. R \in SUBSET (0..(n + 1)) /\ n + 1 \in Nat
  OBVIOUS
<1>2. PICK i \in R : \A k \in R : k <= i
  <2> HIDE DEF R
  <2> QED
    BY <1>1, GreatestNumber
<1>3. i \in 1..n
  OBVIOUS
<1>4. i + 1 \in 1..(n + 1) /\ ~(i + 1 <= i)
  BY <1>3
<1>5. i + 1 \in S
  BY <1>2, <1>4
<1> QED
  BY <1>3, <1>5

-----------------------------------------------------------------------------
(***************************************************************************)
(* find_delim.                                                             *)
(***************************************************************************)

\* What the loop yields from place i of the text on, with j - 1 bytes of the
\* delimiter matched, if f tells that for place i + 1.
Row(f, s, d, i) ==
  [j \in 1..Len(d) |->
     IF i > Len(s) THEN 0
     ELSE IF s[i] = d[j] THEN IF j = Len(d) THEN i ELSE f[i + 1][j + 1]
     ELSE f[i + 1][1]]

Scans(f, s, d, k) == \A i \in k..(Len(s) + 1) : f[i] = Row(f, s, d, i)

\* The loop is well defined.
LEMMA ScanExists ==
  ASSUME NEW s, NEW d, Len(s) \in Nat
  PROVE  \E f : f = [i \in 1..Len(s) + 1 |-> Row(f, s, d, i)]
<1> DEFINE n == Len(s)
           S == {k \in 1..(n + 1) : \E f : Scans(f, s, d, k)}
<1>1. n + 1 \in S
  <2> DEFINE f == [i \in 1..(n + 1) |-> Row([k \in {} |-> 0], s, d, i)]
  <2>1. f[n + 1] = [j \in 1..Len(d) |-> 0] /\ Row(f, s, d, n + 1) = [j \in 1..Len(d) |-> 0]
    <3>1. n + 1 > Len(s) /\ n + 1 \in 1..(n + 1)
      OBVIOUS
    <3> QED
      BY <3>1 DEF Row
  <2>2. \A i \in (n + 1)..(n + 1) : i = n + 1
    OBVIOUS
  <2> HIDE DEF f
  <2>3. Scans(f, s, d, n + 1)
    BY <2>1, <2>2 DEF Scans
  <2> QED
    BY <2>3
<1>2. ASSUME NEW k \in 1..n, k + 1 \in S PROVE k \in S
  <2>1. PICK f : Scans(f, s, d, k + 1)
    BY <1>2
  <2> DEFINE g == [i \in 1..(n + 1) |-> IF i = k THEN Row(f, s, d, k) ELSE f[i]]
  <2>2. \A i \in k..(n + 1) : i \in 1..(n + 1) /\ i + 1 # k /\ (i # k => i \in (k + 1)..(n + 1))
    OBVIOUS
  <2>3. \A i \in k..n : g[i + 1] = f[i + 1]
    BY <2>2
  <2>4. \A i \in k..(n + 1) : Row(g, s, d, i) = Row(f, s, d, i)
    <3> HIDE DEF g
    <3>1. \A i \in k..(n + 1) : ~(i > Len(s)) => i \in k..n
      OBVIOUS
    <3> QED
      BY <2>3, <3>1 DEF Row
  <2>5. \A i \in k..(n + 1) : g[i] = Row(f, s, d, i)
    BY <2>1, <2>2 DEF Scans
  <2> HIDE DEF g
  <2>6. Scans(g, s, d, k)
    BY <2>4, <2>5 DEF Scans
  <2> QED
    BY <2>6
<1>3. 1 \in S
  <2>1. \A i \in 1..(n + 1) : i \in S
    <3> HIDE DEF S
    <3> QED
      BY <1>1, <1>2, Downward
  <2> QED
    BY <2>1
<1>4. PICK f : Scans(f, s, d, 1)
  BY <1>3
<1> DEFINE g == [i \in 1..(n + 1) |-> f[i]]
<1>5. \A i \in 1..(n + 1) : Row(g, s, d, i) = Row(f, s, d, i)
  <2>1. \A i \in 1..n : g[i + 1] = f[i + 1]
    OBVIOUS
  <2>2. \A i \in 1..(n + 1) : ~(i > Len(s)) => i \in 1..n
    OBVIOUS
  <2> HIDE DEF g
  <2> QED
    BY <2>1, <2>2 DEF Row
<1>6. \A i \in 1..(n + 1) : f[i] = Row(f, s, d, i)
  BY <1>4 DEF Scans
<1>7. g = [i \in 1..(n + 1) |-> Row(g, s, d, i)]
  BY <1>5, <1>6
<1> QED
  BY <1>7

\* What find_delim returns.
LEMMA FindIs ==
  ASSUME NEW s, NEW d, Len(s) \in Nat
  PROVE  \E f : Scans(f, s, d, 1) /\ find_delim(s, d) = f[1][1]
<1> DEFINE h == CHOOSE f : f = [i \in 1..Len(s) + 1 |-> Row(f, s, d, i)]
<1>1. h = [i \in 1..Len(s) + 1 |-> Row(h, s, d, i)]
  BY ScanExists
<1>2. find_delim(s, d) = h[1][1]
  BY DEF find_delim, Row
<1>3. Scans(h, s, d, 1)
  <2> HIDE DEF h
  <2> QED
    BY <1>1 DEF Scans
<1> QED
  BY <1>2, <1>3

\* A place that was found stays found when another byte arrives.
LEMMA ScanStable ==
  ASSUME NEW s, NEW r, NEW d, Len(s) \in Nat, Len(d) \in Nat \ {0}, Len(r) = Len(s) + 1,
         \A i \in 1..Len(s) : r[i] = s[i],
         NEW f, NEW g, Scans(f, s, d, 1), Scans(g, r, d, 1)
  PROVE  \A i \in 1..(Len(s) + 1) : \A j \in 1..Len(d) : f[i][j] # 0 => g[i][j] = f[i][j]
<1> DEFINE n == Len(s)
           S == {i \in 1..(n + 1) : \A j \in 1..Len(d) : f[i][j] # 0 => g[i][j] = f[i][j]}
<1>1. n + 1 \in S
  <2>1. n + 1 \in 1..(Len(s) + 1) /\ n + 1 > Len(s)
    OBVIOUS
  <2>2. f[n + 1] = Row(f, s, d, n + 1)
    BY <2>1 DEF Scans
  <2>3. \A j \in 1..Len(d) : f[n + 1][j] = 0
    BY <2>1, <2>2 DEF Row
  <2> QED
    BY <2>1, <2>3
<1>2. ASSUME NEW i \in 1..n, i + 1 \in S PROVE i \in S
  <2>1. /\ i \in 1..(Len(s) + 1) /\ i \in 1..(Len(r) + 1) /\ ~(i > Len(s)) /\ ~(i > Len(r))
        /\ i \in 1..Len(s)
    OBVIOUS
  <2>2. f[i] = Row(f, s, d, i) /\ g[i] = Row(g, r, d, i)
    BY <2>1 DEF Scans
  <2>3. r[i] = s[i] /\ \A j \in 1..Len(d) : f[i + 1][j] # 0 => g[i + 1][j] = f[i + 1][j]
    BY <1>2, <2>1
  <2>4. 1 \in 1..Len(d) /\ \A j \in 1..Len(d) : j # Len(d) => j + 1 \in 1..Len(d)
    OBVIOUS
  <2>5. ASSUME NEW j \in 1..Len(d), f[i][j] # 0 PROVE g[i][j] = f[i][j]
    <3>1. f[i][j] = IF s[i] = d[j] THEN IF j = Len(d) THEN i ELSE f[i + 1][j + 1] ELSE f[i + 1][1]
      BY <2>1, <2>2 DEF Row
    <3>2. g[i][j] = IF s[i] = d[j] THEN IF j = Len(d) THEN i ELSE g[i + 1][j + 1] ELSE g[i + 1][1]
      BY <2>1, <2>2, <2>3 DEF Row
    <3> QED
      BY <2>3, <2>4, <2>5, <3>1, <3>2
  <2> QED
    BY <2>1, <2>5
<1>3. \A i \in 1..(n + 1) : i \in S
  <2> HIDE DEF S
  <2> QED
    BY <1>1, <1>2, Downward
<1> QED
  BY <1>3

\* Place p of s is the end of a CR LF.
AtEnd(s, p) == p \in 2..Len(s) /\ s[p - 1] = CR /\ s[p] = LF

\* From place i on, with nothing matched (A) or with a CR matched (B), the
\* loop yields the end of a CR LF; and no other CR LF ends before it if no CR
\* follows another.
Found(f, s, i) ==
  /\ f[i][1] # 0 => f[i][1] > i /\ AtEnd(s, f[i][1])
  /\ f[i][2] # 0 => (f[i][2] = i /\ i <= Len(s) /\ s[i] = LF) \/ (f[i][2] > i + 1 /\ AtEnd(s, f[i][2]))

NoTwoCRs(s) == ~\E i \in 1..(Len(s) - 1) : s[i] = CR /\ s[i + 1] = CR

First(f, s, i) ==
  /\ \A p \in (i + 1)..Len(s) : AtEnd(s, p) => f[i][1] # 0 /\ f[i][1] <= p
  /\ (i > 1 /\ s[i - 1] = CR) =>
       \A p \in i..Len(s) : AtEnd(s, p) => f[i][2] # 0 /\ f[i][2] <= p

\* The two values of the loop at place i.
LEMMA ScanValues ==
  ASSUME NEW s, Len(s) \in Nat, NEW f, Scans(f, s, CRLF, 1), NEW i \in 1..(Len(s) + 1)
  PROVE  /\ i = Len(s) + 1 => f[i][1] = 0 /\ f[i][2] = 0
         /\ i # Len(s) + 1 =>
              /\ f[i][1] = IF s[i] = CR THEN f[i + 1][2] ELSE f[i + 1][1]
              /\ f[i][2] = IF s[i] = LF THEN i ELSE f[i + 1][1]
<1>1. f[i] = Row(f, s, CRLF, i)
  BY DEF Scans
<1>2. Len(CRLF) = 2 /\ CRLF[1] = CR /\ CRLF[2] = LF /\ 1..2 = {1, 2}
  BY DEF CRLF
<1>3. \A j \in 1..2 :
        f[i][j] = IF i > Len(s) THEN 0
                  ELSE IF s[i] = CRLF[j] THEN IF j = 2 THEN i ELSE f[i + 1][j + 1]
                  ELSE f[i + 1][1]
  BY <1>1, <1>2 DEF Row
<1>4. /\ f[i][1] = IF i > Len(s) THEN 0 ELSE IF s[i] = CR THEN f[i + 1][2] ELSE f[i + 1][1]
      /\ f[i][2] = IF i > Len(s) THEN 0 ELSE IF s[i] = LF THEN i ELSE f[i + 1][1]
  <2>1. 1 \in 1..2 /\ 2 \in 1..2 /\ 1 # 2 /\ 1 + 1 = 2
    OBVIOUS
  <2> QED
    BY <1>2, <1>3, <2>1
<1>5. i > Len(s) <=> i = Len(s) + 1
  OBVIOUS
<1> QED
  BY <1>4, <1>5

\* What is found is a CR LF.
LEMMA ScanFinds ==
  ASSUME NEW s, Len(s) \in Nat, NEW f, Scans(f, s, CRLF, 1)
  PROVE  \A i \in 1..(Len(s) + 1) : f[i][1] # 0 => f[i][1] > i /\ AtEnd(s, f[i][1])
<1> DEFINE n == Len(s)
           S == {i \in 1..(n + 1) : Found(f, s, i)}
<1>1. n + 1 \in S
  BY ScanValues DEF Found
<1>2. ASSUME NEW i \in 1..n, i + 1 \in S PROVE i \in S
  <2>1. i \in 1..(Len(s) + 1) /\ i # Len(s) + 1 /\ i <= Len(s) /\ i + 1 > i
    OBVIOUS
  <2>2. /\ f[i][1] = IF s[i] = CR THEN f[i + 1][2] ELSE f[i + 1][1]
        /\ f[i][2] = IF s[i] = LF THEN i ELSE f[i + 1][1]
    BY <2>1, ScanValues
  <2>3. Found(f, s, i + 1)
    BY <1>2
  <2>4. f[i][1] # 0 => f[i][1] > i /\ AtEnd(s, f[i][1])
    <3>1. CASE s[i] = CR /\ f[i + 1][2] = i + 1 /\ i + 1 <= Len(s) /\ s[i + 1] = LF
      <4>1. i + 1 \in 2..Len(s) /\ (i + 1) - 1 = i
        BY <3>1
      <4> QED
        BY <2>1, <2>2, <3>1, <4>1 DEF AtEnd
    <3>2. CASE s[i] = CR /\ f[i + 1][2] # 0 /\ f[i + 1][2] > (i + 1) + 1 /\ AtEnd(s, f[i + 1][2])
      <4>1. f[i + 1][2] > i
        BY <3>2 DEF AtEnd
      <4> QED
        BY <2>2, <3>2, <4>1
    <3>3. CASE s[i] # CR /\ f[i + 1][1] # 0
      <4>1. f[i + 1][1] > i + 1 /\ AtEnd(s, f[i + 1][1])
        BY <2>3, <3>3 DEF Found
      <4>2. f[i + 1][1] > i
        BY <4>1 DEF AtEnd
      <4> QED
        BY <2>2, <3>3, <4>1, <4>2
    <3> QED
      BY <2>2, <2>3, <3>1, <3>2, <3>3 DEF Found
  <2>5. f[i][2] # 0 => (f[i][2] = i /\ i <= Len(s) /\ s[i] = LF)
                       \/ (f[i][2] > i + 1 /\ AtEnd(s, f[i][2]))
    BY <2>1, <2>2, <2>3 DEF Found
  <2> QED
    BY <2>1, <2>4, <2>5 DEF Found
<1>3. \A i \in 1..(n + 1) : i \in S
  <2> HIDE DEF S
  <2> QED
    BY <1>1, <1>2, Downward
<1> QED
  BY <1>3 DEF Found

\* And it is the first, if no CR follows another.
LEMMA ScanFindsFirst ==
  ASSUME NEW s, Len(s) \in Nat, NEW f, Scans(f, s, CRLF, 1), NoTwoCRs(s)
  PROVE  \A p \in 2..Len(s) : AtEnd(s, p) => f[1][1] # 0 /\ f[1][1] <= p
<1> DEFINE n == Len(s)
           S == {i \in 1..(n + 1) : First(f, s, i)}
<1>1. n + 1 \in S
  <2>1. ((n + 1) + 1)..Len(s) = {} /\ (n + 1)..Len(s) = {}
    OBVIOUS
  <2> QED
    BY <2>1 DEF First
<1>2. ASSUME NEW i \in 1..n, i + 1 \in S PROVE i \in S
  <2>1. i \in 1..(Len(s) + 1) /\ i # Len(s) + 1 /\ i + 1 > 1 /\ (i + 1) - 1 = i
    OBVIOUS
  <2>2. /\ f[i][1] = IF s[i] = CR THEN f[i + 1][2] ELSE f[i + 1][1]
        /\ f[i][2] = IF s[i] = LF THEN i ELSE f[i + 1][1]
    BY <2>1, ScanValues
  <2>3. First(f, s, i + 1)
    BY <1>2
  <2>4. ASSUME NEW p \in (i + 1)..Len(s), AtEnd(s, p) PROVE f[i][1] # 0 /\ f[i][1] <= p
    <3>1. CASE s[i] = CR
      BY <2>1, <2>2, <2>3, <2>4, <3>1 DEF First
    <3>2. CASE s[i] # CR
      <4>1. p # i + 1
        BY <2>1, <2>4, <3>2 DEF AtEnd
      <4>2. p \in ((i + 1) + 1)..Len(s)
        BY <4>1
      <4> QED
        BY <2>2, <2>3, <2>4, <3>2, <4>2 DEF First
    <3> QED
      BY <3>1, <3>2
  <2>5. ASSUME i > 1, s[i - 1] = CR, NEW p \in i..Len(s), AtEnd(s, p)
        PROVE  f[i][2] # 0 /\ f[i][2] <= p
    <3>1. CASE s[i] = LF
      BY <2>2, <3>1
    <3>2. CASE s[i] # LF
      <4>1. s[i] # CR
        <5>1. i - 1 \in 1..(Len(s) - 1) /\ (i - 1) + 1 = i
          BY <2>5
        <5> QED
          BY <2>5, <5>1 DEF NoTwoCRs
      <4>2. p # i /\ p # i + 1
        BY <2>1, <2>5, <3>2, <4>1 DEF AtEnd
      <4>3. p \in ((i + 1) + 1)..Len(s)
        BY <4>2
      <4> QED
        BY <2>2, <2>3, <2>5, <3>2, <4>3 DEF First
    <3> QED
      BY <3>1, <3>2
  <2> QED
    BY <2>1, <2>4, <2>5 DEF First
<1>3. 1 \in S
  <2>1. \A i \in 1..(n + 1) : i \in S
    <3> HIDE DEF S
    <3> QED
      BY <1>1, <1>2, Downward
  <2> QED
    BY <2>1
<1> QED
  BY <1>3 DEF First

\* Where a CR LF ends.
LEMMA EndsAtCRLF ==
  ASSUME NEW X, NEW s \in Seq(X), NEW p \in 1..Len(s)
  PROVE  EndsAt(s, CRLF, p) <=> AtEnd(s, p)
<1> DEFINE t == SubSeq(s, p - 1, p)
<1>0. Len(s) \in Nat /\ Len(CRLF) = 2 /\ CRLF = <<CR, LF>> /\ p - 2 + 1 = p - 1
  BY DEF CRLF
<1>1. EndsAt(s, CRLF, p) <=> p >= 2 /\ t = <<CR, LF>>
  BY <1>0 DEF EndsAt
<1>2. ASSUME p >= 2 PROVE t = <<CR, LF>> <=> s[p - 1] = CR /\ s[p] = LF
  <2>1. /\ p - 1 \in Int /\ p \in Int /\ p - 1 \in 1..Len(s)
        /\ p - (p - 1) + 1 = 2 /\ (p - 1) + 1 - 1 = p - 1 /\ (p - 1) + 2 - 1 = p
    BY <1>0, <1>2
  <2>2. t \in Seq(X) /\ Len(t) = 2 /\ t[1] = s[p - 1] /\ t[2] = s[p]
    BY <1>0, <1>2, <2>1
  <2> HIDE DEF t
  <2>3. t = <<t[1], t[2]>>
    BY <2>2
  <2> QED
    BY <2>2, <2>3
<1>3. p >= 2 <=> p \in 2..Len(s)
  BY <1>0
<1> QED
  BY <1>1, <1>2, <1>3 DEF AtEnd

\* find_delim on the line ends of a text.
LEMMA FindsLineEnd ==
  ASSUME NEW X, NEW s \in Seq(X)
  PROVE  LET p == find_delim(s, CRLF)
         IN  /\ p # 0 => EndsAt(s, CRLF, p)
             /\ NoTwoCRs(s) => p = FirstOccurrence(s, CRLF)
<1> DEFINE p == find_delim(s, CRLF)
           ends == {q \in 1..Len(s) : EndsAt(s, CRLF, q)}
<1>0. Len(s) \in Nat
  OBVIOUS
<1>1. PICK f : Scans(f, s, CRLF, 1) /\ p = f[1][1]
  BY <1>0, FindIs
<1> HIDE DEF p
<1>2. p # 0 => AtEnd(s, p)
  <2>1. 1 \in 1..(Len(s) + 1)
    BY <1>0
  <2> QED
    BY <1>0, <1>1, <2>1, ScanFinds
<1>3. \A q \in 1..Len(s) : q \in ends <=> AtEnd(s, q)
  BY EndsAtCRLF
<1>4. p # 0 => p \in ends
  BY <1>0, <1>2, <1>3 DEF AtEnd
<1>5. ASSUME NoTwoCRs(s) PROVE p = FirstOccurrence(s, CRLF)
  <2>1. \A q \in ends : p # 0 /\ p <= q
    <3>1. \A q \in ends : q \in 2..Len(s) /\ AtEnd(s, q)
      BY <1>3 DEF AtEnd
    <3> HIDE DEF ends
    <3> QED
      BY <1>0, <1>1, <1>5, <3>1, ScanFindsFirst
  <2>2. FirstOccurrence(s, CRLF) = IF ends = {} THEN 0 ELSE Min(ends)
    BY DEF FirstOccurrence
  <2>3. ends \in SUBSET Nat
    BY <1>0
  <2> HIDE DEF ends
  <2>4. CASE ends = {}
    BY <1>4, <2>2, <2>4
  <2>5. CASE ends # {}
    <3>1. p \in ends /\ \A q \in ends : p <= q
      BY <1>4, <2>1, <2>5
    <3>2. \A x \in ends : (\A y \in ends : x <= y) => x = p
      BY <2>3, <3>1
    <3>3. Min(ends) = p
      BY <3>1, <3>2 DEF Min
    <3> QED
      BY <2>2, <2>5, <3>3
  <2> QED
    BY <2>4, <2>5
<1> QED
  BY <1>4, <1>5 DEF p

-----------------------------------------------------------------------------
(***************************************************************************)
(* The text, and the properties of find_delim.                             *)
(***************************************************************************)
TextType == text \in Seq(Alphabet)

\* The text is one of bytes.
LEMMA TextTypeHolds == Spec => []TextType
<1>1. Init => TextType
  BY DEF Init, TextType
<1>2. TextType /\ [Next]_text => TextType'
  BY DEF TextType, Next, ByteArrives
<1> QED
  BY <1>1, <1>2, PTL DEF Spec

\* On every text, of any length and over any alphabet, what find_delim reports
\* is the end of a line, and it is the first unless a CR follows another.
THEOREM LineEndsAreFound == Spec => []LineEndFound
<1>1. TextType => LineEndFound
  BY FindsLineEnd DEF TextType, LineEndFound, NoTwoCRs
<1> QED
  BY <1>1, TextTypeHolds, PTL

\* read_rl and read_hf may scan again after every read: a line end that
\* find_delim has found it finds at the same place when more has arrived.
THEOREM LineEndsAreStable == Spec => LineEndStable
<1>1. ASSUME TextType, [Next]_text
      PROVE  find_delim(text, CRLF) # 0 => find_delim(text, CRLF)' = find_delim(text, CRLF)
  <2>1. CASE text' = text
    <3>1. find_delim(text, CRLF)' = find_delim(text', CRLF)
      BY DEF CRLF, CR, LF
    <3> QED
      BY <2>1, <3>1
  <2>2. ASSUME NEW c \in Alphabet, ByteArrives(c)
        PROVE  find_delim(text, CRLF) # 0 => find_delim(text, CRLF)' = find_delim(text, CRLF)
    <3>1. /\ text' = Append(text, c) /\ Len(text) \in Nat /\ Len(text') = Len(text) + 1
          /\ Len(text') \in Nat /\ \A i \in 1..Len(text) : text'[i] = text[i]
      BY <1>1, <2>2 DEF ByteArrives, TextType
    <3>2. PICK f : Scans(f, text, CRLF, 1) /\ find_delim(text, CRLF) = f[1][1]
      BY <3>1, FindIs
    <3>3. PICK g : Scans(g, text', CRLF, 1) /\ find_delim(text', CRLF) = g[1][1]
      BY <3>1, FindIs
    <3>4. Len(CRLF) \in Nat \ {0} /\ 1 \in 1..Len(CRLF) /\ 1 \in 1..(Len(text) + 1)
      BY <3>1 DEF CRLF
    <3>5. f[1][1] # 0 => g[1][1] = f[1][1]
      <4>1. \A i \in 1..(Len(text) + 1) : \A j \in 1..Len(CRLF) :
              f[i][j] # 0 => g[i][j] = f[i][j]
        <5> DEFINE r == text'
        <5>1. Len(r) = Len(text) + 1 /\ \A i \in 1..Len(text) : r[i] = text[i]
          BY <3>1
        <5>2. Scans(g, r, CRLF, 1)
          BY <3>3
        <5> HIDE DEF r
        <5> QED
          BY <3>1, <3>2, <3>4, <5>1, <5>2, ScanStable
      <4> QED
        BY <3>4, <4>1
    <3>6. find_delim(text, CRLF)' = find_delim(text', CRLF)
      BY DEF CRLF, CR, LF
    <3> QED
      BY <3>2, <3>3, <3>5, <3>6
  <2> QED
    BY <1>1, <2>1, <2>2 DEF Next
<1> QED
  BY <1>1, TextTypeHolds, PTL DEF Spec, LineEndStable

-----------------------------------------------------------------------------
(***************************************************************************)
(* trim_whitespace.                                                        *)
(***************************************************************************)
BlankAt(k) == is_whitespace(Memory[k])

\* The memory around the text: no blank at either end.
LEMMA MemoryFacts ==
  ASSUME TextType
  PROVE  /\ Len(text) \in Nat /\ Len(Memory) = Len(text) + 2
         /\ ~BlankAt(1) /\ ~BlankAt(Len(text) + 2)
         /\ \A k \in 1..Len(text) : Memory[k + 1] = text[k]
         /\ \A k \in 1..Len(text) : BlankAt(k + 1) <=> is_whitespace(text[k])
<1> DEFINE X == Alphabet \cup {":", CR}
           a == <<":">>
           b == <<CR>>
<1>1. a \in Seq(X) /\ b \in Seq(X) /\ Len(a) = 1 /\ Len(b) = 1 /\ a[1] = ":" /\ b[1] = CR
  OBVIOUS
<1>2. text \in Seq(X) /\ Len(text) \in Nat
  BY DEF TextType
<1>3. Memory = (a \o text) \o b
  BY DEF Memory
<1> HIDE DEF a, b, X
<1>4. /\ a \o text \in Seq(X) /\ Len(a \o text) = 1 + Len(text)
      /\ \A i \in 1..(1 + Len(text)) : (a \o text)[i] = IF i <= 1 THEN a[i] ELSE text[i - 1]
  <2>1. /\ a \o text \in Seq(X) /\ Len(a \o text) = Len(a) + Len(text)
        /\ \A i \in 1..(Len(a) + Len(text)) :
             (a \o text)[i] = IF i <= Len(a) THEN a[i] ELSE text[i - Len(a)]
    BY <1>1, <1>2, ConcatProperties
  <2> QED
    BY <1>1, <2>1
<1>5. /\ Len(Memory) = (1 + Len(text)) + 1
      /\ \A i \in 1..((1 + Len(text)) + 1) :
           Memory[i] = IF i <= 1 + Len(text) THEN (a \o text)[i] ELSE b[i - (1 + Len(text))]
  <2> DEFINE c == a \o text
  <2>1. c \in Seq(X) /\ Len(c) = 1 + Len(text) /\ Memory = c \o b
    BY <1>3, <1>4
  <2> HIDE DEF c
  <2>2. /\ Len(c \o b) = Len(c) + Len(b)
        /\ \A i \in 1..(Len(c) + Len(b)) :
             (c \o b)[i] = IF i <= Len(c) THEN c[i] ELSE b[i - Len(c)]
    BY <1>1, <2>1, ConcatProperties
  <2>3. /\ Len(Memory) = (1 + Len(text)) + 1
        /\ \A i \in 1..((1 + Len(text)) + 1) :
             Memory[i] = IF i <= 1 + Len(text) THEN c[i] ELSE b[i - (1 + Len(text))]
    BY <1>1, <2>1, <2>2
  <2> QED
    BY <2>3 DEF c
<1>6. Memory[1] = ":"
  BY <1>1, <1>2, <1>4, <1>5
<1>7. Memory[Len(text) + 2] = CR
  <2>1. /\ Len(text) + 2 \in 1..((1 + Len(text)) + 1) /\ ~(Len(text) + 2 <= 1 + Len(text))
        /\ (Len(text) + 2) - (1 + Len(text)) = 1
    BY <1>2
  <2> QED
    BY <1>1, <1>5, <2>1
<1>8. ASSUME NEW k \in 1..Len(text) PROVE Memory[k + 1] = text[k]
  <2>1. /\ k + 1 \in 1..((1 + Len(text)) + 1) /\ k + 1 \in 1..(1 + Len(text))
        /\ k + 1 <= 1 + Len(text) /\ ~(k + 1 <= 1) /\ (k + 1) - 1 = k
    BY <1>2
  <2> QED
    BY <1>4, <1>5, <2>1
<1>9. Len(Memory) = Len(text) + 2
  BY <1>2, <1>5
<1> QED
  BY <1>2, <1>6, <1>7, <1>8, <1>9 DEF BlankAt, is_whitespace, Blank, CR

\* The loop from the front, and the one from the back.
Fronts(f) == f = [k \in 1..Len(Memory) |-> IF BlankAt(k) THEN f[k + 1] ELSE k]
Backs(f) == f = [k \in 2..Len(Memory) + 1 |-> IF BlankAt(k - 1) THEN f[k - 1] ELSE k]

\* Where they stop.
NextSolid(k, m) == m \in k..Len(Memory) /\ ~BlankAt(m) /\ \A i \in k..(m - 1) : BlankAt(i)
LastSolid(k, m) == m \in 2..k /\ ~BlankAt(m - 1) /\ \A i \in m..(k - 1) : BlankAt(i)

\* There is one such place.
LEMMA SolidPlaces ==
  ASSUME TextType
  PROVE  /\ \A k \in 1..Len(Memory) : \E m : NextSolid(k, m)
         /\ \A k, m, q : NextSolid(k, m) /\ NextSolid(k, q) /\ k \in 1..Len(Memory) => m = q
         /\ \A k \in 2..(Len(Memory) + 1) : \E m : LastSolid(k, m)
         /\ \A k, m, q : LastSolid(k, m) /\ LastSolid(k, q) /\ k \in 2..(Len(Memory) + 1) => m = q
<1> DEFINE M == Len(Memory)
<1>0. M \in Nat /\ M >= 2 /\ ~BlankAt(1) /\ ~BlankAt(M)
  BY MemoryFacts
<1> HIDE DEF M
<1>1. ASSUME NEW k \in 1..M PROVE \E m : NextSolid(k, m)
  <2> DEFINE S == {m \in k..M : ~BlankAt(m)}
  <2>1. S \in SUBSET Nat /\ M \in S
    BY <1>0
  <2>2. PICK m \in S : \A i \in S : m <= i
    <3> HIDE DEF S
    <3> QED
      BY <2>1, LeastNumber
  <2>3. \A i \in k..(m - 1) : i \in k..M /\ ~(m <= i)
    BY <1>0, <2>1
  <2>4. NextSolid(k, m)
    BY <2>2, <2>3 DEF NextSolid, M
  <2> QED
    BY <2>4
<1>2. ASSUME NEW k \in 2..(M + 1) PROVE \E m : LastSolid(k, m)
  <2> DEFINE S == {m \in 2..k : ~BlankAt(m - 1)}
  <2>1. S \in SUBSET (0..(M + 1)) /\ 2 \in S /\ M + 1 \in Nat /\ 2 - 1 = 1
    BY <1>0
  <2>2. PICK m \in S : \A i \in S : i <= m
    <3> HIDE DEF S
    <3> QED
      BY <2>1, GreatestNumber
  <2>3. ASSUME NEW i \in m..(k - 1) PROVE BlankAt(i)
    <3>1. i + 1 \in 2..k /\ ~(i + 1 <= m) /\ (i + 1) - 1 = i
      BY <2>1
    <3> QED
      BY <2>2, <3>1
  <2>4. LastSolid(k, m)
    BY <2>3 DEF LastSolid
  <2> QED
    BY <2>4
<1>3. ASSUME NEW k \in 1..M, NEW m, NEW q, NextSolid(k, m), NextSolid(k, q) PROVE m = q
  <2>1. m \in k..M /\ q \in k..M
    BY <1>3 DEF NextSolid, M
  <2>2. ~(m < q) /\ ~(q < m)
    BY <1>0, <1>3, <2>1 DEF NextSolid
  <2> QED
    BY <1>0, <2>1, <2>2
<1>4. ASSUME NEW k \in 2..(M + 1), NEW m, NEW q, LastSolid(k, m), LastSolid(k, q) PROVE m = q
  <2>1. m \in 2..k /\ q \in 2..k
    BY <1>4 DEF LastSolid
  <2>2. ~(m < q)
    <3> SUFFICES ASSUME m < q PROVE FALSE
      OBVIOUS
    <3>1. q - 1 \in m..(k - 1)
      BY <2>1
    <3> QED
      BY <1>4, <3>1 DEF LastSolid
  <2>3. ~(q < m)
    <3> SUFFICES ASSUME q < m PROVE FALSE
      OBVIOUS
    <3>1. m - 1 \in q..(k - 1)
      BY <2>1
    <3> QED
      BY <1>4, <3>1 DEF LastSolid
  <2> QED
    BY <2>1, <2>2, <2>3
<1> QED
  BY <1>1, <1>2, <1>3, <1>4 DEF M

\* One step of each loop.
LEMMA SolidSteps ==
  ASSUME TextType
  PROVE  /\ \A k \in 1..Len(Memory) : ~BlankAt(k) => NextSolid(k, k)
         /\ \A k \in 1..Len(Memory) : BlankAt(k) =>
              k + 1 \in 1..Len(Memory) /\ \A m : NextSolid(k + 1, m) => NextSolid(k, m)
         /\ \A k \in 2..(Len(Memory) + 1) : ~BlankAt(k - 1) => LastSolid(k, k)
         /\ \A k \in 2..(Len(Memory) + 1) : BlankAt(k - 1) =>
              k - 1 \in 2..(Len(Memory) + 1) /\ \A m : LastSolid(k - 1, m) => LastSolid(k, m)
<1> DEFINE M == Len(Memory)
<1>0. M \in Nat /\ M >= 2 /\ ~BlankAt(1) /\ ~BlankAt(M)
  BY MemoryFacts
<1> HIDE DEF M
<1>1. ASSUME NEW k \in 1..M, ~BlankAt(k) PROVE NextSolid(k, k)
  <2>1. k \in k..M /\ k..(k - 1) = {}
    BY <1>0
  <2> QED
    BY <1>1, <2>1 DEF NextSolid, M
<1>2. ASSUME NEW k \in 1..M, BlankAt(k)
      PROVE  k + 1 \in 1..M /\ \A m : NextSolid(k + 1, m) => NextSolid(k, m)
  <2>1. k # M
    BY <1>0, <1>2
  <2>2. k + 1 \in 1..M
    BY <1>0, <2>1
  <2>3. ASSUME NEW m, NextSolid(k + 1, m) PROVE NextSolid(k, m)
    <3>1. m \in (k + 1)..M /\ ~BlankAt(m) /\ \A i \in (k + 1)..(m - 1) : BlankAt(i)
      BY <2>3 DEF NextSolid, M
    <3>2. m \in k..M /\ \A i \in k..(m - 1) : i = k \/ i \in (k + 1)..(m - 1)
      BY <1>0, <3>1
    <3> QED
      BY <1>2, <3>1, <3>2 DEF NextSolid, M
  <2> QED
    BY <2>2, <2>3
<1>3. ASSUME NEW k \in 2..(M + 1), ~BlankAt(k - 1) PROVE LastSolid(k, k)
  <2>1. k \in 2..k /\ k..(k - 1) = {}
    BY <1>0
  <2> QED
    BY <1>3, <2>1 DEF LastSolid
<1>4. ASSUME NEW k \in 2..(M + 1), BlankAt(k - 1)
      PROVE  k - 1 \in 2..(M + 1) /\ \A m : LastSolid(k - 1, m) => LastSolid(k, m)
  <2>1. k - 1 # 1
    BY <1>0, <1>4
  <2>2. k - 1 \in 2..(M + 1)
    BY <1>0, <2>1
  <2>3. ASSUME NEW m, LastSolid(k - 1, m) PROVE LastSolid(k, m)
    <3>1. m \in 2..(k - 1) /\ ~BlankAt(m - 1) /\ \A i \in m..((k - 1) - 1) : BlankAt(i)
      BY <2>3 DEF LastSolid
    <3>2. m \in 2..k /\ \A i \in m..(k - 1) : i = k - 1 \/ i \in m..((k - 1) - 1)
      BY <1>0, <3>1
    <3> QED
      BY <1>4, <3>1, <3>2 DEF LastSolid
  <2> QED
    BY <2>2, <2>3
<1> QED
  BY <1>1, <1>2, <1>3, <1>4 DEF M

\* The loops are well defined.
LEMMA TrimLoopsExist ==
  ASSUME TextType
  PROVE  (\E f : Fronts(f)) /\ (\E f : Backs(f))
<1> DEFINE M == Len(Memory)
<1>1. \E f : Fronts(f)
  <2> DEFINE P(k) == CHOOSE m : NextSolid(k, m)
             w == [k \in 1..M |-> P(k)]
  <2>1. \A k \in 1..M : NextSolid(k, P(k))
    BY SolidPlaces
  <2> HIDE DEF P
  <2>2. ASSUME NEW k \in 1..M PROVE P(k) = IF BlankAt(k) THEN w[k + 1] ELSE k
    <3>1. CASE BlankAt(k)
      <4>1. k + 1 \in 1..M /\ NextSolid(k, P(k + 1)) /\ NextSolid(k, P(k))
        BY <2>1, <3>1, SolidSteps
      <4>2. P(k) = P(k + 1)
        BY <4>1, SolidPlaces
      <4> QED
        BY <3>1, <4>1, <4>2
    <3>2. CASE ~BlankAt(k)
      <4>1. NextSolid(k, k) /\ NextSolid(k, P(k))
        BY <2>1, <3>2, SolidSteps
      <4>2. P(k) = k
        BY <4>1, SolidPlaces
      <4> QED
        BY <3>2, <4>2
    <3> QED
      BY <3>1, <3>2
  <2>3. w = [k \in 1..M |-> IF BlankAt(k) THEN w[k + 1] ELSE k]
    BY <2>2
  <2>4. Fronts(w)
    <3> HIDE DEF w
    <3> QED
      BY <2>3 DEF Fronts
  <2> QED
    BY <2>4
<1>2. \E f : Backs(f)
  <2> DEFINE P(k) == CHOOSE m : LastSolid(k, m)
             w == [k \in 2..M + 1 |-> P(k)]
  <2>1. \A k \in 2..(M + 1) : LastSolid(k, P(k))
    BY SolidPlaces
  <2> HIDE DEF P
  <2>2. ASSUME NEW k \in 2..(M + 1) PROVE P(k) = IF BlankAt(k - 1) THEN w[k - 1] ELSE k
    <3>1. CASE BlankAt(k - 1)
      <4>1. k - 1 \in 2..(M + 1) /\ LastSolid(k, P(k - 1)) /\ LastSolid(k, P(k))
        BY <2>1, <3>1, SolidSteps
      <4>2. P(k) = P(k - 1)
        BY <4>1, SolidPlaces
      <4> QED
        BY <3>1, <4>1, <4>2
    <3>2. CASE ~BlankAt(k - 1)
      <4>1. LastSolid(k, k) /\ LastSolid(k, P(k))
        BY <2>1, <3>2, SolidSteps
      <4>2. P(k) = k
        BY <4>1, SolidPlaces
      <4> QED
        BY <3>2, <4>2
    <3> QED
      BY <3>1, <3>2
  <2>3. w = [k \in 2..M + 1 |-> IF BlankAt(k - 1) THEN w[k - 1] ELSE k]
    BY <2>2
  <2>4. Backs(w)
    <3> HIDE DEF w
    <3> QED
      BY <2>3 DEF Backs
  <2> QED
    BY <2>4
<1> QED
  BY <1>1, <1>2

\* Where the loop from the front stops.
LEMMA FrontStops ==
  ASSUME TextType, NEW f, Fronts(f)
  PROVE  \A k \in 1..Len(Memory) : NextSolid(k, f[k])
<1> DEFINE M == Len(Memory)
           n == M - 1
           S == {k \in 1..M : NextSolid(k, f[k])}
<1>0. M \in Nat /\ M >= 2 /\ ~BlankAt(M)
  BY MemoryFacts
<1>1. \A k \in 1..M : f[k] = IF BlankAt(k) THEN f[k + 1] ELSE k
  BY DEF Fronts
<1> HIDE DEF M
<1>2. n \in Nat /\ n + 1 = M /\ M \in 1..M
  BY <1>0
<1>3. M \in S
  BY <1>0, <1>1, <1>2, SolidSteps DEF M
<1>4. ASSUME NEW k \in 1..n, k + 1 \in S PROVE k \in S
  <2>1. k \in 1..M
    BY <1>0
  <2>2. CASE BlankAt(k)
    <3>1. f[k] = f[k + 1] /\ NextSolid(k + 1, f[k + 1])
      BY <1>1, <1>4, <2>1, <2>2
    <3>2. NextSolid(k, f[k + 1])
      BY <2>1, <2>2, <3>1, SolidSteps DEF M
    <3> QED
      BY <2>1, <3>1, <3>2
  <2>3. CASE ~BlankAt(k)
    <3>1. f[k] = k
      BY <1>1, <2>1, <2>3
    <3>2. NextSolid(k, k)
      BY <2>1, <2>3, SolidSteps DEF M
    <3> QED
      BY <2>1, <3>1, <3>2
  <2> QED
    BY <2>2, <2>3
<1>5. \A k \in 1..(n + 1) : k \in S
  <2>1. n + 1 \in S
    BY <1>2, <1>3
  <2> HIDE DEF n, S
  <2> QED
    BY <1>2, <1>4, <2>1, Downward
<1> QED
  BY <1>2, <1>5 DEF M

\* Where the loop from the back stops.
LEMMA BackStops ==
  ASSUME TextType, NEW f, Backs(f)
  PROVE  \A k \in 2..(Len(Memory) + 1) : LastSolid(k, f[k])
<1> DEFINE M == Len(Memory)
           R == {k \in 2..(M + 1) : ~LastSolid(k, f[k])}
<1>0. M \in Nat
  BY MemoryFacts
<1>1. \A k \in 2..(M + 1) : f[k] = IF BlankAt(k - 1) THEN f[k - 1] ELSE k
  BY DEF Backs
<1> SUFFICES ASSUME R # {} PROVE FALSE
  OBVIOUS
<1>2. R \in SUBSET Nat
  BY <1>0
<1>3. PICK k \in R : \A m \in R : k <= m
  <2> HIDE DEF R
  <2> QED
    BY <1>2, LeastNumber
<1>4. k \in 2..(M + 1) /\ ~LastSolid(k, f[k])
  OBVIOUS
<1>5. CASE BlankAt(k - 1)
  <2>1. k - 1 \in 2..(M + 1) /\ \A m : LastSolid(k - 1, m) => LastSolid(k, m)
    BY <1>4, <1>5, SolidSteps
  <2>2. f[k] = f[k - 1]
    BY <1>1, <1>4, <1>5
  <2>3. k - 1 \notin R
    BY <1>0, <1>3, <1>4
  <2>4. LastSolid(k - 1, f[k - 1])
    BY <2>1, <2>3
  <2> QED
    BY <1>4, <2>1, <2>2, <2>4
<1>6. CASE ~BlankAt(k - 1)
  <2>1. f[k] = k
    BY <1>1, <1>4, <1>6
  <2>2. LastSolid(k, k)
    BY <1>4, <1>6, SolidSteps
  <2> QED
    BY <1>4, <2>1, <2>2
<1> QED
  BY <1>5, <1>6

\* trim_whitespace puts the two loops together.
LEMMA TrimIs ==
  ASSUME TextType, NEW v, ~is_empty_view(v)
  PROVE  \E f, g : /\ Fronts(f) /\ Backs(g)
                   /\ trim_whitespace(v) =
                        <<f[v[1]], IF g[v[2]] < f[v[1]] THEN f[v[1]] ELSE g[v[2]]>>
<1> DEFINE h == CHOOSE f : Fronts(f)
           l == CHOOSE f : Backs(f)
<1>1. Fronts(h) /\ Backs(l)
  BY TrimLoopsExist
<1>2. trim_whitespace(v) = <<h[v[1]], IF l[v[2]] < h[v[1]] THEN h[v[1]] ELSE l[v[2]]>>
  BY DEF trim_whitespace, Fronts, Backs, BlankAt
<1> HIDE DEF h, l
<1> QED
  BY <1>1, <1>2

\* Content-Length values lose the blanks around them and nothing else
\* (trim_whitespace), whatever bytes the line holds: the loops, which do not
\* look at the ends of the view, stop at the colon and at the CR.
THEOREM ValuesAreTrimmed == Spec => []ValueTrimmed
<1>1. TextType => ValueTrimmed
  <2> SUFFICES ASSUME TextType PROVE ValueTrimmed
    OBVIOUS
  <2> DEFINE n == Len(text)
             solid == {k \in 1..n : ~is_whitespace(text[k])}
             t == trim_whitespace(ValueView)
  <2>1. /\ n \in Nat /\ Len(Memory) = n + 2
        /\ ~BlankAt(1) /\ ~BlankAt(n + 2)
        /\ \A k \in 1..n : BlankAt(k + 1) <=> k \notin solid
    BY MemoryFacts
  <2>2. ValueView = <<2, n + 2>> /\ ValueView[1] = 2 /\ ValueView[2] = n + 2
    BY DEF ValueView, create_view
  <2>3. CASE n = 0
    <3>1. is_empty_view(ValueView)
      BY <2>1, <2>2, <2>3 DEF is_empty_view
    <3>2. t = ValueView
      BY <3>1 DEF trim_whitespace
    <3>3. solid = {}
      BY <2>3
    <3> QED
      BY <3>1, <3>2, <3>3 DEF ValueTrimmed
  <2>4. CASE n # 0
    <3>1. ~is_empty_view(ValueView)
      BY <2>1, <2>2, <2>4 DEF is_empty_view
    <3>2. PICK f, g : /\ Fronts(f) /\ Backs(g)
                      /\ t = <<f[2], IF g[n + 2] < f[2] THEN f[2] ELSE g[n + 2]>>
      <4> HIDE DEF n
      <4> QED
        BY <2>2, <3>1, TrimIs
    <3> DEFINE a == f[2]
               b == g[n + 2]
    <3>3. NextSolid(2, a) /\ LastSolid(n + 2, b)
      <4>1. 2 \in 1..Len(Memory) /\ n + 2 \in 2..(Len(Memory) + 1)
        BY <2>1
      <4> QED
        BY <3>2, <4>1, FrontStops, BackStops
    <3>4. t = <<a, IF b < a THEN a ELSE b>>
      BY <3>2
    <3> HIDE DEF a, b, n, t, solid
    <3>5. a \in 2..(n + 2) /\ ~BlankAt(a) /\ \A i \in 2..(a - 1) : BlankAt(i)
      BY <2>1, <3>3 DEF NextSolid
    <3>6. b \in 2..(n + 2) /\ ~BlankAt(b - 1) /\ \A i \in b..((n + 2) - 1) : BlankAt(i)
      BY <3>3 DEF LastSolid
    <3>7. solid \in SUBSET (1..n)
      BY DEF solid
    <3>8. \A k \in solid : a <= k + 1 /\ k + 2 <= b
      <4> SUFFICES ASSUME NEW k \in solid PROVE a <= k + 1 /\ k + 2 <= b
        OBVIOUS
      <4>1. k \in 1..n /\ ~BlankAt(k + 1)
        BY <2>1, <3>7
      <4>2. k + 1 \notin 2..(a - 1) /\ k + 1 \notin b..((n + 2) - 1)
        BY <3>5, <3>6, <4>1
      <4> QED
        BY <2>1, <3>5, <3>6, <4>1, <4>2
    <3>9. CASE solid = {}
      <4>1. a = n + 2
        <5> SUFFICES ASSUME a # n + 2 PROVE FALSE
          OBVIOUS
        <5>1. a - 1 \in 1..n /\ (a - 1) + 1 = a
          BY <2>1, <3>5
        <5> QED
          BY <2>1, <3>5, <3>9, <5>1
      <4>2. t[1] >= t[2]
        BY <2>1, <3>4, <3>6, <4>1
      <4> QED
        BY <3>9, <4>2 DEF ValueTrimmed, is_empty_view, t, solid, n
    <3>10. CASE solid # {}
      <4>1. PICK k \in solid : TRUE
        BY <3>10
      <4>2. a <= k + 1 /\ k + 2 <= b /\ k \in 1..n
        BY <3>7, <3>8
      <4>3. a - 1 \in solid
        <5>1. a - 1 \in 1..n /\ (a - 1) + 1 = a
          BY <2>1, <3>5, <4>2
        <5> QED
          BY <2>1, <3>5, <5>1
      <4>4. b - 2 \in solid
        <5>1. b - 2 \in 1..n /\ (b - 2) + 1 = b - 1
          BY <2>1, <3>6, <4>2
        <5> QED
          BY <2>1, <3>6, <5>1
      <4>5. Min(solid) = a - 1
        <5>1. \A m \in solid : a - 1 <= m
          BY <2>1, <3>5, <3>7, <3>8
        <5>2. \A m \in solid : (\A q \in solid : m <= q) => m = a - 1
          BY <2>1, <3>5, <3>7, <4>3, <5>1
        <5> QED
          BY <4>3, <5>1, <5>2 DEF Min
      <4>6. Max(solid) = b - 2
        <5>1. \A m \in solid : m <= b - 2
          BY <2>1, <3>6, <3>7, <3>8
        <5>2. \A m \in solid : (\A q \in solid : m >= q) => m = b - 2
          BY <2>1, <3>6, <3>7, <4>4, <5>1
        <5>3. \A m \in solid : b - 2 >= m
          BY <2>1, <3>6, <3>7, <5>1
        <5> QED
          BY <4>4, <5>2, <5>3 DEF Max
      <4>7. /\ ~(b < a)
            /\ (a - 1) + 1 = a /\ (b - 2) + 2 = b
        BY <2>1, <3>5, <3>6, <4>2
      <4>8. t = <<Min(solid) + 1, Max(solid) + 2>>
        BY <3>4, <4>5, <4>6, <4>7
      <4> QED
        BY <3>10, <4>8 DEF ValueTrimmed, t, solid, n
    <3> QED
      BY <3>9, <3>10
  <2> QED
    BY <2>3, <2>4
<1> QED
  BY <1>1, TextTypeHolds, PTL

-----------------------------------------------------------------------------
(***************************************************************************)
(* Fields of a line.  A view holds a text when it has its length and its   *)
(* bytes; what the routines do with a view they do with what it holds.     *)
(***************************************************************************)
Holds(v, s) ==
  /\ v[1] \in Nat /\ v[2] = v[1] + Len(s)
  /\ \A k \in 1..Len(s) : Memory[v[1] + (k - 1)] = s[k]

\* Where a scan for a blank stops.
BlankStop(s, i, p) ==
  \/ p = 0 /\ \A k \in i..Len(s) : s[k] # Blank
  \/ p \in i..Len(s) /\ s[p] = Blank /\ \A k \in i..(p - 1) : s[k] # Blank

\* find_delim with a blank for a delimiter finds the first one.
LEMMA FindsBlank ==
  ASSUME NEW s, Len(s) \in Nat
  PROVE  BlankStop(s, 1, find_delim(s, <<Blank>>))
<1> DEFINE n == Len(s)
           d == <<Blank>>
<1>1. Len(d) = 1 /\ d[1] = Blank /\ 1 \in 1..Len(d)
  OBVIOUS
<1> HIDE DEF d
<1>2. PICK f : Scans(f, s, d, 1) /\ find_delim(s, d) = f[1][1]
  BY FindIs
<1> DEFINE S == {i \in 1..(n + 1) : BlankStop(s, i, f[i][1])}
<1>3. n + 1 \in S
  <2>1. n + 1 \in 1..(Len(s) + 1) /\ n + 1 > Len(s) /\ (n + 1)..Len(s) = {}
    OBVIOUS
  <2>2. f[n + 1][1] = 0
    BY <1>1, <1>2, <2>1 DEF Scans, Row
  <2> QED
    BY <2>1, <2>2 DEF BlankStop
<1>4. ASSUME NEW i \in 1..n, i + 1 \in S PROVE i \in S
  <2>1. i \in 1..(Len(s) + 1) /\ ~(i > Len(s))
    OBVIOUS
  <2>2. f[i][1] = IF s[i] = Blank THEN i ELSE f[i + 1][1]
    BY <1>1, <1>2, <2>1 DEF Scans, Row
  <2>3. BlankStop(s, i + 1, f[i + 1][1])
    BY <1>4
  <2>4. CASE s[i] = Blank
    BY <2>1, <2>2, <2>4 DEF BlankStop
  <2>5. CASE s[i] # Blank
    <3>1. f[i][1] = f[i + 1][1]
      BY <2>2, <2>5
    <3>2. \A p : \A k \in i..p : k = i \/ k \in (i + 1)..p
      OBVIOUS
    <3>3. \A p \in (i + 1)..Len(s) : p \in i..Len(s)
      OBVIOUS
    <3>4. BlankStop(s, i, f[i + 1][1])
      BY <2>3, <2>5, <3>2, <3>3 DEF BlankStop
    <3> QED
      BY <2>1, <3>1, <3>4
  <2> QED
    BY <2>4, <2>5
<1>5. \A i \in 1..(n + 1) : i \in S
  <2> HIDE DEF S
  <2> QED
    BY <1>3, <1>4, Downward
<1>6. 1 \in 1..(n + 1)
  OBVIOUS
<1> QED
  BY <1>2, <1>5, <1>6 DEF d

\* The part of the text from place a on.
LEMMA TailFacts ==
  ASSUME TextType, NEW a \in 1..(Len(text) + 1), NEW b \in (a - 1)..Len(text)
  PROVE  /\ SubSeq(text, a, b) \in Seq(Alphabet)
         /\ Len(SubSeq(text, a, b)) = (b - a) + 1
         /\ \A k \in 1..((b - a) + 1) : SubSeq(text, a, b)[k] = text[a + (k - 1)]
<1>1. text \in Seq(Alphabet) /\ Len(text) \in Nat
  BY DEF TextType
<1>2. CASE a <= b
  <2>1. /\ SubSeq(text, a, b) \in Seq(Alphabet)
        /\ Len(SubSeq(text, a, b)) = (b - a) + 1
        /\ \A k \in 1..((b - a) + 1) : SubSeq(text, a, b)[k] = text[a + k - 1]
    BY <1>1, <1>2, SubSeqProperties
  <2>2. \A k \in Int : a + k - 1 = a + (k - 1)
    BY <1>1
  <2> QED
    BY <2>1, <2>2
<1>3. CASE ~(a <= b)
  <2>1. b - a + 1 = 0
    BY <1>1, <1>3
  <2>2. SubSeq(text, a, b) = <<>>
    BY <1>1, <1>3, SubSeqProperties
  <2> QED
    BY <1>1, <2>1, <2>2
<1> QED
  BY <1>2, <1>3

\* BlankFrom gives the place behind the first blank from a on.
LEMMA BlankFromIs ==
  ASSUME TextType, NEW a \in 1..(Len(text) + 1)
  PROVE  \/ BlankFrom(a + 1) = 0 /\ \A k \in a..Len(text) : text[k] # Blank
         \/ \E p \in a..Len(text) :
              BlankFrom(a + 1) = p + 2 /\ text[p] = Blank /\ \A k \in a..(p - 1) : text[k] # Blank
<1> DEFINE n == Len(text)
           s == SubSeq(text, a, n)
           q == find_delim(s, <<Blank>>)
<1>1. n \in Nat /\ n \in (a - 1)..n
  BY DEF TextType
<1>2. Len(s) = (n - a) + 1 /\ \A k \in 1..((n - a) + 1) : s[k] = text[a + (k - 1)]
  BY <1>1, TailFacts
<1>3. Len(s) \in Nat
  BY <1>1, <1>2
<1>4. BlankFrom(a + 1) = IF q = 0 THEN 0 ELSE (a + 1) + q
  <2>1. (a + 1) - 1 = a
    BY <1>1
  <2> QED
    BY <2>1 DEF BlankFrom
<1> HIDE DEF s, n
<1>5. BlankStop(s, 1, q)
  BY <1>3, FindsBlank
<1> HIDE DEF q
<1>6. ASSUME NEW k \in a..n PROVE text[k] = s[(k - a) + 1] /\ (k - a) + 1 \in 1..Len(s)
  <2>1. (k - a) + 1 \in 1..((n - a) + 1) /\ a + (((k - a) + 1) - 1) = k
    BY <1>1
  <2> QED
    BY <1>2, <2>1
<1>7. CASE q = 0 /\ \A k \in 1..Len(s) : s[k] # Blank
  <2>1. \A k \in a..n : text[k] # Blank
    BY <1>6, <1>7
  <2> QED
    BY <1>4, <1>7, <2>1 DEF n
<1>8. CASE q \in 1..Len(s) /\ s[q] = Blank /\ \A k \in 1..(q - 1) : s[k] # Blank
  <2> DEFINE p == a + (q - 1)
  <2>0. q \in 1..((n - a) + 1)
    BY <1>2, <1>8
  <2>1. p \in a..n /\ (a + 1) + q = p + 2 /\ q # 0
    BY <1>1, <2>0
  <2>2. text[p] = Blank
    BY <1>2, <1>8, <2>0
  <2>3. ASSUME NEW k \in a..(p - 1) PROVE text[k] # Blank
    <3>1. k \in a..n /\ (k - a) + 1 \in 1..(q - 1)
      BY <1>1, <2>0
    <3> QED
      BY <1>6, <1>8, <3>1
  <2>4. BlankFrom(a + 1) = p + 2
    BY <1>4, <2>1
  <2> HIDE DEF p
  <2> QED
    BY <2>1, <2>2, <2>3, <2>4 DEF n
<1> QED
  BY <1>5, <1>7, <1>8 DEF BlankStop

\* A field that ends with the first blank behind its start loses that blank.
LEMMA FieldTrimmed ==
  ASSUME TextType, NEW a \in 1..Len(text), NEW p \in a..Len(text), text[p] = Blank,
         \A k \in a..(p - 1) : text[k] # Blank
  PROVE  Holds(trim_whitespace(create_view(a + 1, p + 2)), SubSeq(text, a, p - 1))
<1> DEFINE n == Len(text)
           v == create_view(a + 1, p + 2)
           t == trim_whitespace(v)
           s == SubSeq(text, a, p - 1)
<1>1. /\ n \in Nat /\ Len(Memory) = n + 2
      /\ \A k \in 1..n : BlankAt(k + 1) <=> text[k] = Blank
  BY MemoryFacts DEF is_whitespace
<1>2. v[1] = a + 1 /\ v[2] = p + 2
  BY DEF create_view
<1>3. ~is_empty_view(v)
  <2>1. ~(a + 1 >= p + 2)
    BY <1>1
  <2> QED
    BY <1>2, <2>1 DEF is_empty_view
<1> HIDE DEF v
<1>4. PICK f, g : /\ Fronts(f) /\ Backs(g)
                  /\ t = <<f[a + 1], IF g[p + 2] < f[a + 1] THEN f[a + 1] ELSE g[p + 2]>>
  BY <1>2, <1>3, TrimIs
<1> DEFINE x == f[a + 1]
           y == g[p + 2]
<1>5. NextSolid(a + 1, x) /\ LastSolid(p + 2, y)
  <2>1. a + 1 \in 1..Len(Memory) /\ p + 2 \in 2..(Len(Memory) + 1)
    BY <1>1
  <2> QED
    BY <1>4, <2>1, FrontStops, BackStops
<1>6. t = <<x, IF y < x THEN x ELSE y>>
  BY <1>4
<1>7. p - 1 \in (a - 1)..n /\ (p - 1) - a + 1 = p - a /\ a \in 1..(n + 1)
  BY <1>1
<1>8. Len(s) = p - a /\ \A k \in 1..(p - a) : s[k] = text[a + (k - 1)]
  <2>1. /\ Len(s) = ((p - 1) - a) + 1
        /\ \A k \in 1..(((p - 1) - a) + 1) : s[k] = text[a + (k - 1)]
    BY <1>7, TailFacts
  <2> QED
    BY <1>7, <2>1
<1> HIDE DEF x, y, t, s, n
<1>9. x \in (a + 1)..(n + 2) /\ ~BlankAt(x) /\ \A i \in (a + 1)..(x - 1) : BlankAt(i)
  BY <1>1, <1>5 DEF NextSolid
<1>10. y \in 2..(p + 2) /\ ~BlankAt(y - 1) /\ \A i \in y..((p + 2) - 1) : BlankAt(i)
  BY <1>5 DEF LastSolid
<1>11. BlankAt(p + 1)
  <2>1. p \in 1..n
    BY <1>1 DEF n
  <2> QED
    BY <1>1, <2>1
<1>12. CASE p = a
  <2>1. x # a + 1
    BY <1>9, <1>11, <1>12
  <2>2. y <= x /\ x \in Nat /\ Len(s) = 0
    BY <1>1, <1>8, <1>9, <1>10, <1>12, <2>1
  <2>3. t = <<x, x>>
    BY <1>1, <1>6, <1>9, <1>10, <2>2
  <2>4. x = x + Len(s) /\ 1..Len(s) = {}
    BY <2>2
  <2>5. Holds(t, s)
    BY <2>2, <2>3, <2>4 DEF Holds
  <2> QED
    BY <2>5 DEF t, s, v
<1>13. CASE p # a
  <2>1. ~BlankAt(a + 1) /\ ~BlankAt(p)
    <3>1. a \in 1..n /\ a \in a..(p - 1) /\ p - 1 \in 1..n /\ p - 1 \in a..(p - 1)
          /\ (p - 1) + 1 = p
      BY <1>1, <1>13 DEF n
    <3> QED
      BY <1>1, <3>1
  <2>2. x = a + 1
    <3> SUFFICES ASSUME x # a + 1 PROVE FALSE
      OBVIOUS
    <3>1. a + 1 \in (a + 1)..(x - 1)
      BY <1>1, <1>9
    <3> QED
      BY <1>9, <2>1, <3>1
  <2>3. y = p + 1
    <3>1. y # p + 2
      <4>1. (p + 2) - 1 = p + 1
        BY <1>1 DEF n
      <4> QED
        BY <1>10, <1>11, <4>1
    <3>2. ASSUME y # p + 1 PROVE FALSE
      <4>1. p \in y..((p + 2) - 1)
        BY <1>10, <3>1, <3>2
      <4> QED
        BY <1>10, <2>1, <4>1
    <3> QED
      BY <3>2
  <2>4. ~(y < x) /\ a + 1 \in Nat /\ p + 1 = (a + 1) + (p - a)
    BY <1>1, <1>13, <2>2, <2>3
  <2>5. t = <<a + 1, p + 1>>
    BY <1>6, <2>2, <2>3, <2>4
  <2>6. ASSUME NEW k \in 1..(p - a) PROVE Memory[(a + 1) + (k - 1)] = s[k]
    <3>1. a + (k - 1) \in 1..n /\ (a + (k - 1)) + 1 = (a + 1) + (k - 1)
      BY <1>1 DEF n
    <3> QED
      BY <1>8, <3>1, MemoryFacts DEF n
  <2>7. t[1] = a + 1 /\ t[2] = p + 1 /\ Len(s) = p - a
    BY <1>8, <2>5
  <2>8. Holds(t, s)
    BY <2>4, <2>6, <2>7 DEF Holds
  <2> QED
    BY <2>8 DEF t, s, v
<1> QED
  BY <1>12, <1>13

\* A least and a greatest element are what Min and Max choose.
LEMMA MinMaxAre ==
  ASSUME NEW S \in SUBSET Int, NEW m \in S
  PROVE  /\ (\A k \in S : m <= k) => Min(S) = m
         /\ (\A k \in S : m >= k) => Max(S) = m
<1>1. ASSUME \A k \in S : m <= k PROVE Min(S) = m
  <2>1. \A x \in S : (\A y \in S : x <= y) => x = m
    BY <1>1
  <2> QED
    BY <1>1, <2>1 DEF Min
<1>2. ASSUME \A k \in S : m >= k PROVE Max(S) = m
  <2>1. \A x \in S : (\A y \in S : x >= y) => x = m
    BY <1>2
  <2> QED
    BY <1>2, <2>1 DEF Max
<1> QED
  BY <1>1, <1>2

\* What is left of a line loses the blanks around it.
LEMMA TailTrimmed ==
  ASSUME TextType, NEW a \in 1..(Len(text) + 1)
  PROVE  /\ Holds(trim_whitespace(create_view(a + 1, Len(text) + 2)),
                  Stripped(SubSeq(text, a, Len(text))))
         /\ Stripped(SubSeq(text, a, Len(text))) \in Seq(Alphabet)
<1> DEFINE n == Len(text)
           v == create_view(a + 1, n + 2)
           t == trim_whitespace(v)
           s == SubSeq(text, a, n)
           solid == {k \in DOMAIN s : ~is_whitespace(s[k])}
           r == Stripped(s)
<1>1. /\ n \in Nat /\ Len(Memory) = n + 2 /\ ~BlankAt(n + 2)
      /\ \A k \in 1..n : Memory[k + 1] = text[k]
      /\ \A k \in 1..n : BlankAt(k + 1) <=> is_whitespace(text[k])
  BY MemoryFacts
<1>2. v[1] = a + 1 /\ v[2] = n + 2
  BY DEF create_view
<1>3. n \in (a - 1)..n
  BY <1>1
<1>4. /\ s \in Seq(Alphabet) /\ Len(s) = (n - a) + 1 /\ DOMAIN s = 1..((n - a) + 1)
      /\ \A k \in 1..((n - a) + 1) : s[k] = text[a + (k - 1)]
  <2>1. s \in Seq(Alphabet)
    BY <1>3, TailFacts
  <2>2. /\ Len(s) = (n - a) + 1
        /\ \A k \in 1..((n - a) + 1) : s[k] = text[a + (k - 1)]
    BY <1>3, TailFacts
  <2> HIDE DEF s, n
  <2>3. DOMAIN s = 1..Len(s)
    BY <2>1, LenProperties
  <2> QED
    BY <2>1, <2>2, <2>3
<1>5. ASSUME NEW k \in 1..((n - a) + 1)
      PROVE  Memory[a + k] = s[k] /\ (BlankAt(a + k) <=> k \notin solid)
  <2>1. a + (k - 1) \in 1..n /\ (a + (k - 1)) + 1 = a + k
    BY <1>1
  <2>2. Memory[a + k] = s[k] /\ (BlankAt(a + k) <=> is_whitespace(s[k]))
    BY <1>1, <1>4, <2>1
  <2> QED
    BY <1>4, <2>2
<1>6. r = IF solid = {} THEN <<>> ELSE SubSeq(s, Min(solid), Max(solid))
  BY DEF Stripped
<1>7. solid \in SUBSET (1..((n - a) + 1))
  BY <1>4
<1>8. CASE a = n + 1
  <2>1. solid = {}
    BY <1>1, <1>7, <1>8
  <2>2. is_empty_view(v)
    BY <1>1, <1>2, <1>8 DEF is_empty_view
  <2>3. t = v
    BY <2>2 DEF trim_whitespace
  <2>4. r = <<>> /\ Len(r) = 0 /\ r \in Seq(Alphabet)
    BY <1>6, <2>1
  <2>5. n + 2 \in Nat /\ n + 2 = (n + 2) + 0 /\ 1..0 = {} /\ a + 1 = n + 2
    BY <1>1, <1>8
  <2> HIDE DEF t, r
  <2>6. Holds(t, r)
    BY <1>2, <2>3, <2>4, <2>5 DEF Holds
  <2> QED
    BY <2>4, <2>6 DEF t, r
<1>9. CASE a # n + 1
  <2>1. ~is_empty_view(v)
    <3>1. ~(a + 1 >= n + 2)
      BY <1>1, <1>9
    <3> QED
      BY <1>2, <3>1 DEF is_empty_view
  <2>2. PICK f, g : /\ Fronts(f) /\ Backs(g)
                    /\ t = <<f[a + 1], IF g[n + 2] < f[a + 1] THEN f[a + 1] ELSE g[n + 2]>>
    <3> HIDE DEF v, n
    <3> QED
      BY <1>2, <2>1, TrimIs
  <2> DEFINE x == f[a + 1]
             y == g[n + 2]
  <2>3. NextSolid(a + 1, x) /\ LastSolid(n + 2, y)
    <3>1. a + 1 \in 1..Len(Memory) /\ n + 2 \in 2..(Len(Memory) + 1)
      BY <1>1, <1>9
    <3> QED
      BY <2>2, <3>1, FrontStops, BackStops
  <2>4. t = <<x, IF y < x THEN x ELSE y>>
    BY <2>2
  <2> HIDE DEF x, y, t, s, n, v, solid, r
  <2>5. x \in (a + 1)..(n + 2) /\ ~BlankAt(x) /\ \A i \in (a + 1)..(x - 1) : BlankAt(i)
    BY <1>1, <2>3 DEF NextSolid
  <2>6. y \in 2..(n + 2) /\ ~BlankAt(y - 1) /\ \A i \in y..((n + 2) - 1) : BlankAt(i)
    BY <2>3 DEF LastSolid
  <2>7. a \in 1..n
    BY <1>1, <1>9 DEF n
  <2>8. CASE solid = {}
    <3>1. x = n + 2
      <4> SUFFICES ASSUME x # n + 2 PROVE FALSE
        OBVIOUS
      <4>1. x - a \in 1..((n - a) + 1) /\ a + (x - a) = x
        BY <1>1, <2>5, <2>7
      <4> QED
        BY <1>5, <2>5, <2>8, <4>1
    <3>2. t = <<n + 2, n + 2>>
      BY <1>1, <2>4, <2>6, <3>1
    <3>3. r = <<>> /\ Len(r) = 0 /\ r \in Seq(Alphabet)
      BY <1>6, <2>8
    <3>4. n + 2 \in Nat /\ n + 2 = (n + 2) + 0 /\ 1..0 = {}
      BY <1>1
    <3>5. Holds(t, r)
      BY <3>2, <3>3, <3>4 DEF Holds
    <3> QED
      BY <3>3, <3>5 DEF t, r, s, v, n
  <2>9. CASE solid # {}
    <3>1. ASSUME NEW k \in solid PROVE x <= a + k /\ a + k < y
      <4>1. k \in 1..((n - a) + 1) /\ ~BlankAt(a + k)
        BY <1>5, <1>7
      <4>2. a + k \notin (a + 1)..(x - 1) /\ a + k \notin y..((n + 2) - 1)
        BY <2>5, <2>6, <4>1
      <4> QED
        BY <1>1, <2>5, <2>6, <2>7, <4>1, <4>2
    <3>2. PICK k \in solid : TRUE
      BY <2>9
    <3>3. k \in 1..((n - a) + 1) /\ x <= a + k /\ a + k < y
      BY <1>7, <3>1
    <3> DEFINE lo == x - a
               hi == (y - 1) - a
    <3>4. lo \in solid
      <4>1. lo \in 1..((n - a) + 1) /\ a + lo = x
        BY <1>1, <2>5, <2>7, <3>3
      <4> QED
        BY <1>5, <2>5, <4>1
    <3>5. hi \in solid
      <4>1. hi \in 1..((n - a) + 1) /\ a + hi = y - 1
        BY <1>1, <2>6, <2>7, <3>3
      <4> QED
        BY <1>5, <2>6, <4>1
    <3>6. \A j \in solid : lo <= j /\ hi >= j
      <4> SUFFICES ASSUME NEW j \in solid PROVE lo <= j /\ hi >= j
        OBVIOUS
      <4>1. j \in 1..((n - a) + 1) /\ x <= a + j /\ a + j < y
        BY <1>7, <3>1
      <4> QED
        BY <1>1, <2>5, <2>6, <2>7, <4>1
    <3>7. lo \in 1..((n - a) + 1) /\ hi \in 1..((n - a) + 1)
      BY <1>7, <3>4, <3>5
    <3>8. lo <= hi /\ a + lo = x /\ y = x + ((hi - lo) + 1) /\ ~(y < x) /\ x \in Nat
      BY <1>1, <2>5, <2>6, <2>7, <3>3
    <3> HIDE DEF lo, hi
    <3>9. solid \in SUBSET Int
      BY <1>1, <1>7, <2>7
    <3>10. Min(solid) = lo /\ Max(solid) = hi
      BY <3>4, <3>5, <3>6, <3>9, MinMaxAre
    <3>11. r = SubSeq(s, lo, hi)
      BY <1>6, <2>9, <3>10
    <3>12. /\ r \in Seq(Alphabet) /\ Len(r) = (hi - lo) + 1
           /\ \A j \in 1..((hi - lo) + 1) : r[j] = s[lo + j - 1]
      <4>1. lo \in 1..Len(s) /\ hi \in lo..Len(s)
        BY <1>4, <3>7, <3>8
      <4>2. \A j \in 1..(hi - lo + 1) : SubSeq(s, lo, hi)[j] = s[lo + j - 1]
        BY <1>4, <4>1, SubSeqProperties
      <4>3. SubSeq(s, lo, hi) \in Seq(Alphabet) /\ Len(SubSeq(s, lo, hi)) = hi - lo + 1
        BY <1>4, <3>8, <4>1, SubSeqProperties
      <4> QED
        BY <3>11, <4>2, <4>3
    <3>13. ASSUME NEW j \in 1..((hi - lo) + 1) PROVE Memory[x + (j - 1)] = r[j]
      <4>1. lo + j - 1 \in 1..((n - a) + 1) /\ a + (lo + j - 1) = x + (j - 1)
        BY <1>1, <2>7, <3>7, <3>8
      <4> QED
        BY <1>5, <3>12, <4>1
    <3>14. t[1] = x /\ t[2] = y
      BY <2>4, <3>8
    <3>15. Holds(t, r)
      BY <3>8, <3>12, <3>13, <3>14 DEF Holds
    <3> QED
      BY <3>12, <3>15 DEF t, r, s, v, n
  <2> QED
    BY <2>8, <2>9
<1> QED
  BY <1>8, <1>9

\* The loop of compare_vs.
SameStep(f, v, b, i) ==
  IF v[1] + i = v[2] \/ i = Len(b) THEN v[1] + i = v[2] /\ i = Len(b)
  ELSE Memory[v[1] + i] = b[i + 1] /\ f[i + 1]

\* From place i on, v and b are the same.
SameFrom(v, b, i) ==
  v[1] + Len(b) = v[2] /\ \A j \in i..(Len(b) - 1) : Memory[v[1] + j] = b[j + 1]

\* One step of the loop.
LEMMA SameSteps ==
  ASSUME NEW v, NEW b, NEW i \in 0..Len(b), Len(b) \in Nat, v[1] \in Nat, v[2] \in Nat
  PROVE  SameFrom(v, b, i) <=>
           IF v[1] + i = v[2] \/ i = Len(b) THEN v[1] + i = v[2] /\ i = Len(b)
           ELSE Memory[v[1] + i] = b[i + 1] /\ SameFrom(v, b, i + 1)
<1> DEFINE x == v[1]
           y == v[2]
           n == Len(b)
<1>1. x \in Nat /\ y \in Nat /\ n \in Nat
  OBVIOUS
<1> HIDE DEF x, y, n
<1>2. CASE i = n
  <2>1. i..(n - 1) = {}
    BY <1>1, <1>2
  <2> QED
    BY <1>2, <2>1 DEF SameFrom, x, y, n
<1>3. CASE x + i = y /\ i # n
  <2>1. x + n # y
    BY <1>1, <1>3
  <2> QED
    BY <1>3, <2>1 DEF SameFrom, x, y, n
<1>4. CASE x + i # y /\ i # n
  <2>1. i \in i..(n - 1) /\ \A j \in i..(n - 1) : j = i \/ j \in (i + 1)..(n - 1)
    BY <1>1, <1>4 DEF n
  <2>2. \A j \in (i + 1)..(n - 1) : j \in i..(n - 1)
    BY <1>1
  <2>3. (\A j \in i..(n - 1) : Memory[x + j] = b[j + 1]) <=>
          /\ Memory[x + i] = b[i + 1]
          /\ \A j \in (i + 1)..(n - 1) : Memory[x + j] = b[j + 1]
    BY <2>1, <2>2
  <2> QED
    BY <1>4, <2>3 DEF SameFrom, x, y, n
<1> QED
  BY <1>2, <1>3, <1>4

\* compare_vs returns 0 when the view has the length and the bytes of b.
LEMMA CompareIs ==
  ASSUME NEW v, NEW b, Len(b) \in Nat, v[1] \in Nat, v[2] \in Nat
  PROVE  compare_vs(v, b) <=> SameFrom(v, b, 0)
<1> DEFINE n == Len(b)
           w == [i \in 0..n |-> SameFrom(v, b, i)]
           h == CHOOSE f : f = [i \in 0..n |-> SameStep(f, v, b, i)]
<1>1. w = [i \in 0..n |-> SameStep(w, v, b, i)]
  <2>1. ASSUME NEW i \in 0..n PROVE SameFrom(v, b, i) <=> SameStep(w, v, b, i)
    <3>1. CASE v[1] + i = v[2] \/ i = n
      <4>1. SameFrom(v, b, i) <=> v[1] + i = v[2] /\ i = Len(b)
        BY <3>1, SameSteps
      <4>2. SameStep(w, v, b, i) <=> v[1] + i = v[2] /\ i = Len(b)
        BY <3>1 DEF SameStep
      <4> QED
        BY <4>1, <4>2
    <3>2. CASE ~(v[1] + i = v[2] \/ i = n)
      <4>1. i + 1 \in 0..n
        BY <3>2
      <4>2. w[i + 1] <=> SameFrom(v, b, i + 1)
        BY <4>1
      <4>3. SameFrom(v, b, i) <=> Memory[v[1] + i] = b[i + 1] /\ SameFrom(v, b, i + 1)
        BY <3>2, SameSteps
      <4>4. SameStep(w, v, b, i) <=> Memory[v[1] + i] = b[i + 1] /\ w[i + 1]
        BY <3>2 DEF SameStep
      <4> QED
        BY <4>2, <4>3, <4>4
    <3> QED
      BY <3>1, <3>2
  <2>2. \A i : SameFrom(v, b, i) \in BOOLEAN /\ SameStep(w, v, b, i) \in BOOLEAN
    BY DEF SameFrom, SameStep
  <2>3. \A i \in 0..n : SameFrom(v, b, i) = SameStep(w, v, b, i)
    BY <2>1, <2>2
  <2> QED
    BY <2>3
<1>2. h = [i \in 0..n |-> SameStep(h, v, b, i)]
  <2> HIDE DEF w
  <2> QED
    BY <1>1
<1>3. compare_vs(v, b) = h[0]
  BY DEF compare_vs, SameStep
<1> HIDE DEF h, w
<1> DEFINE R == {i \in 0..n : ~(h[i] <=> SameFrom(v, b, i))}
<1>4. R = {}
  <2> SUFFICES ASSUME R # {} PROVE FALSE
    OBVIOUS
  <2>1. R \in SUBSET (0..n) /\ n \in Nat
    OBVIOUS
  <2>2. PICK i \in R : \A k \in R : k <= i
    <3> HIDE DEF R, n
    <3> QED
      BY <2>1, GreatestNumber
  <2>3. i \in 0..n /\ ~(h[i] <=> SameFrom(v, b, i))
    OBVIOUS
  <2>4. h[i] = SameStep(h, v, b, i)
    BY <1>2, <2>3
  <2>5. CASE v[1] + i = v[2] \/ i = n
    BY <2>3, <2>4, <2>5, SameSteps DEF SameStep
  <2>6. CASE ~(v[1] + i = v[2] \/ i = n)
    <3>1. i + 1 \in 0..n /\ ~(i + 1 <= i)
      BY <2>3, <2>6
    <3>2. i + 1 \notin R
      BY <2>2, <3>1
    <3>3. h[i + 1] <=> SameFrom(v, b, i + 1)
      BY <3>1, <3>2
    <3>4. SameFrom(v, b, i) <=> Memory[v[1] + i] = b[i + 1] /\ SameFrom(v, b, i + 1)
      BY <2>6, SameSteps
    <3>5. h[i] <=> Memory[v[1] + i] = b[i + 1] /\ h[i + 1]
      BY <2>4, <2>6 DEF SameStep
    <3> QED
      BY <2>3, <3>3, <3>4, <3>5
  <2> QED
    BY <2>5, <2>6
<1>5. 0 \in 0..n
  OBVIOUS
<1>6. h[0] <=> SameFrom(v, b, 0)
  BY <1>4, <1>5
<1> QED
  BY <1>3, <1>6

\* So it compares what the view holds.
LEMMA CompareHeld ==
  ASSUME NEW X, NEW Y, NEW v, NEW s \in Seq(X), NEW b \in Seq(Y), Holds(v, s)
  PROVE  compare_vs(v, b) <=> s = b
<1> DEFINE x == v[1]
           m == Len(s)
           n == Len(b)
<1>1. /\ x \in Nat /\ m \in Nat /\ n \in Nat /\ v[2] = x + m /\ v[2] \in Nat
      /\ \A k \in 1..m : Memory[x + (k - 1)] = s[k]
  BY DEF Holds
<1>2. compare_vs(v, b) <=> x + n = x + m /\ \A j \in 0..(n - 1) : Memory[x + j] = b[j + 1]
  <2>1. compare_vs(v, b) <=> SameFrom(v, b, 0)
    BY <1>1, CompareIs
  <2>2. SameFrom(v, b, 0) <=> x + n = v[2] /\ \A j \in 0..(n - 1) : Memory[x + j] = b[j + 1]
    BY DEF SameFrom
  <2> QED
    BY <1>1, <2>1, <2>2
<1>3. ASSUME s = b PROVE compare_vs(v, b)
  <2>1. ASSUME NEW j \in 0..(n - 1) PROVE Memory[x + j] = b[j + 1]
    <3>1. j + 1 \in 1..m /\ (j + 1) - 1 = j
      BY <1>1, <1>3
    <3> QED
      BY <1>1, <1>3, <3>1
  <2> QED
    BY <1>2, <1>3, <2>1
<1>4. ASSUME compare_vs(v, b) PROVE s = b
  <2>1. n = m
    BY <1>1, <1>2, <1>4
  <2>2. ASSUME NEW k \in 1..m PROVE s[k] = b[k]
    <3>1. k - 1 \in 0..(n - 1) /\ (k - 1) + 1 = k
      BY <1>1, <2>1
    <3> QED
      BY <1>1, <1>2, <1>4, <3>1
  <2>3. s \in Seq(X \cup Y) /\ b \in Seq(X \cup Y)
    OBVIOUS
  <2> QED
    BY <2>1, <2>2, <2>3, SeqEqual
<1> QED
  BY <1>3, <1>4

-----------------------------------------------------------------------------
(***************************************************************************)
(* parse_rl.                                                               *)
(***************************************************************************)

BytesFrom(s, c) == {s[k] : k \in c..Len(s)}

\* The bytes of a view from place c on.
LEMMA BytesHeld ==
  ASSUME NEW v, NEW s \in Seq(Alphabet), Holds(v, s), NEW c \in Nat \ {0},
         NEW d, d[1] = v[1] + (c - 1), d[2] = v[2]
  PROVE  ViewBytes(d) = BytesFrom(s, c)
<1> DEFINE x == v[1]
           m == Len(s)
           B == {s[k] : k \in c..m}
<1>1. x \in Nat /\ m \in Nat /\ v[2] = x + m /\ \A k \in 1..m : Memory[x + (k - 1)] = s[k]
  BY DEF Holds
<1>2. ViewBytes(d) = {Memory[k] : k \in (x + (c - 1))..((x + m) - 1)}
  BY <1>1 DEF ViewBytes
<1> HIDE DEF x, m
<1>3. ASSUME NEW e \in ViewBytes(d) PROVE e \in B
  <2>1. PICK k \in (x + (c - 1))..((x + m) - 1) : e = Memory[k]
    BY <1>2
  <2> DEFINE j == (k - x) + 1
  <2>2. j \in c..m /\ j \in 1..m /\ x + (j - 1) = k
    BY <1>1
  <2>3. e = s[j]
    BY <1>1, <2>1, <2>2
  <2> HIDE DEF j
  <2> QED
    BY <2>2, <2>3
<1>4. ASSUME NEW e \in B PROVE e \in ViewBytes(d)
  <2>1. PICK j \in c..m : e = s[j]
    OBVIOUS
  <2> DEFINE k == x + (j - 1)
  <2>2. k \in (x + (c - 1))..((x + m) - 1) /\ j \in 1..m
    BY <1>1
  <2>3. e = Memory[k]
    BY <1>1, <2>1, <2>2
  <2> HIDE DEF k
  <2> QED
    BY <1>2, <2>2, <2>3
<1>5. ViewBytes(d) = B
  <2> HIDE DEF B
  <2> QED
    BY <1>3, <1>4
<1> QED
  BY <1>5 DEF BytesFrom, m

\* get_method knows its methods, and calls a word that is none a method that
\* it does not implement.
LEMMA MethodHeld ==
  ASSUME NEW v, NEW s \in Seq(Alphabet), Holds(v, s)
  PROVE  get_method(v) =
           IF s \in SUPPORTED_METHODS THEN "OK"
           ELSE IF Len(s) <= MaxMethod /\ \A k \in 1..Len(s) : is_alpha(s[k])
                THEN "NOT_IMPLEMENTED" ELSE "BAD_REQUEST"
<1>1. \A m \in SUPPORTED_METHODS : compare_vs(v, m) <=> s = m
  BY MethodsAssumption, CompareHeld
<1>2. (\E m \in SUPPORTED_METHODS : compare_vs(v, m)) <=> s \in SUPPORTED_METHODS
  BY <1>1
<1>3. v[2] - v[1] = Len(s)
  <2>1. v[1] \in Nat /\ v[2] = v[1] + Len(s) /\ Len(s) \in Nat
    BY DEF Holds
  <2> QED
    BY <2>1
<1>4. ViewBytes(v) = BytesFrom(s, 1)
  <2>1. v[1] = v[1] + (1 - 1)
    BY DEF Holds
  <2> QED
    BY <2>1, BytesHeld
<1>5. validate_method(v) <=> Len(s) <= MaxMethod /\ \A k \in 1..Len(s) : is_alpha(s[k])
  <2>1. (\A c \in ViewBytes(v) : is_alpha(c)) <=> \A k \in 1..Len(s) : is_alpha(s[k])
    BY <1>4 DEF BytesFrom
  <2> QED
    BY <1>3, <2>1 DEF validate_method
<1> QED
  BY <1>2, <1>5 DEF get_method

\* A path: a slash, and then at least one character, all of them allowed.
Path(s) == Len(s) > 1 /\ s[1] = "/" /\ \A k \in 2..Len(s) : validate_path_char(s[k])

\* validate_path accepts paths.
LEMMA PathHeld ==
  ASSUME NEW v, NEW s \in Seq(Alphabet), Holds(v, s)
  PROVE  validate_path(v) <=> Path(s)
<1> DEFINE x == v[1]
           y == v[2]
           m == Len(s)
<1>1. /\ x \in Nat /\ m \in Nat /\ y = x + m
      /\ \A k \in 1..m : Memory[x + (k - 1)] = s[k]
  BY DEF Holds
<1>2. ViewBytes(create_view(x + 1, y)) = BytesFrom(s, 2)
  <2> DEFINE d == create_view(x + 1, y)
  <2>1. d[1] = x + (2 - 1) /\ d[2] = y
    BY <1>1 DEF create_view
  <2> HIDE DEF d
  <2>2. ViewBytes(d) = BytesFrom(s, 2)
    BY <2>1, BytesHeld
  <2> QED
    BY <2>2 DEF d
<1> HIDE DEF x, y, m
<1>3. (y - x >= 2) <=> m > 1
  BY <1>1
<1>4. m > 1 => Memory[x] = s[1]
  <2> SUFFICES ASSUME m > 1 PROVE Memory[x] = s[1]
    OBVIOUS
  <2>1. 1 \in 1..m /\ x + (1 - 1) = x
    BY <1>1
  <2> QED
    BY <1>1, <2>1
<1>5. (\A c \in ViewBytes(create_view(x + 1, y)) : validate_path_char(c))
        <=> \A k \in 2..m : validate_path_char(s[k])
  BY <1>2 DEF BytesFrom, m
<1>6. validate_path(v) <=>
        y - x >= 2 /\ Memory[x] = "/"
        /\ \A c \in ViewBytes(create_view(x + 1, y)) : validate_path_char(c)
  BY DEF validate_path, x, y
<1>7. Path(s) <=> m > 1 /\ s[1] = "/" /\ \A k \in 2..m : validate_path_char(s[k])
  BY DEF Path, m
<1> QED
  BY <1>3, <1>4, <1>5, <1>6, <1>7

\* validate_proto accepts the protocol.
LEMMA ProtoHeld ==
  ASSUME NEW v, NEW s \in Seq(Alphabet), Holds(v, s)
  PROVE  validate_proto(v) <=> s = Protocol
<1>1. compare_vs(v, Protocol) <=> s = Protocol
  BY ProtocolAssumption, CompareHeld
<1>2. s = Protocol => v[2] - v[1] >= Len(Protocol)
  <2>1. v[1] \in Nat /\ v[2] = v[1] + Len(s) /\ Len(s) \in Nat
    BY DEF Holds
  <2>2. v[2] - v[1] >= Len(s)
    BY <2>1
  <2> QED
    BY <2>2
<1> QED
  BY <1>1, <1>2 DEF validate_proto

\* The digits and their values.
LEMMA DigitFacts ==
  /\ Range(Digits) = {"0", "1", "2", "3", "4", "5", "6", "7", "8", "9"}
  /\ \A c \in Range(Digits) : DigitValue[c] \in 0..9 /\ Digits[DigitValue[c] + 1] = c
  /\ DigitValue["0"] = 0 /\ \A c \in Range(Digits) : DigitValue[c] = 0 => c = "0"
<1>1. DOMAIN Digits = 1..10
  BY DEF Digits
<1>2. \A i \in 1..10 : i \in {1, 2, 3, 4, 5, 6, 7, 8, 9, 10}
  OBVIOUS
<1>3. /\ Digits[1] = "0" /\ Digits[2] = "1" /\ Digits[3] = "2" /\ Digits[4] = "3"
      /\ Digits[5] = "4" /\ Digits[6] = "5" /\ Digits[7] = "6" /\ Digits[8] = "7"
      /\ Digits[9] = "8" /\ Digits[10] = "9"
  BY DEF Digits
<1>4. Range(Digits) = {"0", "1", "2", "3", "4", "5", "6", "7", "8", "9"}
  <2>1. \A c \in Range(Digits) : c \in {"0", "1", "2", "3", "4", "5", "6", "7", "8", "9"}
    BY <1>1, <1>2, <1>3 DEF Range
  <2>2. \A c \in {"0", "1", "2", "3", "4", "5", "6", "7", "8", "9"} : c \in Range(Digits)
    BY <1>1, <1>3 DEF Range
  <2> QED
    BY <2>1, <2>2
<1>5. ASSUME NEW c \in Range(Digits)
      PROVE  DigitValue[c] \in 0..9 /\ Digits[DigitValue[c] + 1] = c
  <2>1. PICK i \in 1..10 : c = Digits[i]
    BY <1>1 DEF Range
  <2>2. i - 1 \in 0..9 /\ (i - 1) + 1 = i
    OBVIOUS
  <2>3. \E v \in 0..9 : Digits[v + 1] = c
    BY <2>1, <2>2
  <2>4. DigitValue[c] = CHOOSE v \in 0..9 : Digits[v + 1] = c
    BY DEF DigitValue
  <2> QED
    BY <2>3, <2>4
<1>6. \A v \in 0..9 : Digits[v + 1] = "0" => v = 0
  <2>1. \A v \in 0..9 : v \in {0, 1, 2, 3, 4, 5, 6, 7, 8, 9}
    OBVIOUS
  <2> QED
    BY <1>3, <2>1
<1>7. DigitValue["0"] = 0
  BY <1>4, <1>5, <1>6
<1>8. \A c \in Range(Digits) : DigitValue[c] = 0 => c = "0"
  BY <1>3, <1>5
<1> QED
  BY <1>4, <1>5, <1>7, <1>8

\* A method has no blanks, and neither has a path.
LEMMA WordsHaveNoBlank ==
  /\ \A m \in SUPPORTED_METHODS : \A k \in 1..Len(m) : m[k] # Blank
  /\ \A s : Path(s) => \A k \in 1..Len(s) : s[k] # Blank
<1>1. ASSUME NEW m \in SUPPORTED_METHODS, NEW k \in 1..Len(m) PROVE m[k] # Blank
  <2>1. m \in Seq(Letters) /\ Blank \notin Letters
    BY MethodsAssumption
  <2>2. m[k] \in Letters
    BY <2>1, ElementOfSeq
  <2> QED
    BY <2>1, <2>2
<1>2. ~validate_path_char(Blank)
  <2>1. ~is_alpha(Blank)
    BY MethodsAssumption DEF is_alpha
  <2>2. ~is_numeric(Blank)
    BY DigitFacts DEF is_numeric, Blank
  <2> QED
    BY <2>1, <2>2 DEF validate_path_char, Blank
<1>3. ASSUME NEW s, Path(s), NEW k \in 1..Len(s) PROVE s[k] # Blank
  <2>1. k = 1 \/ k \in 2..Len(s)
    OBVIOUS
  <2>2. Blank # "/"
    BY DEF Blank
  <2> QED
    BY <1>2, <1>3, <2>1, <2>2 DEF Path
<1> QED
  BY <1>1, <1>3

\* What parse_rl accepts and what it calls not implemented, on any text.
LEMMA LineParsed ==
  ASSUME TextType
  PROVE  LET blanks == {k \in DOMAIN text : is_whitespace(text[k])}
             name == SubSeq(text, 1, Min(blanks) - 1)
         IN  /\ parse_rl = "OK" <=>
                  \E i, j \in blanks :
                    /\ SubSeq(text, 1, i - 1) \in SUPPORTED_METHODS
                    /\ Path(SubSeq(text, i + 1, j - 1))
                    /\ Stripped(SubSeq(text, j + 1, Len(text))) = Protocol
             /\ parse_rl = "NOT_IMPLEMENTED" <=>
                  /\ blanks # {} /\ name \notin SUPPORTED_METHODS
                  /\ Len(name) <= MaxMethod /\ \A k \in DOMAIN name : is_alpha(name[k])
<1> DEFINE n == Len(text)
           blanks == {k \in DOMAIN text : is_whitespace(text[k])}
           name == SubSeq(text, 1, Min(blanks) - 1)
           Line(i, j) == /\ SubSeq(text, 1, i - 1) \in SUPPORTED_METHODS
                         /\ Path(SubSeq(text, i + 1, j - 1))
                         /\ Stripped(SubSeq(text, j + 1, n)) = Protocol
           Word == Len(name) <= MaxMethod /\ \A k \in DOMAIN name : is_alpha(name[k])
           method == get_method(trim_whitespace(create_view(2, BlankFrom(2))))
           uri_end == BlankFrom(BlankFrom(2))
<1>1. n \in Nat /\ DOMAIN text = 1..n
  BY LenProperties DEF TextType
<1>2. blanks \in SUBSET (1..n) /\ \A k \in 1..n : k \in blanks <=> text[k] = Blank
  BY <1>1 DEF is_whitespace
<1>3. parse_rl =
        IF BlankFrom(2) = 0 THEN "BAD_REQUEST"
        ELSE IF method # "OK" THEN method
        ELSE IF /\ uri_end # 0
                /\ validate_path(trim_whitespace(create_view(BlankFrom(2), uri_end)))
                /\ validate_proto(trim_whitespace(create_view(uri_end, n + 2)))
             THEN "OK" ELSE "BAD_REQUEST"
  BY DEF parse_rl
<1>4. 1 \in 1..(n + 1) /\ 1 + 1 = 2
  BY <1>1
<1> SUFFICES /\ parse_rl = "OK" <=> \E i, j \in blanks : Line(i, j)
             /\ parse_rl = "NOT_IMPLEMENTED" <=>
                  blanks # {} /\ name \notin SUPPORTED_METHODS /\ Word
  OBVIOUS
<1> HIDE DEF blanks
<1>5. CASE BlankFrom(2) = 0 /\ \A k \in 1..n : text[k] # Blank
  <2>1. blanks = {}
    BY <1>2, <1>5
  <2> QED
    BY <1>3, <1>5, <2>1
<1>6. ASSUME NEW m \in 1..n, BlankFrom(2) = m + 2, text[m] = Blank,
             \A k \in 1..(m - 1) : text[k] # Blank
      PROVE  /\ parse_rl = "OK" <=> \E i, j \in blanks : Line(i, j)
             /\ parse_rl = "NOT_IMPLEMENTED" <=>
                  blanks # {} /\ name \notin SUPPORTED_METHODS /\ Word
  <2>1. m \in blanks /\ \A k \in blanks : m <= k
    <3>1. m \in blanks
      BY <1>2, <1>6
    <3>2. ASSUME NEW k \in blanks PROVE m <= k
      <4>1. k \in 1..n /\ text[k] = Blank
        BY <1>2
      <4>2. k \notin 1..(m - 1)
        BY <1>6, <4>1
      <4> QED
        BY <1>1, <4>1, <4>2
    <3> QED
      BY <3>1, <3>2
  <2>2. Min(blanks) = m
    <3>1. blanks \in SUBSET Int
      BY <1>1, <1>2
    <3> QED
      BY <2>1, <3>1, MinMaxAre
  <2>3. name = SubSeq(text, 1, m - 1)
    BY <2>2
  <2>4. /\ name \in Seq(Alphabet) /\ Len(name) = m - 1 /\ DOMAIN name = 1..Len(name)
        /\ \A k \in 1..(m - 1) : name[k] = text[k]
    <3>1. m - 1 \in (1 - 1)..n /\ ((m - 1) - 1) + 1 = m - 1
          /\ \A k \in 1..(m - 1) : 1 + (k - 1) = k
      BY <1>1
    <3>2. /\ name \in Seq(Alphabet) /\ Len(name) = ((m - 1) - 1) + 1
          /\ \A k \in 1..(((m - 1) - 1) + 1) : name[k] = text[1 + (k - 1)]
      BY <1>4, <2>3, <3>1, TailFacts
    <3>3. DOMAIN name = 1..Len(name)
      BY <3>2, LenProperties
    <3> QED
      BY <3>1, <3>2, <3>3
  <2>5. Holds(trim_whitespace(create_view(2, BlankFrom(2))), name)
    <3>1. 1 \in 1..n /\ m \in 1..n /\ 1 + 1 = 2
      BY <1>1
    <3>2. Holds(trim_whitespace(create_view(1 + 1, m + 2)), SubSeq(text, 1, m - 1))
      BY <1>6, <3>1, FieldTrimmed
    <3> QED
      BY <1>6, <2>3, <3>1, <3>2
  <2> HIDE DEF name
  <2>6. method = IF name \in SUPPORTED_METHODS THEN "OK"
                 ELSE IF Word THEN "NOT_IMPLEMENTED" ELSE "BAD_REQUEST"
    BY <2>4, <2>5, MethodHeld
  <2> HIDE DEF method
  <2>7. BlankFrom(2) # 0
    BY <1>1, <1>6
  <2>8. \A i, j \in blanks : Line(i, j) => i = m
    <3> SUFFICES ASSUME NEW i \in blanks, SubSeq(text, 1, i - 1) \in SUPPORTED_METHODS
                 PROVE  i = m
      OBVIOUS
    <3> DEFINE s == SubSeq(text, 1, i - 1)
    <3>1. i \in 1..n /\ m <= i
      BY <1>2, <2>1
    <3>2. i - 1 \in (1 - 1)..n /\ ((i - 1) - 1) + 1 = i - 1 /\ 1 + (m - 1) = m
      BY <1>1, <3>1
    <3>3. Len(s) = i - 1 /\ \A k \in 1..(i - 1) : s[k] = text[1 + (k - 1)]
      <4>1. /\ Len(s) = ((i - 1) - 1) + 1
            /\ \A k \in 1..(((i - 1) - 1) + 1) : s[k] = text[1 + (k - 1)]
        BY <1>4, <3>2, TailFacts
      <4> QED
        BY <3>2, <4>1
    <3> HIDE DEF s
    <3>4. \A k \in 1..Len(s) : s[k] # Blank
      BY WordsHaveNoBlank DEF s
    <3>5. ASSUME i # m PROVE FALSE
      <4>1. m \in 1..(i - 1)
        BY <1>1, <3>1, <3>5
      <4> QED
        BY <1>6, <3>2, <3>3, <3>4, <4>1
    <3> QED
      BY <3>5
  <2>9. CASE name \notin SUPPORTED_METHODS
    <3>1. ~\E i, j \in blanks : Line(i, j)
      BY <2>3, <2>8, <2>9
    <3>2. parse_rl = IF Word THEN "NOT_IMPLEMENTED" ELSE "BAD_REQUEST"
      BY <1>3, <2>6, <2>7, <2>9
    <3> HIDE DEF Line, Word
    <3> QED
      BY <2>1, <2>9, <3>1, <3>2
  <2>10. CASE name \in SUPPORTED_METHODS
    <3>1. method = "OK"
      BY <2>6, <2>10
    <3>2. \A j : Line(m, j) <=> /\ Path(SubSeq(text, m + 1, j - 1))
                                /\ Stripped(SubSeq(text, j + 1, n)) = Protocol
      BY <2>3, <2>10
    <3>3. m + 1 \in 1..(n + 1) /\ (m + 1) + 1 = m + 2
      BY <1>1
    <3>4. uri_end = BlankFrom((m + 1) + 1)
      BY <1>6, <3>3
    <3>5. ASSUME NEW j \in blanks, Line(m, j) PROVE j \in (m + 1)..n /\ Path(SubSeq(text, m + 1, j - 1))
      <4>1. j \in 1..n /\ Path(SubSeq(text, m + 1, j - 1))
        BY <1>2, <3>2, <3>5
      <4>2. j # m
        <5> SUFFICES ASSUME j = m PROVE FALSE
          OBVIOUS
        <5>1. SubSeq(text, m + 1, m - 1) = <<>>
          BY <1>1, SubSeqProperties DEF TextType
        <5> QED
          BY <4>1, <5>1 DEF Path
      <4>3. m <= j
        BY <2>1
      <4> QED
        BY <1>1, <4>1, <4>2, <4>3
    <3>6. CASE uri_end = 0 /\ \A k \in (m + 1)..n : text[k] # Blank
      <4>1. parse_rl = "BAD_REQUEST"
        BY <1>3, <2>7, <3>1, <3>6
      <4>2. ~\E j \in blanks : Line(m, j)
        <5> HIDE DEF Line
        <5>1. \A j \in blanks : j \in (m + 1)..n => text[j] # Blank
          BY <3>6
        <5>2. \A j \in blanks : text[j] = Blank
          BY <1>2
        <5> QED
          BY <3>5, <5>1, <5>2
      <4> HIDE DEF Line
      <4> QED
        BY <2>8, <2>10, <4>1, <4>2
    <3>7. ASSUME NEW u \in (m + 1)..n, uri_end = u + 2, text[u] = Blank,
                 \A k \in (m + 1)..(u - 1) : text[k] # Blank
          PROVE  (parse_rl = "OK" <=> \E i, j \in blanks : Line(i, j))
                 /\ parse_rl # "NOT_IMPLEMENTED"
      <4> DEFINE uri == SubSeq(text, m + 1, u - 1)
                 rest == SubSeq(text, u + 1, n)
      <4>1. u \in 1..n /\ u \in blanks /\ m + 1 \in 1..n /\ u + 1 \in 1..(n + 1)
            /\ (u + 1) + 1 = u + 2 /\ u + 2 # 0
        <5>1. u \in 1..n /\ m + 1 \in 1..n /\ u + 1 \in 1..(n + 1)
              /\ (u + 1) + 1 = u + 2 /\ u + 2 # 0
          BY <1>1
        <5> QED
          BY <1>2, <3>7, <5>1
      <4>2. Holds(trim_whitespace(create_view(m + 2, u + 2)), uri)
        <5>1. Holds(trim_whitespace(create_view((m + 1) + 1, u + 2)), uri)
          BY <3>7, <4>1, FieldTrimmed
        <5> QED
          BY <3>3, <5>1
      <4>3. uri \in Seq(Alphabet)
        <5>1. u - 1 \in ((m + 1) - 1)..n
          BY <1>1
        <5> QED
          BY <3>3, <5>1, TailFacts
      <4>4. /\ Holds(trim_whitespace(create_view(u + 2, n + 2)), Stripped(rest))
            /\ Stripped(rest) \in Seq(Alphabet)
        <5>1. /\ Holds(trim_whitespace(create_view((u + 1) + 1, n + 2)), Stripped(rest))
              /\ Stripped(rest) \in Seq(Alphabet)
          BY <4>1, TailTrimmed
        <5> QED
          BY <4>1, <5>1
      <4>5. validate_path(trim_whitespace(create_view(m + 2, u + 2))) <=> Path(uri)
        BY <4>2, <4>3, PathHeld
      <4>6. validate_proto(trim_whitespace(create_view(u + 2, n + 2))) <=>
              Stripped(rest) = Protocol
        BY <4>4, ProtoHeld
      <4>7. parse_rl = IF Line(m, u) THEN "OK" ELSE "BAD_REQUEST"
        <5>1. Line(m, u) <=> Path(uri) /\ Stripped(rest) = Protocol
          BY <3>2
        <5> HIDE DEF Line, uri, rest
        <5> QED
          BY <1>3, <1>6, <2>7, <3>1, <3>7, <4>1, <4>5, <4>6, <5>1
      <4>8. ASSUME NEW j \in blanks, Line(m, j) PROVE j = u
        <5>1. j \in (m + 1)..n /\ Path(SubSeq(text, m + 1, j - 1)) /\ text[j] = Blank
          BY <1>2, <3>5, <4>8
        <5>2. u <= j
          <6>1. j \notin (m + 1)..(u - 1)
            BY <3>7, <5>1
          <6> QED
            BY <1>1, <5>1, <6>1
        <5> DEFINE s == SubSeq(text, m + 1, j - 1)
        <5>3. j - 1 \in ((m + 1) - 1)..n /\ ((j - 1) - (m + 1)) + 1 = (j - 1) - m
          BY <1>1, <5>1
        <5>4. /\ Len(s) = (j - 1) - m
              /\ \A k \in 1..((j - 1) - m) : s[k] = text[(m + 1) + (k - 1)]
          <6>1. /\ Len(s) = ((j - 1) - (m + 1)) + 1
                /\ \A k \in 1..(((j - 1) - (m + 1)) + 1) : s[k] = text[(m + 1) + (k - 1)]
            BY <3>3, <5>3, TailFacts
          <6> QED
            BY <5>3, <6>1
        <5> HIDE DEF s
        <5>5. \A k \in 1..Len(s) : s[k] # Blank
          BY <5>1, WordsHaveNoBlank DEF s
        <5>6. ASSUME j # u PROVE FALSE
          <6>1. u - m \in 1..((j - 1) - m) /\ (m + 1) + ((u - m) - 1) = u
            BY <1>1, <5>1, <5>2, <5>6
          <6> QED
            BY <3>7, <5>4, <5>5, <6>1
        <5> QED
          BY <5>6
      <4> HIDE DEF Line
      <4>9. (\E i, j \in blanks : Line(i, j)) <=> Line(m, u)
        BY <2>1, <2>8, <4>1, <4>8
      <4> QED
        BY <4>7, <4>9
    <3>8. \/ uri_end = 0 /\ \A k \in (m + 1)..n : text[k] # Blank
          \/ \E u \in (m + 1)..n : /\ uri_end = u + 2 /\ text[u] = Blank
                                   /\ \A k \in (m + 1)..(u - 1) : text[k] # Blank
      BY <3>3, <3>4, BlankFromIs
    <3> HIDE DEF Line, Word, uri_end
    <3> QED
      BY <2>10, <3>6, <3>7, <3>8
  <2> QED
    BY <2>9, <2>10
<1>7. \/ BlankFrom(2) = 0 /\ \A k \in 1..n : text[k] # Blank
      \/ \E m \in 1..n : /\ BlankFrom(2) = m + 2 /\ text[m] = Blank
                         /\ \A k \in 1..(m - 1) : text[k] # Blank
  <2>1. \/ BlankFrom(1 + 1) = 0 /\ \A k \in 1..n : text[k] # Blank
        \/ \E m \in 1..n : /\ BlankFrom(1 + 1) = m + 2 /\ text[m] = Blank
                           /\ \A k \in 1..(m - 1) : text[k] # Blank
    BY <1>4, BlankFromIs
  <2> QED
    BY <1>4, <2>1
<1> HIDE DEF Line, Word, name
<1> QED
  BY <1>5, <1>6, <1>7

\* parse_rl accepts exactly the request lines: on every text, of any length, for
\* any methods and any protocol, it answers OK just when the text is a method,
\* one blank, a path, and blanks around the protocol, although its trimming
\* loops run across the ends of the fields; and 501 just when the text before
\* the first blank could be a method and is none.
THEOREM RequestLinesAreParsed == Spec => []RequestLineParsed
<1>1. TextType => RequestLineParsed
  BY LineParsed DEF RequestLineParsed, Path
<1> QED
  BY <1>1, TextTypeHolds, PTL

-----------------------------------------------------------------------------
(***************************************************************************)
(* parse_to_int and my_utoa.                                               *)
(***************************************************************************)

\* Induction from hi down to lo.
LEMMA DownFrom ==
  ASSUME NEW lo \in Int, NEW hi \in Int, lo <= hi, NEW S, hi \in S,
         \A k \in lo..(hi - 1) : k + 1 \in S => k \in S
  PROVE  \A k \in lo..hi : k \in S
<1> DEFINE n == hi - lo
           R == {i \in 1..(n + 1) : lo + (i - 1) \in S}
<1>1. n \in Nat /\ n + 1 \in 1..(n + 1) /\ lo + ((n + 1) - 1) = hi
  OBVIOUS
<1>2. n + 1 \in R
  BY <1>1
<1>3. ASSUME NEW i \in 1..n, i + 1 \in R PROVE i \in R
  <2>1. /\ i \in 1..(n + 1) /\ lo + (i - 1) \in lo..(hi - 1)
        /\ (lo + (i - 1)) + 1 = lo + ((i + 1) - 1)
    BY <1>1
  <2>2. lo + ((i + 1) - 1) \in S
    BY <1>3
  <2>3. lo + (i - 1) \in S
    BY <2>1, <2>2
  <2> QED
    BY <2>1, <2>3
<1>4. \A i \in 1..(n + 1) : i \in R
  <2> HIDE DEF R, n
  <2> QED
    BY <1>1, <1>2, <1>3, Downward
<1>5. ASSUME NEW k \in lo..hi PROVE k \in S
  <2>1. (k - lo) + 1 \in 1..(n + 1) /\ lo + (((k - lo) + 1) - 1) = k
    OBVIOUS
  <2>2. (k - lo) + 1 \in R
    BY <1>4, <2>1
  <2> QED
    BY <2>1, <2>2
<1> QED
  BY <1>5

\* Induction from 0 up to n.
LEMMA UpTo ==
  ASSUME NEW n \in Nat, NEW S, 0 \in S, \A i \in 1..n : i - 1 \in S => i \in S
  PROVE  \A i \in 0..n : i \in S
<1> DEFINE R == {i \in 0..n : i \notin S}
<1> SUFFICES ASSUME R # {} PROVE FALSE
  OBVIOUS
<1>1. R \in SUBSET Nat
  OBVIOUS
<1>2. PICK i \in R : \A k \in R : i <= k
  <2> HIDE DEF R
  <2> QED
    BY <1>1, LeastNumber
<1>3. i \in 0..n /\ i # 0 /\ i \notin S
  OBVIOUS
<1>4. i \in 1..n /\ i - 1 \in 0..n /\ ~(i <= i - 1)
  BY <1>3
<1>5. i - 1 \notin R
  BY <1>2, <1>4
<1>6. i - 1 \in S
  BY <1>4, <1>5
<1> QED
  BY <1>3, <1>4, <1>6

\* Two numbers that differ by a multiple of the width of ssize_t.
Width == 2 * (SSIZE_MAX + 1)
Congruent(a, b) == \E z \in Int : a = b + z * Width

\* The values of an ssize_t.
Signeds == -(SSIZE_MAX + 1)..SSIZE_MAX

\* Wrapping gives the congruent number that ssize_t can hold ...
LEMMA SignedCongruent ==
  ASSUME NEW x \in Int
  PROVE  Signed(x) \in Signeds /\ Congruent(Signed(x), x)
<1> DEFINE h == SSIZE_MAX
           w == 2 * (h + 1)
           m == x % w
           k == x \div w
<1>1. h \in Nat /\ w \in Nat \ {0} /\ w = 2 * (h + 1)
  BY SsizeAssumption
<1>2. Signed(x) = IF m > h THEN m - w ELSE m
  BY DEF Signed
<1>3. m \in 0..(w - 1) /\ k \in Int /\ x = w * k + m
  <2>1. \A a \in Int, b \in Nat \ {0} : a % b \in 0..(b - 1)
    OBVIOUS
  <2>2. \A a \in Int, b \in Nat \ {0} : a \div b \in Int /\ a = (b * (a \div b)) + (a % b)
    OBVIOUS
  <2> HIDE DEF w
  <2> QED
    BY <1>1, <2>1, <2>2
<1> HIDE DEF h, w, m, k
<1>4. Signed(x) \in -(h + 1)..h
  BY <1>1, <1>2, <1>3
<1>5. \A a, b \in Int : b = a * w => /\ m = (a * w + m) + (-a) * w
                                    /\ m - w = (a * w + m) + (-a - 1) * w
  BY <1>1, <1>3
<1>6. w * k = k * w /\ k * w \in Int /\ -k \in Int /\ -k - 1 \in Int
  BY <1>1, <1>3
<1>7. m = x + (-k) * w /\ m - w = x + (-k - 1) * w
  BY <1>3, <1>5, <1>6
<1>8. \E z \in Int : Signed(x) = x + z * w
  BY <1>2, <1>6, <1>7
<1> QED
  BY <1>4, <1>8 DEF Signeds, Congruent, Width, h, w

\* ... and the only one, so that what fits in ssize_t is what it is.
LEMMA SignedUnique ==
  ASSUME NEW x \in Int, NEW r \in Signeds, Congruent(r, x)
  PROVE  Signed(x) = r
<1>1. /\ SSIZE_MAX \in Nat /\ Width \in Nat \ {0} /\ Width = 2 * (SSIZE_MAX + 1)
      /\ r \in Int
  BY SsizeAssumption DEF Width, Signeds
<1>2. Signed(x) \in Signeds /\ Congruent(Signed(x), x)
  BY SignedCongruent
<1>3. PICK y \in Int : r = x + y * Width
  BY DEF Congruent
<1>4. PICK z \in Int : Signed(x) = x + z * Width
  BY <1>2 DEF Congruent
<1>5. r - Signed(x) < Width /\ Signed(x) - r < Width /\ Signed(x) \in Int
  BY <1>1, <1>2 DEF Signeds
<1>6. \A a, b \in Int, w \in Nat \ {0} : a * w - b * w < w /\ b * w - a * w < w => a = b
  <2> SUFFICES ASSUME NEW a \in Int, NEW b \in Int, NEW w \in Nat \ {0},
                      a * w - b * w < w, b * w - a * w < w
               PROVE  a = b
    OBVIOUS
  <2>1. \A c \in Int : c >= 1 => c * w >= w
    OBVIOUS
  <2>2. (a - b) * w = a * w - b * w /\ (b - a) * w = b * w - a * w
    OBVIOUS
  <2>3. ~(a - b >= 1) /\ ~(b - a >= 1)
    BY <2>1, <2>2
  <2> QED
    BY <2>3
<1>7. y * Width \in Int /\ z * Width \in Int
  BY <1>1
<1>8. y * Width - z * Width < Width /\ z * Width - y * Width < Width
  BY <1>1, <1>3, <1>4, <1>5, <1>7
<1>9. y = z
  BY <1>1, <1>6, <1>8
<1> QED
  BY <1>3, <1>4, <1>9

\* What fits in ssize_t is what it is.
LEMMA SignedFits == \A x \in 0..SSIZE_MAX : Signed(x) = x
<1> SUFFICES ASSUME NEW x \in 0..SSIZE_MAX PROVE Signed(x) = x
  OBVIOUS
<1>1. x \in Int /\ x \in Signeds /\ Width \in Int
  BY SsizeAssumption DEF Signeds, Width
<1>2. x = x + 0 * Width /\ 0 \in Int
  BY <1>1
<1>3. Congruent(x, x)
  BY <1>2 DEF Congruent
<1> QED
  BY <1>1, <1>3, SignedUnique

\* Where the loop of parse_to_int stands: p is the value of the digits that are
\* not yet read, v the whole number.  Sum and power may have wrapped, and are
\* right up to multiples of the width of ssize_t.
Reads(p, res, pow, v) ==
  res \in Signeds /\ pow \in Int /\ Congruent(p * pow + res, v)

\* One digit of parse_to_int.
LEMMA DigitAdded ==
  ASSUME NEW q \in Nat, NEW d \in 0..9, NEW res, NEW pow, NEW v \in Nat,
         NEW p, p = 10 * q + d, Reads(p, res, pow, v)
  PROVE  Reads(q, Signed(res + Signed(pow * d)), Signed(pow * 10), v)
<1>1. res \in Int /\ pow \in Int /\ d \in Int /\ q \in Int /\ Width \in Int
  BY SsizeAssumption DEF Reads, Signeds, Width
<1>2. pow * d \in Int /\ pow * 10 \in Int
  BY <1>1
<1> DEFINE a == Signed(pow * d)
           b == Signed(res + a)
           c == Signed(pow * 10)
<1>3. a \in Signeds /\ Congruent(a, pow * d) /\ c \in Signeds /\ Congruent(c, pow * 10)
  BY <1>2, SignedCongruent
<1>4. a \in Int /\ c \in Int
  BY <1>3, SsizeAssumption DEF Signeds
<1>5. b \in Signeds /\ Congruent(b, res + a)
  <2>1. res + a \in Int
    BY <1>1, <1>4
  <2> QED
    BY <2>1, SignedCongruent
<1> HIDE DEF a, b, c
<1>6. PICK z1 \in Int : a = pow * d + z1 * Width
  BY <1>3 DEF Congruent
<1>7. PICK z2 \in Int : b = (res + a) + z2 * Width
  BY <1>5 DEF Congruent
<1>8. PICK z3 \in Int : c = pow * 10 + z3 * Width
  BY <1>3 DEF Congruent
<1>9. PICK z \in Int : p * pow + res = v + z * Width
  BY DEF Reads, Congruent
<1>10. q * c + b = v + (((q * z3 + z1) + z2) + z) * Width
  <2>1. \A x, y, w, u, e, k1, k2, k3 \in Int :
           x * (y * 10 + k3 * w) + ((u + (y * e + k1 * w)) + k2 * w)
             = ((10 * x + e) * y + u) + ((x * k3 + k1) + k2) * w
    OBVIOUS
  <2>2. q * c + b = (p * pow + res) + ((q * z3 + z1) + z2) * Width
    BY <1>1, <1>6, <1>7, <1>8, <2>1
  <2>3. \A x, y, w, k \in Int : (x + k * w) + y * w = x + (y + k) * w
    OBVIOUS
  <2>4. (q * z3 + z1) + z2 \in Int /\ v \in Int
    BY <1>1
  <2> QED
    BY <1>1, <1>9, <2>2, <2>3, <2>4
<1>11. ((q * z3 + z1) + z2) + z \in Int
  BY <1>1
<1>12. Congruent(q * c + b, v)
  BY <1>10, <1>11 DEF Congruent
<1> QED
  BY <1>4, <1>5, <1>12 DEF Reads, a, b, c

\* The loop of parse_to_int.
LoopStep(f, t, k) ==
  IF k = t[2] THEN [res |-> 0, pow |-> 1]
  ELSE [res |-> Signed(f[k + 1].res + Signed(f[k + 1].pow * DigitValue[Memory[k]])),
        pow |-> Signed(f[k + 1].pow * 10)]
Loops(f, t) == f = [k \in t[1]..t[2] |-> LoopStep(f, t, k)]

\* It is well defined.
LEMMA LoopExists ==
  ASSUME NEW t, t[1] \in Nat, t[2] \in Nat, t[1] <= t[2]
  PROVE  \E f : Loops(f, t)
<1> DEFINE x == t[1]
           y == t[2]
           S == {k \in x..y : \E f : \A i \in k..y : f[i] = LoopStep(f, t, i)}
<1>1. y \in S
  <2> DEFINE f == [i \in x..y |-> [res |-> 0, pow |-> 1]]
  <2>1. y \in x..y /\ \A i \in y..y : i = y
    OBVIOUS
  <2>2. f[y] = LoopStep(f, t, y)
    BY <2>1 DEF LoopStep
  <2> HIDE DEF f
  <2> QED
    BY <2>1, <2>2
<1>2. ASSUME NEW k \in x..(y - 1), k + 1 \in S PROVE k \in S
  <2>1. PICK f : \A i \in (k + 1)..y : f[i] = LoopStep(f, t, i)
    BY <1>2
  <2> DEFINE g == [i \in x..y |-> IF i = k THEN LoopStep(f, t, k) ELSE f[i]]
  <2>2. k \in x..y /\ \A i \in k..y : i = k \/ i \in (k + 1)..y
    OBVIOUS
  <2>3. ASSUME NEW i \in k..y PROVE g[i] = LoopStep(g, t, i)
    <3>1. i \in x..y /\ i + 1 # k /\ (i # y => i + 1 \in x..y)
      OBVIOUS
    <3>2. i # y => g[i + 1] = f[i + 1]
      BY <3>1
    <3>3. LoopStep(g, t, i) = LoopStep(f, t, i)
      <4> HIDE DEF g
      <4> QED
        BY <3>2 DEF LoopStep
    <3>4. g[i] = LoopStep(f, t, i)
      BY <2>1, <2>2, <3>1
    <3> QED
      BY <3>3, <3>4
  <2> HIDE DEF g
  <2> QED
    BY <2>2, <2>3
<1>3. x \in S
  <2>0. x \in Int /\ y \in Int /\ x <= y /\ x \in x..y
    OBVIOUS
  <2>1. \A k \in x..y : k \in S
    <3> HIDE DEF S, x, y
    <3> QED
      BY <1>1, <1>2, <2>0, DownFrom
  <2> QED
    BY <2>0, <2>1
<1>4. PICK f : \A i \in x..y : f[i] = LoopStep(f, t, i)
  BY <1>3
<1> DEFINE g == [i \in x..y |-> f[i]]
<1>5. ASSUME NEW i \in x..y PROVE f[i] = LoopStep(g, t, i)
  <2>1. i # y => i + 1 \in x..y
    OBVIOUS
  <2>2. i # y => g[i + 1] = f[i + 1]
    BY <2>1
  <2>3. LoopStep(g, t, i) = LoopStep(f, t, i)
    <3> HIDE DEF g
    <3> QED
      BY <2>2 DEF LoopStep
  <2> QED
    BY <1>4, <2>3
<1>6. g = [i \in x..y |-> LoopStep(g, t, i)]
  BY <1>5
<1>7. Loops(g, t)
  <2> HIDE DEF g
  <2> QED
    BY <1>6 DEF Loops
<1> QED
  BY <1>7

\* The value of the digits of b, as NumberParsed defines it.
ValueStep(f, b, k) == IF k = 0 THEN 0 ELSE 10 * f[k - 1] + DigitValue[b[k]]
Values(f, b) == f = [k \in 0..Len(b) |-> ValueStep(f, b, k)]

\* It is well defined.
LEMMA ValueExists ==
  ASSUME NEW b, Len(b) \in Nat
  PROVE  \E f : Values(f, b)
<1> DEFINE n == Len(b)
           S == {k \in 0..n : \E f : \A i \in 0..k : f[i] = ValueStep(f, b, i)}
<1>1. 0 \in S
  <2> DEFINE f == [i \in 0..n |-> 0]
  <2>1. 0 \in 0..n /\ \A i \in 0..0 : i = 0
    OBVIOUS
  <2>2. f[0] = ValueStep(f, b, 0)
    BY <2>1 DEF ValueStep
  <2> HIDE DEF f
  <2> QED
    BY <2>1, <2>2
<1>2. ASSUME NEW k \in 1..n, k - 1 \in S PROVE k \in S
  <2>1. PICK f : \A i \in 0..(k - 1) : f[i] = ValueStep(f, b, i)
    BY <1>2
  <2> DEFINE g == [i \in 0..n |-> IF i = k THEN ValueStep(f, b, k) ELSE f[i]]
  <2>2. k \in 0..n /\ \A i \in 0..k : i = k \/ i \in 0..(k - 1)
    OBVIOUS
  <2>3. ASSUME NEW i \in 0..k PROVE g[i] = ValueStep(g, b, i)
    <3>1. i \in 0..n /\ i - 1 # k /\ (i # 0 => i - 1 \in 0..n)
      OBVIOUS
    <3>2. i # 0 => g[i - 1] = f[i - 1]
      BY <3>1
    <3>3. ValueStep(g, b, i) = ValueStep(f, b, i)
      <4> HIDE DEF g
      <4> QED
        BY <3>2 DEF ValueStep
    <3>4. g[i] = ValueStep(f, b, i)
      BY <2>1, <2>2, <3>1
    <3> QED
      BY <3>3, <3>4
  <2> HIDE DEF g
  <2> QED
    BY <2>2, <2>3
<1>3. n \in S
  <2>1. \A k \in 0..n : k \in S
    <3> HIDE DEF S
    <3> QED
      BY <1>1, <1>2, UpTo
  <2> QED
    BY <2>1
<1>4. PICK f : \A i \in 0..n : f[i] = ValueStep(f, b, i)
  BY <1>3
<1> DEFINE g == [i \in 0..n |-> f[i]]
<1>5. ASSUME NEW i \in 0..n PROVE f[i] = ValueStep(g, b, i)
  <2>1. i # 0 => i - 1 \in 0..n
    OBVIOUS
  <2>2. i # 0 => g[i - 1] = f[i - 1]
    BY <2>1
  <2>3. ValueStep(g, b, i) = ValueStep(f, b, i)
    <3> HIDE DEF g
    <3> QED
      BY <2>2 DEF ValueStep
  <2> QED
    BY <1>4, <2>3
<1>6. g = [i \in 0..n |-> ValueStep(g, b, i)]
  BY <1>5
<1>7. Values(g, b)
  <2> HIDE DEF g
  <2> QED
    BY <1>6 DEF Values
<1> QED
  BY <1>7

\* The values of the prefixes of a number are numbers.
LEMMA ValueTypes ==
  ASSUME NEW b, Len(b) \in Nat, NEW f, Values(f, b), \A k \in 1..Len(b) : is_numeric(b[k])
  PROVE  /\ f[0] = 0
         /\ \A k \in 0..Len(b) : f[k] \in Nat
         /\ \A k \in 1..Len(b) : DigitValue[b[k]] \in 0..9 /\ f[k] = 10 * f[k - 1] + DigitValue[b[k]]
<1> DEFINE n == Len(b)
           S == {k \in 0..n : f[k] \in Nat}
<1>1. f[0] = 0
  <2>1. 0 \in 0..n
    OBVIOUS
  <2> QED
    BY <2>1 DEF Values, ValueStep
<1>2. ASSUME NEW k \in 1..n
      PROVE  DigitValue[b[k]] \in 0..9 /\ f[k] = 10 * f[k - 1] + DigitValue[b[k]]
  <2>1. k \in 0..n /\ k # 0
    OBVIOUS
  <2>2. f[k] = 10 * f[k - 1] + DigitValue[b[k]]
    BY <2>1 DEF Values, ValueStep
  <2> QED
    BY <2>2, DigitFacts DEF is_numeric
<1>3. 0 \in S
  BY <1>1
<1>4. ASSUME NEW k \in 1..n, k - 1 \in S PROVE k \in S
  <2> DEFINE a == f[k - 1]
             d == DigitValue[b[k]]
  <2>1. a \in Nat /\ d \in 0..9 /\ f[k] = 10 * a + d
    BY <1>2, <1>4
  <2> HIDE DEF a, d
  <2>2. 10 * a + d \in Nat
    BY <2>1
  <2> QED
    BY <2>1, <2>2
<1>5. \A k \in 0..n : k \in S
  <2> HIDE DEF S
  <2> QED
    BY <1>3, <1>4, UpTo
<1> QED
  BY <1>1, <1>2, <1>5

\* parse_to_int reads a number up to multiples of the width of ssize_t.
LEMMA LoopReads ==
  ASSUME NEW t, NEW b, Len(b) \in Nat, Holds(t, b), \A k \in 1..Len(b) : is_numeric(b[k]),
         NEW f, Loops(f, t), NEW g, Values(g, b)
  PROVE  f[t[1]].res = Signed(g[Len(b)])
<1> DEFINE x == t[1]
           n == Len(b)
           v == g[n]
           Read(k) == Reads(g[k], f[x + k].res, f[x + k].pow, v)
           S == {k \in 0..n : Read(k)}
<1>1. /\ x \in Nat /\ n \in Nat /\ t[2] = x + n
      /\ \A k \in 1..n : Memory[x + (k - 1)] = b[k]
  BY DEF Holds
<1>2. /\ g[0] = 0
      /\ \A k \in 0..n : g[k] \in Nat
      /\ \A k \in 1..n : DigitValue[b[k]] \in 0..9 /\ g[k] = 10 * g[k - 1] + DigitValue[b[k]]
  BY ValueTypes
<1>3. v \in Nat
  BY <1>1, <1>2
<1>4. \A k \in x..(x + n) : f[k] = LoopStep(f, t, k)
  BY <1>1 DEF Loops
<1> HIDE DEF x, n
<1>5. n \in S
  <2>1. x + n \in x..(x + n) /\ n \in 0..n
    BY <1>1
  <2>2. f[x + n] = [res |-> 0, pow |-> 1]
    BY <1>1, <1>4, <2>1 DEF LoopStep
  <2>3. f[x + n].res = 0 /\ f[x + n].pow = 1
    BY <2>2
  <2>4. g[n] * 1 + 0 = v + 0 * Width /\ 0 \in Int /\ 1 \in Int /\ 0 \in Signeds
    BY <1>3, SsizeAssumption DEF Width, Signeds
  <2>5. Read(n)
    BY <2>3, <2>4 DEF Reads, Congruent
  <2> QED
    BY <2>1, <2>5
<1>6. ASSUME NEW k \in 0..(n - 1), k + 1 \in S PROVE k \in S
  <2> DEFINE last == f[x + (k + 1)]
             d == DigitValue[b[k + 1]]
             res == last.res
             pow == last.pow
             q == g[k]
             s == g[k + 1]
  <2>1. /\ k + 1 \in 1..n /\ (k + 1) - 1 = k /\ k \in 0..n /\ x + k \in x..(x + n)
        /\ x + k # x + n /\ (x + k) + 1 = x + (k + 1)
    BY <1>1
  <2>2. Memory[x + k] = b[k + 1]
    BY <1>1, <2>1
  <2>3. q \in Nat /\ d \in 0..9 /\ s = 10 * q + d
    BY <1>2, <2>1
  <2>4. Reads(s, res, pow, v)
    BY <1>6
  <2>6. f[x + k] = [res |-> Signed(res + Signed(pow * d)), pow |-> Signed(pow * 10)]
    BY <1>1, <1>4, <2>1, <2>2 DEF LoopStep
  <2>7. f[x + k].res = Signed(res + Signed(pow * d)) /\ f[x + k].pow = Signed(pow * 10)
    BY <2>6
  <2> HIDE DEF res, pow, d, q, s, v
  <2>8. Reads(q, Signed(res + Signed(pow * d)), Signed(pow * 10), v)
    BY <1>3, <2>3, <2>4, DigitAdded
  <2>9. Read(k)
    BY <2>7, <2>8 DEF q
  <2> QED
    BY <2>1, <2>9
<1>7. 0 \in S
  <2>0. 0 \in Int /\ n \in Int /\ 0 <= n /\ 0 \in 0..n
    BY <1>1
  <2>1. \A k \in 0..n : k \in S
    <3> HIDE DEF S
    <3> QED
      BY <1>5, <1>6, <2>0, DownFrom
  <2> QED
    BY <2>0, <2>1
<1>8. x + 0 = x /\ g[0] = 0
  BY <1>1, <1>2
<1> DEFINE res == f[x].res
           pow == f[x].pow
<1>9. Reads(0, res, pow, v)
  BY <1>7, <1>8
<1> HIDE DEF res, pow, v
<1>10. res \in Signeds /\ Congruent(res, v)
  <2>1. res \in Int /\ pow \in Int /\ 0 * pow + res = res
    BY <1>9, SsizeAssumption DEF Reads, Signeds
  <2> QED
    BY <1>9, <2>1 DEF Reads
<1>11. Signed(v) = res
  BY <1>3, <1>10, SignedUnique
<1> QED
  BY <1>11 DEF res, v, x, n

\* The loop of my_utoa.
UtoaStep(f, k) == <<Digits[(k % 10) + 1]>> \o IF k < 10 THEN <<>> ELSE f[k \div 10]
Utoas(f, n) == f = [k \in 0..n |-> UtoaStep(f, k)]

\* It is well defined.
LEMMA UtoaExists ==
  ASSUME NEW n \in Nat
  PROVE  \E f : Utoas(f, n)
<1> DEFINE S == {k \in 0..n : \E f : \A i \in 0..k : f[i] = UtoaStep(f, i)}
<1>0. \A i \in Nat : i >= 10 => i \div 10 \in 0..(i - 1)
  OBVIOUS
<1>1. 0 \in S
  <2> DEFINE f == [i \in 0..n |-> UtoaStep(<<>>, 0)]
  <2>1. 0 \in 0..n /\ 0 < 10 /\ \A i \in 0..0 : i = 0
    OBVIOUS
  <2>2. f[0] = UtoaStep(<<>>, 0)
    BY <2>1
  <2> HIDE DEF f
  <2>3. f[0] = UtoaStep(f, 0)
    BY <2>1, <2>2 DEF UtoaStep
  <2> QED
    BY <2>1, <2>3
<1>2. ASSUME NEW k \in 1..n, k - 1 \in S PROVE k \in S
  <2>1. PICK f : \A i \in 0..(k - 1) : f[i] = UtoaStep(f, i)
    BY <1>2
  <2> DEFINE g == [i \in 0..n |-> IF i = k THEN UtoaStep(f, k) ELSE f[i]]
  <2>2. k \in 0..n /\ \A i \in 0..k : i = k \/ i \in 0..(k - 1)
    OBVIOUS
  <2>3. ASSUME NEW i \in 0..k PROVE g[i] = UtoaStep(g, i)
    <3>1. i \in 0..n /\ i \in Nat
      OBVIOUS
    <3>2. ~(i < 10) => i \div 10 \in 0..n /\ i \div 10 # k
      <4> SUFFICES ASSUME ~(i < 10) PROVE i \div 10 \in 0..n /\ i \div 10 # k
        OBVIOUS
      <4>1. i \div 10 \in 0..(i - 1)
        BY <1>0, <3>1
      <4> QED
        BY <4>1
    <3>3. ~(i < 10) => g[i \div 10] = f[i \div 10]
      BY <3>2
    <3>4. UtoaStep(g, i) = UtoaStep(f, i)
      <4> HIDE DEF g
      <4> QED
        BY <3>3 DEF UtoaStep
    <3>5. g[i] = UtoaStep(f, i)
      BY <2>1, <2>2, <3>1
    <3> QED
      BY <3>4, <3>5
  <2> HIDE DEF g
  <2> QED
    BY <2>2, <2>3
<1>3. n \in S
  <2>1. \A k \in 0..n : k \in S
    <3> HIDE DEF S
    <3> QED
      BY <1>1, <1>2, UpTo
  <2> QED
    BY <2>1
<1>4. PICK f : \A i \in 0..n : f[i] = UtoaStep(f, i)
  BY <1>3
<1> DEFINE g == [i \in 0..n |-> f[i]]
<1>5. ASSUME NEW i \in 0..n PROVE f[i] = UtoaStep(g, i)
  <2>1. ~(i < 10) => i \div 10 \in 0..n
    <3> SUFFICES ASSUME ~(i < 10) PROVE i \div 10 \in 0..n
      OBVIOUS
    <3>1. i \div 10 \in 0..(i - 1)
      BY <1>0
    <3> QED
      BY <3>1
  <2>2. ~(i < 10) => g[i \div 10] = f[i \div 10]
    BY <2>1
  <2>3. UtoaStep(g, i) = UtoaStep(f, i)
    <3> HIDE DEF g
    <3> QED
      BY <2>2 DEF UtoaStep
  <2> QED
    BY <1>4, <2>3
<1>6. g = [i \in 0..n |-> UtoaStep(g, i)]
  BY <1>5
<1>7. Utoas(g, n)
  <2> HIDE DEF g
  <2> QED
    BY <1>6 DEF Utoas
<1> QED
  BY <1>7

\* The first k digits of b, the last one first.
Backwards(s, b, k) ==
  s \in Seq(Range(Digits)) /\ Len(s) = k /\ \A i \in 1..k : s[i] = b[(k + 1) - i]

\* my_utoa writes the digits that parse_to_int has read.
LEMMA UtoaWrites ==
  ASSUME NEW b, Len(b) \in Nat \ {0}, \A k \in 1..Len(b) : is_numeric(b[k]), b[1] # "0",
         NEW g, Values(g, b), NEW f, Utoas(f, g[Len(b)])
  PROVE  Backwards(f[g[Len(b)]], b, Len(b))
<1> DEFINE n == Len(b)
           N == g[n]
<1>1. /\ g[0] = 0
      /\ \A k \in 0..n : g[k] \in Nat
      /\ \A k \in 1..n : DigitValue[b[k]] \in 0..9 /\ g[k] = 10 * g[k - 1] + DigitValue[b[k]]
  BY ValueTypes
<1>2. n \in Nat \ {0} /\ N \in Nat
  BY <1>1
<1>3. \A i \in 0..N : f[i] = UtoaStep(f, i)
  BY DEF Utoas
<1>4. \A k \in 1..n : b[k] \in Range(Digits) /\ Digits[DigitValue[b[k]] + 1] = b[k]
  BY DigitFacts DEF is_numeric
<1>5. ASSUME NEW k \in 1..n
      PROVE  /\ g[k - 1] \in Nat /\ DigitValue[b[k]] \in 0..9
             /\ g[k] = 10 * g[k - 1] + DigitValue[b[k]]
  <2>1. k - 1 \in 0..n
    BY <1>2
  <2> QED
    BY <1>1, <2>1
<1>6. \A k \in 0..n : g[k] <= N
  <2> DEFINE S == {k \in 0..n : g[k] <= N}
  <2> HIDE DEF n, N
  <2>1. n \in S
    BY <1>2 DEF N
  <2>2. ASSUME NEW k \in 0..(n - 1), k + 1 \in S PROVE k \in S
    <3> DEFINE q == g[k]
               d == DigitValue[b[k + 1]]
               p == g[k + 1]
    <3>1. k + 1 \in 1..n /\ (k + 1) - 1 = k /\ k \in 0..n
      BY <1>2
    <3>2. q \in Nat /\ d \in 0..9 /\ p = 10 * q + d /\ p <= N
      BY <1>5, <2>2, <3>1
    <3> HIDE DEF p, q, d
    <3>3. q <= N
      BY <1>2, <3>2
    <3> QED
      BY <3>1, <3>3 DEF q
  <2>3. 0 \in Int /\ n \in Int /\ 0 <= n
    BY <1>2
  <2> HIDE DEF S
  <2>4. \A k \in 0..n : k \in S
    BY <2>1, <2>2, <2>3, DownFrom
  <2> QED
    BY <2>4 DEF S
<1> HIDE DEF n, N
<1>7. ASSUME NEW k \in 1..n PROVE f[g[k]] = UtoaStep(f, g[k])
  <2>1. g[k] \in Nat /\ g[k] <= N
    BY <1>1, <1>2, <1>6
  <2>2. g[k] \in 0..N
    BY <1>2, <2>1
  <2> QED
    BY <1>3, <2>2
<1> DEFINE S == {k \in 0..n : k # 0 => g[k] # 0 /\ Backwards(f[g[k]], b, k)}
<1>8. ASSUME NEW k \in 1..n, k - 1 \in S PROVE k \in S
  <2> DEFINE q == g[k - 1]
             d == DigitValue[b[k]]
             p == g[k]
             one == <<Digits[(p % 10) + 1]>>
  <2>1. q \in Nat /\ d \in 0..9 /\ p = 10 * q + d
    BY <1>5
  <2>2. f[p] = one \o IF p < 10 THEN <<>> ELSE f[p \div 10]
    BY <1>7 DEF UtoaStep
  <2>3. p % 10 = d /\ p \div 10 = q
    <3> HIDE DEF p, q, d
    <3> QED
      BY <2>1
  <2>4. Digits[(p % 10) + 1] = b[k] /\ b[k] \in Range(Digits)
    BY <1>4, <2>3
  <2>5. one \in Seq(Range(Digits)) /\ Len(one) = 1 /\ one[1] = b[k]
    <3> HIDE DEF p
    <3> QED
      BY <2>4
  <2> HIDE DEF one, d
  <2>6. k \in 0..n
    BY <1>2
  <2>7. CASE k = 1
    <3>1. q = 0
      BY <1>1, <2>7
    <3>2. d # 0
      BY <1>4, <2>7, DigitFacts DEF d
    <3>3. p # 0 /\ p < 10
      <4> HIDE DEF p, q
      <4> QED
        BY <2>1, <3>1, <3>2
    <3>4. f[p] = one
      <4>1. f[p] = one \o <<>>
        BY <2>2, <3>3
      <4> QED
        BY <2>5, <4>1, ConcatEmptySeq
    <3>5. \A i \in 1..1 : i = 1 /\ (1 + 1) - i = 1
      OBVIOUS
    <3>6. Backwards(f[p], b, k)
      BY <2>5, <2>7, <3>4, <3>5 DEF Backwards
    <3> QED
      BY <2>6, <3>3, <3>6
  <2>8. CASE k # 1
    <3> DEFINE s == f[q]
    <3>1. k - 1 \in 0..n /\ k - 1 # 0
      BY <1>2, <2>8
    <3>2. q # 0 /\ Backwards(s, b, k - 1)
      BY <1>8, <3>1
    <3>3. p # 0 /\ ~(p < 10)
      <4> HIDE DEF p, q
      <4> QED
        BY <2>1, <3>2
    <3>4. f[p] = one \o s
      BY <2>2, <2>3, <3>3
    <3> HIDE DEF s
    <3>5. /\ s \in Seq(Range(Digits)) /\ Len(s) = k - 1
          /\ \A i \in 1..(k - 1) : s[i] = b[((k - 1) + 1) - i]
      BY <3>2 DEF Backwards
    <3>6. /\ one \o s \in Seq(Range(Digits)) /\ Len(one \o s) = Len(one) + Len(s)
          /\ \A i \in 1..(Len(one) + Len(s)) :
               (one \o s)[i] = IF i <= Len(one) THEN one[i] ELSE s[i - Len(one)]
      BY <2>5, <3>5, ConcatProperties
    <3>7. 1 + (k - 1) = k
      OBVIOUS
    <3>8. ASSUME NEW i \in 1..k PROVE (one \o s)[i] = b[(k + 1) - i]
      <4>1. (one \o s)[i] = IF i <= 1 THEN one[i] ELSE s[i - 1]
        BY <2>5, <3>5, <3>6, <3>7
      <4>2. CASE i = 1
        <5>1. (k + 1) - 1 = k
          OBVIOUS
        <5> QED
          BY <2>5, <4>1, <4>2, <5>1
      <4>3. CASE i # 1
        <5>1. i - 1 \in 1..(k - 1) /\ ((k - 1) + 1) - (i - 1) = (k + 1) - i /\ ~(i <= 1)
          BY <4>3
        <5> QED
          BY <3>5, <4>1, <5>1
      <4> QED
        BY <4>2, <4>3
    <3>9. Backwards(f[p], b, k)
      BY <2>5, <3>4, <3>5, <3>6, <3>7, <3>8 DEF Backwards
    <3> QED
      BY <2>6, <3>3, <3>9
  <2> QED
    BY <2>7, <2>8
<1>9. n \in S
  <2>1. 0 \in S
    BY <1>2
  <2>2. n \in Nat /\ n \in 0..n
    BY <1>2
  <2> HIDE DEF S
  <2>3. \A k \in 0..n : k \in S
    BY <1>8, <2>1, <2>2, UpTo
  <2> QED
    BY <2>2, <2>3
<1> QED
  BY <1>2, <1>9 DEF n

\* What parse_to_int returns, from what the trimmed view holds.
LEMMA ParseIs ==
  ASSUME TextType
  PROVE  LET body == Stripped(text)
             number == body # <<>> /\ \A k \in DOMAIN body : is_numeric(body[k])
             t == trim_whitespace(ValueView)
         IN  /\ body \in Seq(Alphabet) /\ Holds(t, body)
             /\ ~number => parse_to_int(ValueView) = -1
             /\ number => parse_to_int(ValueView) = (CHOOSE f : Loops(f, t))[t[1]].res
<1> DEFINE body == Stripped(text)
           n == Len(body)
           number == body # <<>> /\ \A k \in DOMAIN body : is_numeric(body[k])
           t == trim_whitespace(ValueView)
<1>1. body \in Seq(Alphabet) /\ Holds(t, body)
  <2>1. text \in Seq(Alphabet) /\ Len(text) \in Nat
    BY MemoryFacts DEF TextType
  <2>2. SubSeq(text, 1, Len(text)) = text
    BY <2>1
  <2>3. 1 \in 1..(Len(text) + 1) /\ 1 + 1 = 2
    BY <2>1
  <2>4. create_view(1 + 1, Len(text) + 2) = ValueView
    BY <2>3 DEF ValueView
  <2> QED
    BY <2>2, <2>3, <2>4, TailTrimmed
<1> HIDE DEF body, t
<1>2. /\ n \in Nat /\ DOMAIN body = 1..n /\ (body = <<>> <=> n = 0)
      /\ t[1] \in Nat /\ t[2] = t[1] + n
      /\ \A k \in 1..n : Memory[t[1] + (k - 1)] = body[k]
  BY <1>1 DEF Holds
<1>3. Refused(t) <=> ~number
  <2>1. is_empty_view(t) <=> body = <<>>
    BY <1>2 DEF is_empty_view
  <2>2. ASSUME NEW k \in t[1]..(t[2] - 1), ~is_numeric(Memory[k])
        PROVE  \E i \in DOMAIN body : ~is_numeric(body[i])
    <3>1. (k - t[1]) + 1 \in 1..n /\ t[1] + (((k - t[1]) + 1) - 1) = k
      BY <1>2
    <3> QED
      BY <1>2, <2>2, <3>1
  <2>3. ASSUME NEW i \in DOMAIN body, ~is_numeric(body[i])
        PROVE  \E k \in t[1]..(t[2] - 1) : ~is_numeric(Memory[k])
    <3>1. t[1] + (i - 1) \in t[1]..(t[2] - 1)
      BY <1>2
    <3> QED
      BY <1>2, <2>3, <3>1
  <2> QED
    BY <2>1, <2>2, <2>3 DEF Refused
<1>4. parse_to_int(ValueView)
        = IF Refused(t) THEN -1 ELSE (CHOOSE f : Loops(f, t))[t[1]].res
  BY DEF parse_to_int, Loops, LoopStep, t
<1> HIDE DEF number
<1>5. /\ ~number => parse_to_int(ValueView) = -1
      /\ number => parse_to_int(ValueView) = (CHOOSE f : Loops(f, t))[t[1]].res
  BY <1>3, <1>4
<1> QED
  BY <1>1, <1>5 DEF body, t, number

\* A number is read as its value and written back, in every text.
LEMMA NumberRead ==
  ASSUME TextType
  PROVE  NumberParsed
<1> DEFINE body == Stripped(text)
           n == Len(body)
           number == body # <<>> /\ \A k \in DOMAIN body : is_numeric(body[k])
           t == trim_whitespace(ValueView)
           f == CHOOSE h : Loops(h, t)
           g == CHOOSE h : Values(h, body)
<1>1. /\ body \in Seq(Alphabet) /\ Holds(t, body)
      /\ ~number => parse_to_int(ValueView) = -1
      /\ number => parse_to_int(ValueView) = f[t[1]].res
  BY ParseIs
<1> SUFFICES ASSUME number
             PROVE  /\ parse_to_int(ValueView) = Signed(g[n])
                    /\ g[n] <= SSIZE_MAX => /\ parse_to_int(ValueView) = g[n]
                                            /\ body[1] # "0" => my_utoa(g[n]) = body
  BY <1>1 DEF NumberParsed, Values, ValueStep
<1> HIDE DEF body, t, f, g
<1>2. n \in Nat \ {0} /\ \A k \in 1..n : is_numeric(body[k])
  BY <1>1
<1>3. Values(g, body)
  BY <1>2, ValueExists DEF g
<1>4. Loops(f, t)
  <2>1. t[1] \in Nat /\ t[2] \in Nat /\ t[1] <= t[2]
    BY <1>1, <1>2 DEF Holds
  <2> QED
    BY <2>1, LoopExists DEF f
<1>5. f[t[1]].res = Signed(g[n])
  BY <1>1, <1>2, <1>3, <1>4, LoopReads
<1>6. g[n] <= SSIZE_MAX => Signed(g[n]) = g[n]
  <2>1. g[n] \in Nat
    <3>1. n \in 0..n
      BY <1>2
    <3> QED
      BY <1>2, <1>3, <3>1, ValueTypes
  <2>2. g[n] <= SSIZE_MAX => g[n] \in 0..SSIZE_MAX
    BY <2>1, SsizeAssumption
  <2> QED
    BY <2>2, SignedFits
<1>7. ASSUME g[n] <= SSIZE_MAX, body[1] # "0" PROVE my_utoa(g[n]) = body
  <2> DEFINE N == g[n]
             h == CHOOSE e : Utoas(e, N)
             s == h[N]
  <2>1. N \in Nat
    <3>1. n \in 0..n
      BY <1>2
    <3> QED
      BY <1>2, <1>3, <3>1, ValueTypes
  <2>2. my_utoa(N) = Reverse(s)
    BY DEF my_utoa, Utoas, UtoaStep
  <2> HIDE DEF N, h
  <2>3. Utoas(h, N)
    BY <2>1, UtoaExists DEF h
  <2>4. Backwards(s, body, n)
    BY <1>2, <1>3, <1>7, <2>3, UtoaWrites DEF N
  <2> HIDE DEF s
  <2>5. /\ s \in Seq(Range(Digits)) /\ Len(s) = n
        /\ \A i \in 1..n : s[i] = body[(n + 1) - i]
    BY <2>4 DEF Backwards
  <2>6. Reverse(s) = [i \in 1..n |-> s[(n - i) + 1]]
    BY <2>5 DEF Reverse
  <2>7. ASSUME NEW i \in 1..n PROVE s[(n - i) + 1] = body[i]
    <3>1. (n - i) + 1 \in 1..n /\ (n + 1) - ((n - i) + 1) = i
      BY <1>2
    <3> QED
      BY <2>5, <3>1
  <2>8. body = [i \in 1..n |-> body[i]]
    BY <1>1
  <2>9. Reverse(s) = body
    BY <2>6, <2>7, <2>8
  <2> QED
    BY <2>2, <2>9 DEF N
<1> QED
  BY <1>1, <1>5, <1>6, <1>7

\* For every text, and whatever the largest ssize_t: the loop of parse_to_int
\* reads what is a number between blanks as its value wrapped into ssize_t, and
\* so as the value itself if that fits, although the sum and the power of ten
\* it keeps may have overflown on the way; what is no number is read as -1; and
\* my_utoa writes a number that fits and has no leading zero back.
THEOREM NumbersAreParsed == Spec => []NumberParsed
<1>1. TextType => NumberParsed
  BY NumberRead
<1> QED
  BY <1>1, TextTypeHolds, PTL
================================================================================
