------------------------------ MODULE TextViews ------------------------------
(***************************************************************************)
(* helpers.c and strview.c: the scanning routines the parser is made of,   *)
(* and parse_rl of server.c, which takes a request line apart with them.   *)
(*                                                                         *)
(* The one variable is the text received so far; bytes are appended to it  *)
(* the way my_read appends them to the request buffer, and after each of   *)
(* them the routines scan it again from its start.  The loops of the code  *)
(* are recursive functions here; pointers are positions in the text, and   *)
(* 0 is NULL.                                                              *)
(***************************************************************************)
EXTENDS Integers, SequencesExt

CONSTANTS
  Alphabet,   \* the bytes that may arrive
  MaxLen,     \* bound: length of the text
  SSIZE_MAX,  \* the largest ssize_t
  Letters,    \* the bytes of the alphabet that are letters
  SUPPORTED_METHODS, Protocol,   \* as sequences of bytes
  MaxMethod   \* the longest name that may be a method

ASSUME MaxLenAssumption == MaxLen \in Nat
ASSUME SsizeAssumption == SSIZE_MAX \in Nat

VARIABLE text

CR == "CR"
LF == "LF"
Blank == " "
CRLF == <<CR, LF>>

\* Methods are words.
ASSUME MethodsAssumption == Blank \notin Letters /\ SUPPORTED_METHODS \subseteq Seq(Letters)
ASSUME ProtocolAssumption == Protocol \in Seq(STRING)

\* The digits, and the value of each; the other bytes have none.
Digits == <<"0", "1", "2", "3", "4", "5", "6", "7", "8", "9">>
DigitValue == [c \in Range(Digits) |-> CHOOSE v \in 0..9 : Digits[v + 1] = c]
is_numeric(c) == c \in Range(Digits)
is_whitespace(c) == c = Blank
is_alpha(c) == c \in Letters

Init == text = <<>>

\* my_read appends as long as there is room.
ByteArrives(c) ==
  /\ Len(text) < MaxLen
  /\ text' = Append(text, c)

Next == \E c \in Alphabet : ByteArrives(c)

Spec == Init /\ [][Next]_text

-----------------------------------------------------------------------------
(***************************************************************************)
(* helpers.c: find_delim, my_utoa.                                         *)
(***************************************************************************)

\* Faulty variant: a mismatch does not start the delimiter over.
Bug_find_delim(s, d) ==
  LET scan[i \in 1..Len(s) + 1] ==
        [j \in 1..Len(d) |->
           IF i > Len(s) THEN 0
           ELSE IF s[i] = d[j] THEN IF j = Len(d) THEN i ELSE scan[i + 1][j + 1]
           ELSE scan[i + 1][j]]
  IN scan[1][1]

\* Faulty variant: the last occurrence instead of the first.
Bug_find_delim_last(s, d) ==
  LET scan[i \in 1..Len(s) + 1, j \in 1..Len(d), last \in 0..Len(s)] ==
        IF i > Len(s) THEN last
        ELSE IF s[i] = d[j]
             THEN IF j = Len(d) THEN scan[i + 1, 1, i] ELSE scan[i + 1, j + 1, last]
        ELSE scan[i + 1, 1, last]
  IN scan[1, 1, 0]

\* i runs over the buffer, j over the delimiter; a byte that does not match
\* starts the delimiter over with the byte after it.
find_delim(s, d) ==
  LET scan[i \in 1..Len(s) + 1] ==
        [j \in 1..Len(d) |->
           IF i > Len(s) THEN 0
           ELSE IF s[i] = d[j] THEN IF j = Len(d) THEN i ELSE scan[i + 1][j + 1]
           ELSE scan[i + 1][1]]
  IN scan[1][1]

\* Digits from the last to the first, then reversed in place.
my_utoa(n) ==
  LET digits[k \in 0..n] ==
        <<Digits[(k % 10) + 1]>> \o IF k < 10 THEN <<>> ELSE digits[k \div 10]
  IN Reverse(digits[n])

-----------------------------------------------------------------------------
(***************************************************************************)
(* strview.c on a header value, the view between the colon and the CR of   *)
(* its line, and on a request line, the view up to the CR.  A view is the  *)
(* pair of its first position and the position behind its last.  The byte  *)
(* before it is a colon, or lies before the buffer: the parse of a request *)
(* line does not depend on that one.                                       *)
(***************************************************************************)
Memory == <<":">> \o text \o <<CR>>
create_view(start, end) == <<start, end>>
ValueView == create_view(2, Len(text) + 2)

is_empty_view(v) == v[1] >= v[2]

\* Faulty variant: only the front is trimmed.
Bug_trim_whitespace(v) ==
  LET front[k \in 1..Len(Memory)] == IF is_whitespace(Memory[k]) THEN front[k + 1] ELSE k
  IN IF is_empty_view(v) THEN v ELSE <<front[v[1]], v[2]>>

\* Both loops stop at a byte that is no blank, and not at the view's ends.
trim_whitespace(v) ==
  LET front[k \in 1..Len(Memory)] == IF is_whitespace(Memory[k]) THEN front[k + 1] ELSE k
      back[k \in 2..Len(Memory) + 1] == IF is_whitespace(Memory[k - 1]) THEN back[k - 1] ELSE k
  IN IF is_empty_view(v) THEN v
     ELSE <<front[v[1]], IF back[v[2]] < front[v[1]] THEN front[v[1]] ELSE back[v[2]]>>

\* Two's complement arithmetic of ssize_t (the code's overflow is undefined;
\* compilers wrap).
Signed(n) ==
  LET m == n % (2 * (SSIZE_MAX + 1))
  IN IF m > SSIZE_MAX THEN m - 2 * (SSIZE_MAX + 1) ELSE m

\* What is no number.
Refused(v) == is_empty_view(v) \/ \E k \in v[1]..v[2] - 1 : ~is_numeric(Memory[k])

\* Faulty variant: the last digit weighs most.
Bug_parse_to_int(v) ==
  LET t == trim_whitespace(v)
      add[k \in t[1]..t[2]] ==
        IF k = t[2] THEN 0 ELSE Signed(10 * add[k + 1] + DigitValue[Memory[k]])
  IN IF Refused(t) THEN -1 ELSE add[t[1]]

\* From the last digit to the first, each weighted with a power of ten.
parse_to_int(v) ==
  LET t == trim_whitespace(v)
      loop[k \in t[1]..t[2]] ==
        IF k = t[2] THEN [res |-> 0, pow |-> 1]
        ELSE LET last == loop[k + 1]
             IN [res |-> Signed(last.res + Signed(last.pow * DigitValue[Memory[k]])),
                 pow |-> Signed(last.pow * 10)]
  IN IF Refused(t) THEN -1 ELSE loop[t[1]].res

\* Faulty variant: a view that only starts with b passes for b.
Bug_compare_vs(v, b) ==
  LET same[i \in 0..Len(b)] ==
        IF v[1] + i = v[2] \/ i = Len(b) THEN i = Len(b)
        ELSE Memory[v[1] + i] = b[i + 1] /\ same[i + 1]
  IN same[0]

\* Whether compare_vs returns 0, which is all that its callers look at.
compare_vs(v, b) ==
  LET same[i \in 0..Len(b)] ==
        IF v[1] + i = v[2] \/ i = Len(b) THEN v[1] + i = v[2] /\ i = Len(b)
        ELSE Memory[v[1] + i] = b[i + 1] /\ same[i + 1]
  IN same[0]

-----------------------------------------------------------------------------
(***************************************************************************)
(* server.c: parse_rl on the text as a request line.                       *)
(***************************************************************************)
ViewBytes(v) == {Memory[k] : k \in v[1]..v[2] - 1}
validate_path_char(c) == is_alpha(c) \/ is_numeric(c) \/ c \in {".", "-", "_"}

validate_path(v) ==
  /\ v[2] - v[1] >= 2
  /\ Memory[v[1]] = "/"
  /\ \A c \in ViewBytes(create_view(v[1] + 1, v[2])) : validate_path_char(c)

validate_method(v) == v[2] - v[1] <= MaxMethod /\ \A c \in ViewBytes(v) : is_alpha(c)
validate_proto(v) == v[2] - v[1] >= Len(Protocol) /\ compare_vs(v, Protocol)

get_method(v) ==
  IF \E m \in SUPPORTED_METHODS : compare_vs(v, m) THEN "OK"
  ELSE IF validate_method(v) THEN "NOT_IMPLEMENTED" ELSE "BAD_REQUEST"

\* The position behind the first blank of the line from `start` on, or 0.
BlankFrom(start) ==
  LET p == find_delim(SubSeq(text, start - 1, Len(text)), <<Blank>>)
  IN IF p = 0 THEN 0 ELSE start + p

\* Each field is the view up to and with its blank, trimmed at both ends.
parse_rl ==
  LET method_end == BlankFrom(2)
      method == get_method(trim_whitespace(create_view(2, method_end)))
      uri_end == BlankFrom(method_end)
  IN  IF method_end = 0 THEN "BAD_REQUEST"
      ELSE IF method # "OK" THEN method
      ELSE IF /\ uri_end # 0
              /\ validate_path(trim_whitespace(create_view(method_end, uri_end)))
              /\ validate_proto(trim_whitespace(create_view(uri_end, Len(text) + 2)))
           THEN "OK" ELSE "BAD_REQUEST"

-----------------------------------------------------------------------------
(***************************************************************************)
(* Properties.                                                             *)
(***************************************************************************)
EndsAt(s, d, p) == p >= Len(d) /\ SubSeq(s, p - Len(d) + 1, p) = d

\* The position of the last byte of the first occurrence of d in s, or 0.
FirstOccurrence(s, d) ==
  LET ends == {p \in 1..Len(s) : EndsAt(s, d, p)}
  IN IF ends = {} THEN 0 ELSE Min(ends)

\* What find_delim reports is an occurrence; and it is the first one, as
\* helpers.h says, unless the text holds a CR that is followed by another.
LineEndFound ==
  LET p == find_delim(text, CRLF)
  IN  /\ p # 0 => EndsAt(text, CRLF, p)
      /\ (~\E i \in 1..Len(text) - 1 : text[i] = CR /\ text[i + 1] = CR)
            => p = FirstOccurrence(text, CRLF)

\* read_rl and read_hf scan again after every read: a line that was found is
\* found at the same place when more bytes have arrived.
LineEndStable ==
  [][find_delim(text, CRLF) # 0 => find_delim(text, CRLF)' = find_delim(text, CRLF)]_text

\* A Content-Length value loses the blanks around it and nothing else, and
\* the scan never leaves the line.
ValueTrimmed ==
  LET t == trim_whitespace(ValueView)
      solid == {k \in 1..Len(text) : ~is_whitespace(text[k])}
  IN  IF solid = {} THEN is_empty_view(t)
      ELSE t = <<Min(solid) + 1, Max(solid) + 2>>

\* A text without the blanks at its ends.
Stripped(s) ==
  LET solid == {k \in DOMAIN s : ~is_whitespace(s[k])}
  IN IF solid = {} THEN <<>> ELSE SubSeq(s, Min(solid), Max(solid))

\* A number is read as its decimal value, wrapped into ssize_t once at the end:
\* what overflows on the way, the sum or the power of ten (0 in front of the
\* number), does no other harm.  So a number that fits is read as itself, and
\* my_utoa writes it back.  Anything that is not a number is read as -1.
NumberParsed ==
  LET body == Stripped(text)
      value[k \in 0..Len(body)] ==
        IF k = 0 THEN 0 ELSE 10 * value[k - 1] + DigitValue[body[k]]
      number == body # <<>> /\ \A k \in DOMAIN body : is_numeric(body[k])
  IN  /\ ~number => parse_to_int(ValueView) = -1
      /\ number => parse_to_int(ValueView) = Signed(value[Len(body)])
      /\ number /\ value[Len(body)] <= SSIZE_MAX =>
           /\ parse_to_int(ValueView) = value[Len(body)]
           /\ body[1] # "0" => my_utoa(value[Len(body)]) = body

\* parse_rl accepts exactly the lines that are a method, ONE blank, a path that
\* starts with a slash, and blanks around the protocol, although its loops trim
\* across the ends of their views; and it answers 501 exactly when a text of
\* letters that may be a method, and is none, stands before the first blank.
RequestLineParsed ==
  LET blanks == {k \in DOMAIN text : is_whitespace(text[k])}
      name == SubSeq(text, 1, Min(blanks) - 1)
      path(s) == /\ Len(s) > 1 /\ s[1] = "/"
                 /\ \A k \in 2..Len(s) : validate_path_char(s[k])
  IN  find_delim(text, CRLF) = 0 =>
        /\ parse_rl = "OK" <=>
             \E i, j \in blanks :
               /\ SubSeq(text, 1, i - 1) \in SUPPORTED_METHODS
               /\ path(SubSeq(text, i + 1, j - 1))
               /\ Stripped(SubSeq(text, j + 1, Len(text))) = Protocol
        /\ parse_rl = "NOT_IMPLEMENTED" <=>
             /\ blanks # {} /\ name \notin SUPPORTED_METHODS
             /\ Len(name) <= MaxMethod /\ \A k \in DOMAIN name : is_alpha(name[k])
=============================================================================
