--------------------------- MODULE MCRequestHandler ---------------------------
(***************************************************************************)
(* RequestHandler for TLC: a header buffer of 16 bytes, lines of 3 to 5,   *)
(* and requests of every kind, some of which outgrow the buffer.           *)
(***************************************************************************)
EXTENDS RequestHandler, SequencesExt

Line(m, u, p, n) == [len |-> n, method |-> m, uri |-> u, proto |-> p]
Good(m) == Line(m, "valid", "valid", 4)
Field(k, v, n) == [key |-> k, value |-> v, len |-> n]
File(k, n) == [kind |-> k, size |-> n]

\* The header lines one behind the other, from the end of the request line on.
Request(rl, hfs, body, f) ==
  [rl |-> rl, body |-> body, file |-> f,
   hfs |-> [k \in DOMAIN hfs |->
              [key |-> hfs[k].key, value |-> hfs[k].value,
               end |-> FoldLeft(LAMBDA e, h : e + h.len, rl.len, SubSeq(hfs, 1, k))]]]

AnyFile == {File("absent", 0), File("uncreatable", 0), File("regular", 4), File("readonly", 4),
            File("putonly", 4), File("denied", 0)}

\* Downloads of every kind of file, in buffers that are large and small enough.
Gets ==
  {Request(Line(m, "valid", "valid", n), h, 0, f) :
     m \in {"GET", "HEAD"}, n \in {4, 7}, f \in AnyFile,
     h \in {<<>>, <<Field("other", 0, 4)>>, <<Field("other", 0, 3), Field("length", 1, 5)>>}}

\* Uploads: the body is complete, too short, too long, or outgrows the buffer.
Puts ==
  {Request(Good("PUT"), h, b, f) :
     h \in {<<>>, <<Field("length", 3, 4)>>, <<Field("length", 3, 5), Field("length", 1, 3)>>},
     b \in {0, 1, 3, 5}, f \in AnyFile}

\* Request lines and headers the parser refuses, or should.
Refused ==
  {Request(Line(m, u, p, 4), <<>>, 0, File("regular", 1)) :
     m \in {"GET", "PUT", "HEAD", "other", "invalid", "nospace"}, u \in {"valid", "long", "invalid"},
     p \in {"valid", "invalid"}}
  \cup {Request(Good(m), h \o <<Field(k, 0, 4)>>, 1, File("regular", 1)) :
          m \in {"GET", "PUT"}, k \in {"badlength", "nocolon", "badkey"},
          h \in {<<>>, <<Field("length", 1, 4)>>}}
  \cup {Request(Line("GET", "valid", "valid", n), <<>>, 0, File("regular", 1)) : n \in {16, 18}}

AllRequests == Gets \cup Puts \cup Refused

\* The requests of the test scripts.
OverlongPut == {Request(Good("PUT"), <<Field("length", 1, 4)>>, 3, File("regular", 1))}
LargePut == {Request(Good("PUT"), <<Field("length", 8, 4)>>, 8, File("regular", 1))}
BadKeyGet == {Request(Good("GET"), <<Field("other", 0, 4), Field("badkey", 0, 4)>>, 0, File("regular", 1))}
=============================================================================
