---------------------------- MODULE RequestHandler ----------------------------
(***************************************************************************)
(* server.c: handle_request, the resumable state machine that reads one    *)
(* request from a non-blocking socket, serves it and answers it.           *)
(*                                                                         *)
(* handle_request runs the handler of the current stage again and again    *)
(* until a handler finds the socket not ready (it returns false and is     *)
(* called again later) or the stage is FINISHED (it returns true).  Every  *)
(* action below is one run of one handler, with one outcome of the system  *)
(* calls it makes.                                                         *)
(*                                                                         *)
(* Bytes are counted, not stored.  The client sends a request line, header *)
(* lines, an empty line and a body; what matters of a line is its length   *)
(* and how the parser classifies it.  The offsets buf_end and parsed_end   *)
(* are kept as numbers, so that fragmentation, the header buffer's limit   *)
(* and body bytes that arrive with the head are all there.                 *)
(***************************************************************************)
EXTENDS Integers, Sequences, FiniteSetsExt

CONSTANTS
  Inputs,     \* the requests clients may send, each with the file it names
  BufLen,     \* MAX_HEADER
  ReadLen,    \* READ_LEN
  ResLen,     \* size of the response buffer
  HdrLen,     \* length of a response head
  StaticLen   \* length of the body that repeats the status

ASSUME BufAssumption == BufLen \in Nat /\ BufLen > 2
\* server.c, at READ_LEN: "must be greater than" the header buffer; 10000 is
\* more than twice MAX_HEADER.
ASSUME ReadLenAssumption == ReadLen \in Nat /\ ReadLen > 2 * BufLen
ASSUME LenAssumption ==
  /\ HdrLen \in Nat \ {0} /\ StaticLen \in Nat \ {0}
  /\ ResLen \in Nat /\ ResLen >= HdrLen + StaticLen

VARIABLES
  input,      \* the request this connection carries
  total,      \* how many of its bytes the client sends before it stops
  stage, status, method,
  lines,      \* how many lines have been parsed
  bufEnd,     \* req.buf_end - req.buf
  parsedEnd,  \* req.parsed_end - req.buf
  got,        \* bytes taken from the socket
  bodyLen,    \* req.body_len
  putFd,      \* req.put_fd # -1
  getFd,      \* req.get_fd # -1
  opens,      \* files this request has open
  file,       \* the file the URI names
  written,    \* bytes of the body written to it
  filePos,    \* read offset of get_fd
  res,        \* what the response buffer holds and has not sent
  promised,   \* the Content-Length of the response
  headers,    \* response heads built
  bodySent,   \* bytes of the response body sent
  call,       \* "idle", "running" or "done"
  failed      \* history: a read from the socket or a write to the file failed

reqVars == <<method, lines, bufEnd, parsedEnd, got, bodyLen, failed>>
fileVars == <<putFd, getFd, opens, file, written>>
resVars == <<filePos, res, promised, headers, bodySent>>
vars == <<input, total, stage, status, reqVars, fileVars, resVars, call>>

-----------------------------------------------------------------------------
(***************************************************************************)
(* The request as the client sends it.  rl is the request line: its        *)
(* length and what its three fields are; hfs the header lines, each with   *)
(* the place in the request where it ends.                                 *)
(***************************************************************************)
RequestLines == [len : Nat, method : {"GET", "PUT", "HEAD", "other", "invalid", "nospace"},
                 uri : {"valid", "long", "invalid"}, proto : {"valid", "invalid"}]
HeaderLines == [key : {"length", "badlength", "nocolon", "badkey", "other"}, value : Nat,
                end : Nat]
\* Absent and creatable or not; a plain file; one that may only be read; one
\* that only PUT accepts (a symbolic link, or no permission to read); one that
\* neither does (a directory, no permission, a name that is too long).
FileStates == [kind : {"absent", "uncreatable", "regular", "readonly", "putonly", "denied"},
               size : Nat]

InputType == [rl : RequestLines, hfs : Seq(HeaderLines), body : Nat, file : FileStates]

\* A header line holds something before its CR LF.
ASSUME InputsAssumption ==
  /\ Inputs \subseteq InputType
  /\ \A i \in Inputs : \A k \in DOMAIN i.hfs :
       /\ i.hfs[k].end > i.rl.len + 2
       /\ \A j \in 1..(k - 1) : i.hfs[k].end > i.hfs[j].end + 2

\* The end of line k: line 1 is the request line, the last one is empty.
FieldEnd(n) == IF n = 0 THEN input.rl.len ELSE input.hfs[n].end
LineEnd(k) ==
  IF k = Len(input.hfs) + 2 THEN FieldEnd(Len(input.hfs)) + 2 ELSE FieldEnd(k - 1)

HeadEnd == LineEnd(Len(input.hfs) + 2)

Stages == {"REQUEST_LINE", "HEADER_FIELDS", "READ_BODY", "BUILD_HEADER", "READ_FILE",
           "SEND_RES", "FINISHED"}
Statuses == {"OK", "CREATED", "BAD_REQUEST", "FORBIDDEN", "NOT_FOUND", "INTERNAL_ERROR",
             "NOT_IMPLEMENTED"}
Methods == {"GET", "PUT", "HEAD", "NONE_YET", "UNKNOWN"}

TypeOK ==
  /\ input \in Inputs
  /\ total \in 0..(HeadEnd + input.body)
  /\ stage \in Stages
  /\ status \in Statuses
  /\ method \in Methods
  /\ lines \in 0..(Len(input.hfs) + 2)
  /\ parsedEnd \in 0..bufEnd
  /\ bufEnd \in 0..got
  /\ got \in 0..total
  /\ bodyLen \in Nat
  /\ putFd \in BOOLEAN /\ getFd \in BOOLEAN
  /\ opens \in Nat
  /\ file \in FileStates
  /\ written \in Nat /\ filePos \in Nat
  /\ res \in [hdr : 0..HdrLen, body : 0..ResLen]
  /\ promised \in Nat /\ headers \in Nat /\ bodySent \in Nat
  /\ call \in {"idle", "running", "done"}
  /\ failed \in BOOLEAN

\* init_parser_state, for a client that will send some prefix of its request.
Init ==
  /\ input \in Inputs
  /\ total \in 0..(HeadEnd + input.body)
  /\ stage = "REQUEST_LINE"
  /\ status = "OK"
  /\ method = "NONE_YET"
  /\ lines = 0 /\ bufEnd = 0 /\ parsedEnd = 0 /\ got = 0
  /\ bodyLen = 0
  /\ putFd = FALSE /\ getFd = FALSE /\ opens = 0
  /\ file = input.file
  /\ written = 0 /\ filePos = 0
  /\ res = [hdr |-> 0, body |-> 0]
  /\ promised = 0 /\ headers = 0 /\ bodySent = 0
  /\ call = "idle" /\ failed = FALSE

-----------------------------------------------------------------------------
\* A worker calls handle_request.
Call ==
  /\ call = "idle"
  /\ call' = "running"
  /\ UNCHANGED <<input, total, stage, status, reqVars, fileVars, resVars>>

At(s) == call = "running" /\ stage = s /\ UNCHANGED <<input, total>>

(***************************************************************************)
(* my_read fails to deliver: the socket is not ready (the handler returns  *)
(* false), the client has closed it after its last byte, or it is broken.  *)
(***************************************************************************)
ReadStops ==
  \/ /\ call' = "idle"
     /\ UNCHANGED <<stage, status, failed>>
  \/ /\ got' = total
     /\ stage' = "FINISHED"
     /\ UNCHANGED <<status, call, failed>>
  \/ /\ stage' = "BUILD_HEADER"
     /\ status' = "INTERNAL_ERROR"
     /\ failed' = TRUE
     /\ UNCHANGED call

\* Bytes that end up in the header buffer.
Buffer(end) == bufEnd' = end /\ got' = end

-----------------------------------------------------------------------------
(***************************************************************************)
(* read_rl: read until the buffer holds a line, as long as there is room   *)
(* for two more bytes.                                                     *)
(***************************************************************************)

\* get_method and the checks of parse_rl, in the order of the code.
parse_rl(rl) ==
  CASE rl.method = "nospace" -> [method |-> method, status |-> "BAD_REQUEST", ok |-> FALSE]
    [] rl.method = "other"   -> [method |-> "UNKNOWN", status |-> "NOT_IMPLEMENTED", ok |-> FALSE]
    [] rl.method = "invalid" -> [method |-> "UNKNOWN", status |-> "BAD_REQUEST", ok |-> FALSE]
    [] OTHER -> IF rl.uri = "invalid" \/ rl.proto = "invalid"
                THEN [method |-> rl.method, status |-> "BAD_REQUEST", ok |-> FALSE]
                ELSE [method |-> rl.method, status |-> status, ok |-> TRUE]

ReadRlLine ==
  /\ At("REQUEST_LINE")
  /\ bufEnd <= BufLen - 2
  /\ \E end \in LineEnd(1)..Min({BufLen, total}) : Buffer(end)
  /\ LET p == parse_rl(input.rl)
     IN  /\ method' = p.method
         /\ status' = p.status
         /\ stage' = IF p.ok THEN "HEADER_FIELDS" ELSE "BUILD_HEADER"
  /\ lines' = 1
  /\ parsedEnd' = LineEnd(1)
  /\ UNCHANGED <<bodyLen, failed, fileVars, resVars, call>>

\* The buffer is full (or has room for one byte) and holds no line.
ReadRlTooLong ==
  /\ At("REQUEST_LINE")
  /\ \E end \in {BufLen - 1, BufLen} :
       /\ end \in bufEnd..Min({LineEnd(1) - 1, total})
       /\ Buffer(end)
  /\ status' = "BAD_REQUEST"
  /\ stage' = "BUILD_HEADER"
  /\ UNCHANGED <<method, lines, parsedEnd, bodyLen, failed, fileVars, resVars, call>>

ReadRlStops ==
  /\ At("REQUEST_LINE")
  /\ \E end \in bufEnd..Min({LineEnd(1) - 1, total, BufLen - 2}) : Buffer(end)
  /\ ReadStops
  /\ UNCHANGED <<method, lines, parsedEnd, bodyLen, fileVars, resVars>>

-----------------------------------------------------------------------------
(***************************************************************************)
(* read_hf: the room left is computed once, before the loop, and "too      *)
(* little" sets status and stage but does not return.                      *)
(***************************************************************************)
space_in_buffer == BufLen - bufEnd

CrampedStatus == IF space_in_buffer < 2 THEN "BAD_REQUEST" ELSE status
CrampedStage == IF space_in_buffer < 2 THEN "BUILD_HEADER" ELSE stage

\* Where buf_end is when the loop has a line: where it was, if the line was
\* there already, else wherever the last read of at most space_in_buffer
\* bytes left it.
LineBuffered(end) ==
  IF bufEnd >= LineEnd(lines + 1)
  THEN end = bufEnd
  ELSE end \in LineEnd(lines + 1)..(LineEnd(lines + 1) - 1 + space_in_buffer)

\* A line whose key is in `errors` is refused; any other may set body_len.
ParseField(hf, errors) ==
  IF hf.key \in errors
  THEN [bodyLen |-> bodyLen, status |-> "BAD_REQUEST", stage |-> "BUILD_HEADER"]
  ELSE [bodyLen |-> IF hf.key = "length" THEN hf.value ELSE bodyLen,
        status |-> CrampedStatus, stage |-> CrampedStage]

\* Faulty variant: a line without a colon is skipped.
Bug_parse_hf(hf) == ParseField(hf, {"badlength"})

\* parse_hf: a line without a colon and a Content-Length that is no number
\* are errors; a key that is empty or holds a blank ("badkey") is not.
parse_hf(hf) == ParseField(hf, {"badlength", "nocolon"})

ReadHfField ==
  /\ At("HEADER_FIELDS")
  /\ lines <= Len(input.hfs)
  /\ \E end \in bufEnd..total : LineBuffered(end) /\ Buffer(end)
  /\ LET p == parse_hf(input.hfs[lines])
     IN bodyLen' = p.bodyLen /\ status' = p.status /\ stage' = p.stage
  /\ lines' = lines + 1
  /\ parsedEnd' = LineEnd(lines + 1)
  /\ UNCHANGED <<method, failed, fileVars, resVars, call>>

\* open_get_file, with the status of a file that is not regular.
OpenGetFile(refused) ==
  IF input.rl.uri = "long" THEN [ok |-> FALSE, status |-> "BAD_REQUEST"]
  ELSE CASE file.kind \in {"absent", "uncreatable"} -> [ok |-> FALSE, status |-> "NOT_FOUND"]
         [] file.kind \in {"putonly", "denied"}     -> [ok |-> FALSE, status |-> refused]
         [] OTHER                                   -> [ok |-> TRUE, status |-> CrampedStatus]

\* Faulty variant: a file that is not regular leaves the status alone.
Bug_open_get_file == OpenGetFile(CrampedStatus)

\* open_get_file: MAX_PATH, lstat, S_ISREG, open.
open_get_file == OpenGetFile("FORBIDDEN")

\* The empty line: open the file of a GET or HEAD, go on to the body of a PUT
\* (whatever the cramped buffer set the stage to).
ReadHfEmpty ==
  /\ At("HEADER_FIELDS")
  /\ lines = Len(input.hfs) + 1
  /\ \E end \in bufEnd..total : LineBuffered(end) /\ Buffer(end)
  /\ IF method = "PUT"
     THEN /\ stage' = "READ_BODY"
          /\ status' = CrampedStatus
          /\ UNCHANGED <<getFd, opens>>
     ELSE /\ stage' = "BUILD_HEADER"
          /\ status' = open_get_file.status
          /\ getFd' = open_get_file.ok
          /\ opens' = IF open_get_file.ok THEN opens + 1 ELSE opens
  /\ lines' = lines + 1
  /\ parsedEnd' = LineEnd(lines + 1)
  /\ UNCHANGED <<method, bodyLen, failed, putFd, file, written, resVars, call>>

\* A read of no bytes reports the end of the stream; a negative room is a
\* huge size, which read refuses.
ReadHfStops ==
  /\ At("HEADER_FIELDS")
  /\ bufEnd < LineEnd(lines + 1)
  /\ CASE space_in_buffer > 0 ->
            /\ \E end \in bufEnd..Min({LineEnd(lines + 1) - 1, total}) : Buffer(end)
            /\ \/ call' = "idle" /\ stage' = CrampedStage /\ status' = CrampedStatus
                  /\ UNCHANGED failed
               \/ got' = total /\ stage' = "FINISHED" /\ status' = CrampedStatus
                  /\ UNCHANGED <<call, failed>>
               \/ stage' = "BUILD_HEADER" /\ status' = "INTERNAL_ERROR" /\ failed' = TRUE
                  /\ UNCHANGED call
       [] space_in_buffer = 0 ->
            /\ stage' = "FINISHED" /\ status' = "BAD_REQUEST"
            /\ UNCHANGED <<bufEnd, got, call, failed>>
       [] OTHER ->
            /\ stage' = "BUILD_HEADER" /\ status' = "INTERNAL_ERROR"
            /\ UNCHANGED <<bufEnd, got, call, failed>>
  /\ UNCHANGED <<method, lines, parsedEnd, bodyLen, fileVars, resVars>>

-----------------------------------------------------------------------------
(***************************************************************************)
(* read_request_body: the body bytes that came with the head (leftover)    *)
(* are copied to a scratch buffer, one read adds to them, and what is      *)
(* there is written to the file.  Nothing is written if the read stops,    *)
(* and the leftover is copied again at the next try.                       *)
(***************************************************************************)
leftover == bufEnd - parsedEnd

\* An unsigned subtraction in the code: negative here is huge there.
read_len == Min({ReadLen - leftover, bodyLen}) - leftover

\* create_filename: truncate the file if it is there, else create it.
create_filename ==
  LET refused(st) == [status |-> st, file |-> file, opened |-> 0, ok |-> FALSE]
      fresh(st, k) == [status |-> st, file |-> [kind |-> k, size |-> 0], opened |-> 1,
                       ok |-> TRUE]
  IN IF input.rl.uri = "long" THEN refused("INTERNAL_ERROR")
     ELSE CASE file.kind \in {"regular", "putonly"} -> fresh(status, file.kind)
            [] file.kind = "absent"                 -> fresh("CREATED", "regular")
            [] OTHER                                -> refused("FORBIDDEN")

\* Faulty variant: the file is opened again on every call.
Bug_OpenPut == create_filename

\* The file is opened when the body is first looked at.
OpenPut ==
  IF putFd THEN [status |-> status, file |-> file, opened |-> 0, ok |-> TRUE]
  ELSE create_filename

Opened(size) ==
  /\ putFd' = TRUE
  /\ opens' = opens + OpenPut.opened
  /\ file' = [OpenPut.file EXCEPT !.size = size]
  /\ UNCHANGED getFd

\* No room in the scratch buffer, or no file to write to.
ReadBodyRefused ==
  /\ At("READ_BODY")
  /\ leftover = ReadLen \/ ~OpenPut.ok
  /\ status' = IF leftover = ReadLen THEN "BAD_REQUEST" ELSE OpenPut.status
  /\ stage' = "BUILD_HEADER"
  /\ UNCHANGED <<reqVars, fileVars, resVars, call>>

\* The read of the body delivers nothing; a closed connection leads to `closed`.
BodyStops(closed) ==
  /\ At("READ_BODY")
  /\ leftover # ReadLen /\ OpenPut.ok
  /\ read_len # 0
  /\ Opened(OpenPut.file.size)
  /\ \/ read_len > 0 /\ call' = "idle" /\ stage' = stage /\ status' = OpenPut.status
        /\ UNCHANGED failed
     \/ read_len > 0 /\ got = total /\ stage' = closed /\ status' = OpenPut.status
        /\ UNCHANGED <<call, failed>>
     \/ stage' = "BUILD_HEADER" /\ status' = "INTERNAL_ERROR"
        /\ failed' = (failed \/ read_len > 0)
        /\ UNCHANGED call
  /\ UNCHANGED <<method, lines, bufEnd, parsedEnd, got, bodyLen, written, resVars>>

\* Faulty variant: a client that closes early is answered as if it were done.
Bug_ReadBodyStops == BodyStops("BUILD_HEADER")

\* The file is open, and the read delivers nothing; with a leftover longer
\* than the body it always fails.
ReadBodyStops == BodyStops("FINISHED")

\* Where a read of up to read_len body bytes, if one is needed, leaves `got`.
BodyRead == IF read_len = 0 THEN {got} ELSE (got + 1)..Min({got + read_len, total})

\* The read delivers, and everything in the scratch buffer is written; `parsed`
\* is parsed_end afterwards, `last` the stage behind the last byte of the body.
StoreBody(parsed, last) ==
  /\ At("READ_BODY")
  /\ leftover # ReadLen /\ OpenPut.ok /\ read_len >= 0
  /\ \E g \in BodyRead :
       LET n == leftover + g - got
       IN  /\ got' = g
           /\ Opened(OpenPut.file.size + n)
           /\ written' = written + n
           /\ bodyLen' = bodyLen - n
           /\ status' = OpenPut.status
           /\ stage' = IF bodyLen = n THEN last ELSE stage
  /\ parsedEnd' = parsed
  /\ UNCHANGED <<method, lines, bufEnd, failed, resVars, call>>

\* Faulty variants: the leftover is not consumed, so that the next call writes
\* it again; a stored body ends the request without an answer.
Bug_ReadBodyStores == StoreBody(parsedEnd, "BUILD_HEADER")
Bug_ReadBodyForgetsAnswer == StoreBody(bufEnd, "FINISHED")

\* There is never more in the scratch buffer than body_len: the code's test
\* for that is dead.
ReadBodyStores == StoreBody(bufEnd, "BUILD_HEADER")

\* A write to the file fails, after some of the bytes were written.
ReadBodyWriteError ==
  /\ At("READ_BODY")
  /\ leftover # ReadLen /\ OpenPut.ok /\ read_len >= 0
  /\ \E g \in BodyRead :
       \E m \in 0..(leftover + g - got - 1) :
         /\ got' = g
         /\ Opened(OpenPut.file.size + m)
         /\ written' = written + m
         /\ bodyLen' = bodyLen - m
  /\ status' = "INTERNAL_ERROR"
  /\ stage' = "BUILD_HEADER"
  /\ failed' = TRUE
  /\ UNCHANGED <<method, lines, bufEnd, parsedEnd, resVars, call>>

-----------------------------------------------------------------------------
(***************************************************************************)
(* The response.                                                           *)
(***************************************************************************)
ServesFile == status = "OK" /\ method \in {"GET", "HEAD"}

\* A response head, followed by the status again unless a file is served.
BuildHead(serves) ==
  /\ At("BUILD_HEADER")
  /\ promised' = IF ServesFile THEN file.size ELSE StaticLen
  /\ res' = [hdr |-> HdrLen, body |-> IF serves THEN 0 ELSE StaticLen]
  /\ headers' = headers + 1
  /\ stage' = "SEND_RES"
  /\ UNCHANGED <<status, reqVars, fileVars, filePos, bodySent, call>>

\* Faulty variant: the status is repeated in the body of every response.
Bug_build_header == BuildHead(FALSE)

\* build_header: status line, Content-Length (the file's size, or the length
\* of the repeated status) and, if status != OK or the method is PUT, that
\* status.
build_header == BuildHead(status = "OK" /\ method # "PUT")

\* read_get_body: a buffer full of the file, or its end, or an error.
ReadFileChunk ==
  /\ At("READ_FILE")
  /\ \E n \in 1..Min({ResLen, file.size - filePos}) :
       filePos' = filePos + n /\ res' = [res EXCEPT !.body = n]
  /\ stage' = "SEND_RES"
  /\ UNCHANGED <<status, reqVars, fileVars, promised, headers, bodySent, call>>

\* Faulty variant: the end of the file is sent as one more, empty, chunk.
Bug_ReadFileEnd ==
  /\ At("READ_FILE")
  /\ stage' = IF filePos = file.size THEN "SEND_RES" ELSE "FINISHED"
  /\ UNCHANGED <<status, reqVars, fileVars, resVars, call>>

\* Faulty variant: an error is answered, as everywhere else, although the head
\* of an answer has left.
Bug_ReadFileError ==
  /\ At("READ_FILE")
  /\ \/ stage' = "FINISHED" /\ UNCHANGED status
     \/ stage' = "BUILD_HEADER" /\ status' = "INTERNAL_ERROR"
  /\ UNCHANGED <<reqVars, fileVars, resVars, call>>

\* The file ends, or reading it fails: "too late to send error".
ReadFileEnd ==
  /\ At("READ_FILE")
  /\ stage' = "FINISHED"
  /\ UNCHANGED <<status, reqVars, fileVars, resVars, call>>

\* n bytes of the response buffer leave, head first.
Flush(n) ==
  LET h == Min({n, res.hdr})
  IN  /\ res' = [hdr |-> res.hdr - h, body |-> res.body - (n - h)]
      /\ bodySent' = bodySent + (n - h)

\* send_res: everything is sent ...
SendAll ==
  /\ At("SEND_RES")
  /\ Flush(res.hdr + res.body)
  /\ stage' = IF method # "GET" \/ status # "OK" THEN "FINISHED" ELSE "READ_FILE"
  /\ UNCHANGED <<status, reqVars, fileVars, filePos, promised, headers, call>>

\* ... or the socket takes only a part (come back later) or breaks.
SendStops ==
  /\ At("SEND_RES")
  /\ \E n \in 0..(res.hdr + res.body - 1) : Flush(n)
  /\ \/ call' = "idle" /\ UNCHANGED stage
     \/ stage' = "FINISHED" /\ UNCHANGED call
  /\ UNCHANGED <<status, reqVars, fileVars, filePos, promised, headers>>

\* send_log and cleanup, which closes n files; handle_request returns true.
Close(n) ==
  /\ At("FINISHED")
  /\ opens' = opens - n
  /\ call' = "done"
  /\ UNCHANGED <<stage, status, reqVars, putFd, getFd, file, written, resVars>>

\* Faulty variant: both descriptors are closed without looking at them.
Bug_Finish == Close(2)

\* Each descriptor that is not -1 is closed.
Finish == Close((IF putFd THEN 1 ELSE 0) + (IF getFd THEN 1 ELSE 0))

handle_request ==
  \/ ReadRlLine \/ ReadRlTooLong \/ ReadRlStops
  \/ ReadHfField \/ ReadHfEmpty \/ ReadHfStops
  \/ ReadBodyRefused \/ ReadBodyStops \/ ReadBodyStores \/ ReadBodyWriteError
  \/ build_header \/ ReadFileChunk \/ ReadFileEnd
  \/ SendAll \/ SendStops
  \/ Finish

Next == Call \/ handle_request

Spec == Init /\ [][Next]_vars

\* The thread that runs handle_request keeps running.
FairSpec == Spec /\ WF_vars(handle_request)

-----------------------------------------------------------------------------
(***************************************************************************)
(* Properties.                                                             *)
(***************************************************************************)

\* The Content-Length of the header lines parsed so far (the last one wins).
Declared(n) ==
  LET set == {k \in 1..n : input.hfs[k].key = "length"}
  IN  IF set = {} THEN 0 ELSE input.hfs[Max(set)].value

DeclaredBody == Declared(Len(input.hfs))

\* read_request_body neither loses nor repeats a byte, however the body is
\* cut into reads and however often the socket was not ready: what was
\* written and what is missing add up to the Content-Length, and what was
\* written and what still lies in the header buffer to what was received.
BodyAccounting ==
  stage = "READ_BODY" =>
    /\ written + bodyLen = DeclaredBody
    /\ written + leftover = got - HeadEnd
    /\ putFd => file.size = written

\* A PUT is answered with 200 or 201 only when the whole body the client
\* declared is in the file.
PutStoresBody ==
  (headers > 0 /\ method = "PUT" /\ status \in {"OK", "CREATED"}) =>
    file.kind \in {"regular", "putonly"} /\ file.size = DeclaredBody

\* The assertions of file_size and read_get_body: a response that serves a
\* file has that file open.
ServedFileIsOpen ==
  (stage = "BUILD_HEADER" /\ ServesFile) \/ stage = "READ_FILE" => getFd

\* The Content-Length of a response is what is sent: sent, buffered and still
\* unread bytes add up to it (a HEAD response has a length and no body).
ContentLengthHonest ==
  stage \in {"SEND_RES", "READ_FILE"} =>
    /\ headers = 1
    /\ bodySent + res.body
         + (IF ServesFile THEN file.size - filePos ELSE 0) = promised

\* Every file a request opened is closed when handle_request returns true.
FilesClosed == call = "done" => opens = 0

\* A header key that is empty or holds a blank.
BadKey == \E k \in DOMAIN input.hfs : input.hfs[k].key = "badkey"

\* What the request deserves, as a function of its text and of the file.
Deserved ==
  LET malformed == \/ input.rl.method \in {"invalid", "nospace"}
                   \/ input.rl.uri = "invalid" \/ input.rl.proto = "invalid"
                   \/ BadKey
                   \/ \E k \in DOMAIN input.hfs :
                        input.hfs[k].key \in {"badlength", "nocolon"}
      put == input.rl.method = "PUT"
      kind == input.file.kind
  IN  CASE input.rl.method = "other" -> "NOT_IMPLEMENTED"
        [] input.rl.method # "other" /\ malformed -> "BAD_REQUEST"
        [] OTHER ->
             IF input.rl.uri = "long" THEN IF put THEN "INTERNAL_ERROR" ELSE "BAD_REQUEST"
             ELSE IF kind \in {"regular", IF put THEN "putonly" ELSE "readonly"} THEN "OK"
             ELSE IF put /\ kind = "absent" THEN "CREATED"
             ELSE IF ~put /\ kind \in {"absent", "uncreatable"} THEN "NOT_FOUND"
             ELSE "FORBIDDEN"

\* More body than was declared came along with the head.
Surplus == method = "PUT" /\ bufEnd > HeadEnd + DeclaredBody

\* As long as no read or write failed, a request gets the answer it deserves,
\* and the answer depends on how the network cut the request up in two ways
\* only: an upload whose surplus came along with the head is answered with 500
\* (and as if it had none when the surplus came later), and a request that
\* filled the header buffer up to its last byte but one may be answered with
\* 400 (with 500 once it overran the buffer).  Bad keys are the business of
\* BadKeyIsBadRequest.
AnswerMatchesRequest ==
  (headers > 0 /\ ~failed /\ ~BadKey) =>
    \/ status = IF Surplus /\ Deserved \in {"OK", "CREATED"} THEN "INTERNAL_ERROR" ELSE Deserved
    \/ status = "BAD_REQUEST" /\ bufEnd >= BufLen - 1
    \/ status = "INTERNAL_ERROR" /\ bufEnd > BufLen

\* A connection is closed without an answer only if the client closed it
\* before its request was complete, or if the header buffer was filled to the
\* last byte before the head was: read_hf takes a read into no room for the
\* end of the connection.
CompleteRequestAnswered ==
  (call = "done" /\ headers = 0) =>
    \/ total < HeadEnd + (IF method = "PUT" THEN DeclaredBody ELSE 0)
    \/ bufEnd = BufLen /\ bufEnd < HeadEnd

\* Every call of handle_request returns: its loop never spins.
CallReturns == call = "running" ~> call # "running"

\* Seen by its client, a connection is one Exchange: at most one answer, whose
\* status and length are settled when its head is built and never change, and
\* whose body is never longer than announced, however the stages, the resumed
\* calls and the errors follow each other.
Client == INSTANCE Exchange WITH
  Answers <- Statuses, NoAnswer <- "none",
  phase <- IF stage = "FINISHED" THEN "closed"
           ELSE IF headers = 0 THEN "receiving" ELSE "answering",
  answer <- IF headers = 0 THEN "none" ELSE status,
  delivered <- bodySent
ImplementsExchange == Client!Spec

(***************************************************************************)
(* What test scripts expect and the code does not do.                      *)
(***************************************************************************)

\* my_bad_put.sh: a PUT that arrives whole, with more body than it declared,
\* is answered with 400 (failed reads and writes apart).
OverlongPutIsBadRequest ==
  (headers > 0 /\ ~failed /\ method = "PUT" /\ lines = Len(input.hfs) + 2
     /\ input.body > DeclaredBody /\ bufEnd = HeadEnd + input.body) => status = "BAD_REQUEST"

\* put_existing_ascii_large.sh: a well-formed PUT to an existing file succeeds,
\* however large its body (failed reads and writes apart).
LargePutSucceeds ==
  (headers > 0 /\ ~failed /\ method = "PUT" /\ input.body = DeclaredBody
     /\ total = HeadEnd + input.body) => status = "OK"

\* my_bad_key.sh: a request with a header key that is empty or holds a blank
\* is answered with 400 (failed reads and writes apart).
BadKeyIsBadRequest == (headers > 0 /\ ~failed /\ BadKey) => status = "BAD_REQUEST"
=============================================================================
