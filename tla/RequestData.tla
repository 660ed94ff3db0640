---------------------------- MODULE RequestData ----------------------------
(***************************************************************************)
(* What a request becomes: the callbacks of http_request_parser.c collect  *)
(* target, header lines and body from pieces that end wherever a read      *)
(* ended, prepare_call_wsgi of server.c makes the body an input, and the   *)
(* application reads it through input.c.                                   *)
(*                                                                         *)
(* The tokenizer of http_parser.c is kept as far as it decides which       *)
(* pieces the callbacks see.  A read that ends inside a part cuts it after *)
(* at least one character; the piece that ends a part is empty when the    *)
(* read before it ended there, and when a value is empty.  A line without  *)
(* a colon has a name and no value, a folded line has a value for each of  *)
(* its lines.  Pieces of the body are never empty and never span chunks.   *)
(* Lines after a chunked body (trailers) are not sent.                     *)
(*                                                                         *)
(* Connection models when these callbacks run and what a refusal does to   *)
(* the connection; this module models their data.  Out of memory, protocol *)
(* version and the keys that do not come from the message are left out.    *)
(***************************************************************************)
EXTENDS RequestText, FiniteSets, SequencesExt

CONSTANTS
  None,             (* the NULL pointer; no declared length                *)
  Messages,         (* the requests that may be sent                       *)
  PathSize,         (* 1024, the first size of the path's buffer           *)
  PathLimit,        (* LIMIT_PATH                                          *)
  FieldLimit,       (* LIMIT_REQUEST_FIELDS                                *)
  FieldSizeLimit,   (* LIMIT_REQUEST_FIELD_SIZE                            *)
  MaxContent,       (* max_content_length                                  *)
  BodyBufferSize,   (* client_body_buffer_size                             *)
  BufferMax,        (* LIMIT_MAX of buffer.c                               *)
  ContentType,      (* CONTENT_TYPE and CONTENT_LENGTH, the keys that      *)
  ContentLength,    (*   are no HTTP_ ones                                 *)
  Sizes             (* the arguments of read, readline and readlines       *)

Text == Seq(0 .. 255)

Message ==
  [url: Text, lines: Seq([name: Text, values: Seq(Text)]),
   method: STRING, declared: Nat \union {None}, chunked: BOOLEAN,
   body: Text, ends: SUBSET Nat]      \* ends: where the chunks end

Buffer     == [text: Text, size: Nat, limit: Nat]
StoredBody == [kind: {"buffer"}, buf: Buffer] \union [kind: {"tmpfile"}, text: Text]
Input      == [kind: {"memory", "file"}, text: Text, pos: Nat]

ASSUME RequestAssumption ==
  /\ None \notin Nat /\ None \notin Text /\ None \notin Buffer
  /\ None \notin StoredBody /\ None \notin Input
  /\ Messages \subseteq Message
  /\ \A m \in Messages : m.url # << >> /\ \A i \in DOMAIN m.lines : m.lines[i].name # << >>
  /\ \A m \in Messages :
       IF m.chunked THEN m.declared = None
       ELSE Len(m.body) = IF m.declared = None THEN 0 ELSE m.declared
  /\ PathSize \in Nat \ {0} /\ PathLimit \in Nat /\ PathSize <= PathLimit
  /\ FieldLimit \in Nat /\ FieldSizeLimit \in Nat
  /\ MaxContent \in Nat /\ BodyBufferSize \in Nat
  /\ BufferMax \in Nat /\ MaxContent < BufferMax
  /\ ContentType \in Text /\ ContentLength \in Text /\ ContentType # ContentLength
  /\ ~ IsPrefix(Prefix, ContentType) /\ ~ IsPrefix(Prefix, ContentLength)
  /\ Sizes \subseteq Int

VARIABLES
  msg,       (* the request that is sent                                   *)
  at,        (* the part the tokenizer is in: <<line, value>>, with        *)
             (*   <<0, 0>> the target and <<i, 0>> the name of line i      *)
  done,      (* the characters of this part already passed on              *)
  phase, code,
  path, field, value, last, num_headers,       (* fields of the request    *)
  body, body_length, body_readed,
  headers,   (* the environ's keys from header lines                       *)
  environ,   (* PATH_INFO, QUERY_STRING and REQUEST_METHOD                 *)
  input,     (* wsgi.input                                                 *)
  answer     (* what the application's last call on it returned            *)

sent == <<msg, at, done>>
headVars == <<path, field, value, last, num_headers, headers>>
bodyVars == <<body, body_length, body_readed>>
callVars == <<input, answer>>
vars == <<sent, phase, code, headVars, bodyVars, environ, callVars>>

----------------------------------------------------------------------------
(* The tokenizer.                                                           *)

Line == at[1]
Part == IF Line = 0 THEN msg.url
        ELSE IF at[2] = 0 THEN msg.lines[Line].name ELSE msg.lines[Line].values[at[2]]
Left == Len(Part) - done
Piece(n) == SubSeq(Part, done + 1, done + n)

NextPart ==
  IF Line > 0 /\ at[2] < Len(msg.lines[Line].values)
  THEN <<Line, at[2] + 1>> ELSE <<Line + 1, 0>>

\* n characters are passed on, and the part ends or the read does
Cut(n, ends) == IF ends THEN n = Left ELSE n \in 1 .. Left
Pass(n, ends) ==
  /\ at' = IF ends THEN NextPart ELSE at
  /\ done' = IF ends THEN 0 ELSE done + n
  /\ UNCHANGED <<msg, phase, code>>

Refuse(c) == phase' = "refused" /\ code' = c /\ UNCHANGED sent

NoAnswer == [call |-> "none", arg |-> None, lines |-> << >>]

Init ==
  /\ msg \in Messages /\ at = <<0, 0>> /\ done = 0
  /\ phase = "head" /\ code = 0
  /\ path = None /\ field = None /\ value = None
  /\ last = "FIELD" /\ num_headers = 0
  /\ body = None /\ body_length = 0 /\ body_readed = 0
  /\ headers = << >> /\ environ = None
  /\ input = None /\ answer = NoAnswer

----------------------------------------------------------------------------
(* The head.                                                                *)

url_cb(n, ends) ==
  LET buf == IF path = None THEN new_buffer(PathSize, PathLimit) ELSE path
  IN  /\ phase = "head" /\ Line = 0 /\ Cut(n, ends)
      /\ path' = write2buf(buf, Piece(n))
      /\ IF Overflows(buf, Piece(n)) THEN Refuse(400) ELSE Pass(n, ends)
      /\ UNCHANGED <<field, value, last, num_headers, headers, bodyVars, environ, callVars>>

add_header ==
  /\ headers' = WithHeader(headers, field, value)
  /\ num_headers' = num_headers + 1

InName == phase = "head" /\ Line \in 1 .. Len(msg.lines) /\ at[2] = 0

\* the name of a line that follows a complete one
header_field_cb(n, ends) ==
  LET name == Prefix \o key_upper(Piece(n))
  IN  /\ InName /\ last = "VALUE" /\ Cut(n, ends)
      /\ IF FieldLimit <= num_headers
         THEN Refuse(400) /\ UNCHANGED headVars
         ELSE /\ add_header /\ value' = None
              /\ IF Len(name) > FieldSizeLimit
                 THEN Refuse(400) /\ field' = None /\ last' = last
                 ELSE Pass(n, ends) /\ field' = name /\ last' = "FIELD"
      /\ UNCHANGED <<path, bodyVars, environ, callVars>>

\* the first name, another piece of a name, or the line after one without a colon
MoreName(n, ends) ==
  LET name == (IF field = None THEN Prefix ELSE field) \o key_upper(Piece(n))
  IN  /\ InName /\ last = "FIELD" /\ Cut(n, ends)
      /\ IF Len(name) > FieldSizeLimit
         THEN Refuse(400) /\ UNCHANGED field
         ELSE Pass(n, ends) /\ field' = name
      /\ UNCHANGED <<path, value, last, num_headers, headers, bodyVars, environ, callVars>>

header_value_cb(n, ends) ==
  LET val == (IF value = None THEN << >> ELSE value) \o Piece(n)
  IN  /\ phase = "head" /\ Line > 0 /\ at[2] > 0 /\ Cut(n, ends)
      /\ IF Len(val) > FieldSizeLimit
         THEN Refuse(400) /\ UNCHANGED <<value, last>>
         ELSE Pass(n, ends) /\ value' = val /\ last' = "VALUE"
      /\ UNCHANGED <<path, field, num_headers, headers, bodyVars, environ, callVars>>

SwitchMethods ==
  {"DELETE", "GET", "HEAD", "POST", "PUT", "PATCH", "CONNECT", "OPTIONS", "TRACE", "COPY",
   "LOCK", "MKCOL", "MOVE", "PROPFIND", "PROPPATCH", "UNLOCK", "REPORT", "MKACTIVITY",
   "CHECKOUT", "MERGE"}

Moved(env) ==
  replace_env_key(replace_env_key(env, Prefix \o ContentType, ContentType),
                  Prefix \o ContentLength, ContentLength)

InEnd == phase = "head" /\ Line > Len(msg.lines)
TooLong == msg.declared # None /\ MaxContent < msg.declared

DeclaredLengthRaw == msg.declared     \* faulty: the tokenizer's mark for no length
DeclaredLength == IF msg.declared = None THEN 0 ELSE msg.declared

headers_complete_cb ==
  /\ InEnd /\ ~TooLong
  /\ environ' = [target |-> set_path(path.text),
                 method |-> IF msg.method \in SwitchMethods THEN msg.method ELSE "GET"]
  /\ path' = None
  /\ IF field # None /\ value # None
     THEN /\ headers' = Moved(WithHeader(headers, field, value))
          /\ num_headers' = num_headers + 1 /\ field' = None /\ value' = None
     ELSE /\ headers' = Moved(headers)
          /\ UNCHANGED <<num_headers, field, value>>
  /\ body_length' = DeclaredLength
  /\ phase' = "body"
  /\ UNCHANGED <<sent, code, last, body, body_readed, callVars>>

RefuseLength ==
  /\ InEnd /\ TooLong
  /\ Refuse(413)
  /\ UNCHANGED <<headVars, bodyVars, environ, callVars>>

----------------------------------------------------------------------------
(* The body.                                                                *)

BodyPiece(n) == SubSeq(msg.body, body_readed + 1, body_readed + n)

InBody(n) ==
  /\ phase = "body" /\ n \in 1 .. Len(msg.body) - body_readed
  /\ \A e \in msg.ends : e <= body_readed \/ body_readed + n <= e

BodyCodePieceOnly(n) ==   \* faulty: each piece is measured for itself
  IF MaxContent < n THEN 413
  ELSE IF body = None /\ body_length = 0 /\ ~msg.chunked THEN 411 ELSE 0

BodyCode(n) ==
  IF MaxContent < body_readed + n THEN 413
  ELSE IF body = None /\ body_length = 0 /\ ~msg.chunked THEN 411 ELSE 0

NewBody ==
  IF body_length > BodyBufferSize
  THEN [kind |-> "tmpfile", text |-> << >>]
  ELSE [kind |-> "buffer", buf |-> new_buffer(body_length, BufferMax)]

write_body2memAnew(b, text) ==    \* faulty: each piece starts the buffer again
  [b EXCEPT !.buf = write2buf(new_buffer(@.size, @.limit), text)]

write_body2mem(b, text)  == [b EXCEPT !.buf = write2buf(@, text)]
write_body2file(b, text) == [b EXCEPT !.text = @ \o text]
write_body(b, text) ==
  IF b.kind = "tmpfile" THEN write_body2file(b, text) ELSE write_body2mem(b, text)

body_cb(n) ==
  /\ InBody(n)
  /\ IF BodyCode(n) # 0
     THEN Refuse(BodyCode(n)) /\ UNCHANGED bodyVars
     ELSE /\ body' = write_body(IF body = None THEN NewBody ELSE body, BodyPiece(n))
          /\ body_readed' = body_readed + n
          /\ UNCHANGED <<sent, phase, code, body_length>>
  /\ UNCHANGED <<headVars, environ, callVars>>

message_complete_cb ==
  /\ phase = "body" /\ body_readed = Len(msg.body)
  /\ phase' = "complete"
  /\ UNCHANGED <<sent, code, headVars, bodyVars, environ, callVars>>

----------------------------------------------------------------------------
(* The input.  A temporary file is rewound and left to Python's files.      *)

set_input_file == [kind |-> "file", text |-> body.text, pos |-> 0]
set_input_object ==
  [kind |-> "memory", text |-> IF body = None THEN << >> ELSE body.buf.text, pos |-> 0]

prepare_call_wsgi ==
  /\ phase = "complete"
  /\ input' = IF body # None /\ body.kind = "tmpfile" THEN set_input_file ELSE set_input_object
  /\ body' = None
  /\ phase' = "calling"
  /\ UNCHANGED <<sent, code, headVars, body_length, body_readed, environ, answer>>

Reading == phase = "calling" /\ input.kind = "memory"

\* the call gives the characters behind pos as lines that end at these places
Give(call, arg, ends) ==
  LET es == Ascending(ends)
      start(i) == IF i = 1 THEN input.pos ELSE es[i - 1]
  IN  /\ answer' = [call |-> call, arg |-> arg,
                    lines |-> [i \in DOMAIN es |-> SubSeq(input.text, start(i) + 1, es[i])]]
      /\ input' = [input EXCEPT !.pos = Max(ends \union {@})]
      /\ UNCHANGED <<sent, phase, code, headVars, bodyVars, environ>>

InputObject_read(n) ==
  LET l == Len(input.text) - input.pos
  IN  Reading /\ Give("read", n, {input.pos + (IF n < 0 \/ n > l THEN l ELSE n)})

\* what is longer than size is given back
InputObject_readline(size) ==
  LET end == inner_readline(input.text, input.pos)
  IN  Reading /\ Give("readline", size,
                      {IF size >= 0 /\ size < end - input.pos THEN input.pos + size ELSE end})

\* lines are read until their total reaches the hint
InputObject_readlines(hint) ==
  LET all == {inner_readline(input.text, p) : p \in input.pos .. Len(input.text) - 1}
      Before(e) == {f \in all : f < e}
  IN  Reading /\ Give("readlines", hint,
                      {e \in all : hint > 0 => \A f \in Before(e) : f - input.pos < hint})

\* an empty line ends the iteration
InputObject_iternext ==
  LET end == inner_readline(input.text, input.pos)
  IN  Reading /\ Give("next", None, {end} \ {input.pos})

----------------------------------------------------------------------------
Next ==
  \/ /\ phase = "head" /\ ~InEnd
     /\ \E ends \in BOOLEAN, n \in 0 .. Left :
          \/ url_cb(n, ends)
          \/ header_field_cb(n, ends)
          \/ MoreName(n, ends)
          \/ header_value_cb(n, ends)
  \/ headers_complete_cb
  \/ RefuseLength
  \/ \E n \in 1 .. Len(msg.body) : body_cb(n)
  \/ message_complete_cb
  \/ prepare_call_wsgi
  \/ \E n \in Sizes : InputObject_read(n) \/ InputObject_readline(n) \/ InputObject_readlines(n)
  \/ InputObject_iternext

Spec == Init /\ [][Next]_vars

----------------------------------------------------------------------------
(* What the properties compare with, said of the whole message.             *)

\* lines without a colon and the line after them make one header
Starts(m) ==
  {i \in DOMAIN m.lines : i = 1 \/ m.lines[i - 1].values # << >>}
Stop(m, i) ==
  Min({j \in i .. Len(m.lines) : j = Len(m.lines) \/ m.lines[j].values # << >>})
KeyOf(m, i) ==
  Prefix \o key_upper(FlattenSeq([k \in 1 .. Stop(m, i) - i + 1 |-> m.lines[i + k - 1].name]))
ValueOf(m, i) == FlattenSeq(m.lines[Stop(m, i)].values)
Valued(m) == {i \in Starts(m) : m.lines[Stop(m, i)].values # << >>}

Verdict(m) ==
  IF \/ Len(m.url) > PathLimit
     \/ Cardinality(Starts(m)) > FieldLimit + 1
     \/ \E i \in Starts(m) : Len(KeyOf(m, i)) > FieldSizeLimit \/ Len(ValueOf(m, i)) > FieldSizeLimit
  THEN 400
  ELSE IF Len(m.body) > MaxContent THEN 413 ELSE 0

ValuesOf(m, key) ==
  LET is == Ascending({i \in Valued(m) : KeyOf(m, i) = key})
  IN  FlattenSeq([j \in DOMAIN is |-> (IF j = 1 THEN << >> ELSE Separator) \o ValueOf(m, is[j])])
HeadersOf(m) ==
  LET Named(k) == IF k = Prefix \o ContentType THEN ContentType
                  ELSE IF k = Prefix \o ContentLength THEN ContentLength ELSE k
      keys == {KeyOf(m, i) : i \in Valued(m)}
  IN  [n \in {Named(k) : k \in keys} |->
         ValuesOf(m, CHOOSE k \in keys : Named(k) = n)]

Ends(u) == {i \in DOMAIN u : u[i] \in {Question, Hash}}
PathOf(u) == SubSeq(u, 1, Min(Ends(u) \union {Len(u) + 1}) - 1)
QueryOf(u) ==
  LET q == Min(Ends(u))
  IN  IF Ends(u) = {} \/ u[q] = Hash THEN << >>
      ELSE SubSeq(u, q + 1, Min({i \in q .. Len(u) : u[i] = Hash} \union {Len(u) + 1}) - 1)

HexDigit(c) == c \in 48 .. 57 \/ Upper(c) \in 65 .. 70
Hex(c) == IF c \in 48 .. 57 THEN c - 48 ELSE Upper(c) - 55
WellEscaped(p) ==
  \A i \in DOMAIN p : p[i] = Percent => i + 2 <= Len(p) /\ HexDigit(p[i + 1]) /\ HexDigit(p[i + 2])
Decoded(p) ==
  LET is == Ascending({i \in DOMAIN p : \A j \in DOMAIN p \intersect {i - 1, i - 2} : p[j] # Percent})
  IN  [k \in DOMAIN is |-> IF p[is[k]] = Percent THEN 16 * Hex(p[is[k] + 1]) + Hex(p[is[k] + 2])
                           ELSE p[is[k]]]

----------------------------------------------------------------------------
(* Properties.                                                              *)

\* Every variable keeps its type: the fields of request and of InputObject.
TypeOK ==
  /\ msg \in Message /\ at \in Nat \X Nat /\ done \in Nat
  /\ phase \in {"head", "body", "complete", "calling", "refused"}
  /\ code \in {0, 400, 411, 413}
  /\ path \in Buffer \union {None}
  /\ field \in Text \union {None} /\ value \in Text \union {None}
  /\ last \in {"FIELD", "VALUE"} /\ num_headers \in Nat
  /\ body \in StoredBody \union {None}
  /\ body_length \in Nat /\ body_readed \in Nat
  /\ input \in Input \union {None}

\* A buffer keeps a byte free behind its text, which getString and set_query
\* touch, and the path's buffer never grows past its limit and that byte.
BufferHolds ==
  /\ path # None => Len(path.text) < path.size /\ path.size <= PathLimit + 1
  /\ body # None /\ body.kind = "buffer" =>
       Len(body.buf.text) < body.buf.size /\ body.buf.size <= BufferMax + 1

\* Whether a request is taken, and with which code it is refused, follows
\* from the message: never from where the reads cut it (the limit checks of
\* url_cb, header_field_cb, header_value_cb, headers_complete_cb, body_cb).
OutcomeOfMessage ==
  /\ phase = "refused" => code = Verdict(msg)
  /\ phase \in {"complete", "calling"} => Verdict(msg) = 0

\* The environ has the headers of the message, whatever the pieces: lines of
\* one name joined in order, folded and colonless lines glued, the content
\* keys without their prefix (add_header, replace_env_key).
EnvironOfMessage == environ # None => headers = HeadersOf(msg)

\* PATH_INFO is the decoded path and QUERY_STRING the text between ? and #,
\* for every target whose escapes are complete and do not escape a percent
\* sign (set_path, set_query, urldecode).
PathAndQuery ==
  LET p == PathOf(msg.url)
  IN  environ # None /\ WellEscaped(p) /\ Percent \notin ToSet(Decoded(p))
        => environ.target = [path |-> Decoded(p), query |-> QueryOf(msg.url)]

\* The application finds the body that was sent, from its first byte,
\* in memory or in a file, whatever the pieces and chunks (body_cb,
\* write_body, set_input_file, set_input_object).
BodyArrives ==
  input # None => input.text = msg.body /\ (answer.call = "none" => input.pos = 0)

\* What a file at this position would answer (input.c).
LineOrRest(line, rest) ==
  /\ IsPrefix(line, rest)
  /\ \A i \in 1 .. Len(line) - 1 : line[i] # Newline
  /\ line = rest \/ (line # << >> /\ line[Len(line)] = Newline)

FileAnswer(a, rest) ==
  LET given == FlattenSeq(a.lines)
  IN  CASE a.call = "read" ->
             IF a.arg < 0 \/ a.arg > Len(rest) THEN given = rest
             ELSE given = SubSeq(rest, 1, a.arg)
        [] a.call = "readline" ->
             IF a.arg >= 0 /\ Len(given) = a.arg
             THEN /\ IsPrefix(given, rest)
                  /\ \A i \in 1 .. Len(given) - 1 : given[i] # Newline
             ELSE LineOrRest(given, rest) /\ (a.arg >= 0 => Len(given) < a.arg)
        [] a.call = "readlines" ->
             LET Before(i) == Len(FlattenSeq(SubSeq(a.lines, 1, i - 1)))
                 enough == a.arg > 0 /\ Len(given) >= a.arg
             IN  /\ IsPrefix(given, rest)
                 /\ \A i \in DOMAIN a.lines :
                      /\ a.lines[i] # << >>
                      /\ LineOrRest(a.lines[i], SubSeq(rest, Before(i) + 1, Len(rest)))
                      /\ a.arg > 0 => Before(i) < a.arg
                 /\ given = rest \/ enough
        [] OTHER ->
             IF rest = << >> THEN a.lines = << >>
             ELSE Len(a.lines) = 1 /\ given # << >> /\ LineOrRest(given, rest)

\* read, readline, readlines and iteration, in any order and with any
\* argument, answer as a file at the position the calls before have left,
\* and move it by what they gave.
ReadsLikeAFile ==
  [][input # None /\ (answer' # answer \/ input' # input) =>
       /\ FileAnswer(answer', SubSeq(input.text, input.pos + 1, Len(input.text)))
       /\ input'.pos = input.pos + Len(FlattenSeq(answer'.lines))]_vars
============================================================================
