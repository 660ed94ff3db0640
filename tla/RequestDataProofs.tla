------------------------- MODULE RequestDataProofs -------------------------
(* For any messages, sizes and limits, and wherever the reads cut a        *)
(* message: buffers are never filled to the last byte; the body which       *)
(* arrives is the one that was sent, and the input over it answers as a     *)
(* file; whether a request is refused, and the environ, path and query the  *)
(* application gets, follow from the message alone.                         *)
EXTENDS RequestData, FiniteSetTheorems, SequenceTheorems, WellFoundedInduction, TLAPS

----------------------------------------------------------------------------
(* Least and greatest numbers.                                              *)

LEMMA LeastExists ==
  ASSUME NEW S \in SUBSET Nat, S # {}
  PROVE  \E x \in S : \A y \in S : x <= y
<1>. DEFINE R == OpToRel(<, Nat)
<1>1. IsWellFoundedOn(R, Nat)
  BY NatLessThanWellFounded
<1>2. \A x, y \in S : <<y, x>> \in R <=> y < x
  BY DEF OpToRel
<1>. HIDE DEF R
<1>3. PICK x \in S : \A y \in S : ~ (<<y, x>> \in R)
  BY <1>1, WFMin
<1>4. \A y \in S : x <= y
  <2>. TAKE y \in S
  <2>1. x \in Nat /\ y \in Nat
    OBVIOUS
  <2>2. ~(y < x)
    BY <1>2, <1>3
  <2>. QED
    BY <2>1, <2>2
<1>. QED
  BY <1>4

LEMMA MinIsIn ==
  ASSUME NEW S \in SUBSET Nat, S # {}
  PROVE  Min(S) \in S /\ \A y \in S : Min(S) <= y
BY LeastExists DEF Min

LEMMA MaxIsIn ==
  ASSUME NEW n \in Nat, NEW S \in SUBSET (0 .. n), S # {}
  PROVE  Max(S) \in S /\ \A y \in S : y <= Max(S)
<1>. DEFINE T == {n - x : x \in S}
<1>1. T \in SUBSET Nat /\ T # {}
  <2>1. \A x \in S : n - x \in Nat
    OBVIOUS
  <2>. QED
    BY <2>1
<1>. HIDE DEF T
<1>2. PICK t \in T : \A u \in T : t <= u
  BY <1>1, LeastExists
<1>3. PICK x \in S : t = n - x
  BY DEF T
<1>4. \A y \in S : x >= y /\ y <= x
  <2>. TAKE y \in S
  <2>1. n - y \in T
    BY DEF T
  <2>2. n - x <= n - y
    BY <2>1, <1>2, <1>3
  <2>3. x \in Nat /\ y \in Nat
    OBVIOUS
  <2>. QED
    BY <2>2, <2>3
<1>. QED
  BY <1>4 DEF Max

----------------------------------------------------------------------------
(* Texts and buffers.                                                       *)

LEMMA LenOfText ==
  ASSUME NEW t \in Text
  PROVE  Len(t) \in Nat
BY LenProperties DEF Text

LEMMA PartOfText ==
  ASSUME NEW t \in Text, NEW i \in Nat, NEW n \in Nat, i + n <= Len(t)
  PROVE  /\ SubSeq(t, i + 1, i + n) \in Text
         /\ Len(SubSeq(t, i + 1, i + n)) = n
<1>1. \A j \in i + 1 .. i + n : t[j] \in 0 .. 255
  <2>. TAKE j \in i + 1 .. i + n
  <2>1. j \in 1 .. Len(t)
    BY LenOfText
  <2>. QED
    BY <2>1, ElementOfSeq DEF Text
<1>2. Len(SubSeq(t, i + 1, i + n)) = IF i + 1 <= i + n THEN i + n - (i + 1) + 1 ELSE 0
  BY <1>1, SubSeqProperties
<1>3. SubSeq(t, i + 1, i + n) \in Seq(0 .. 255)
  BY <1>1, SubSeqProperties
<1>. QED
  BY <1>2, <1>3 DEF Text

LEMMA StartOfText ==
  ASSUME NEW t \in Text, NEW n \in 0 .. Len(t)
  PROVE  SubSeq(t, 1, n) \in Text /\ Len(SubSeq(t, 1, n)) = n
<1>1. n \in Nat /\ 0 + n <= Len(t)
  BY LenOfText
<1>2. 0 + 1 = 1 /\ 0 + n = n
  BY <1>1
<1>3. SubSeq(t, 0 + 1, 0 + n) \in Text /\ Len(SubSeq(t, 0 + 1, 0 + n)) = n
  BY <1>1, PartOfText
<1>. QED
  BY <1>2, <1>3

LEMMA JoinOfTexts ==
  ASSUME NEW s \in Text, NEW t \in Text
  PROVE  s \o t \in Text /\ Len(s \o t) = Len(s) + Len(t)
BY ConcatProperties DEF Text

LEMMA UpperOfText ==
  ASSUME NEW t \in Text
  PROVE  key_upper(t) \in Text
<1>1. \A i \in 1 .. Len(t) : t[i] \in 0 .. 255
  BY ElementOfSeq DEF Text
<1>2. \A i \in 1 .. Len(t) : (IF t[i] = 45 THEN 95 ELSE Upper(t[i])) \in 0 .. 255
  BY <1>1 DEF Upper
<1>3. key_upper(t) \in [1 .. Len(t) -> 0 .. 255]
  BY <1>2 DEF key_upper
<1>4. \A n \in Nat : [1 .. n -> 0 .. 255] \subseteq Seq(0 .. 255)
  OBVIOUS
<1>. QED
  BY <1>3, <1>4, LenOfText DEF Text

LEMMA PrefixIsText == Prefix \in Text /\ << >> \in Text
BY DEF Prefix, Text

\* how a buffer grows, as arithmetic
LEMMA GrownBounds ==
  ASSUME NEW b \in Buffer, NEW newl \in Nat,
         Len(b.text) \in Nat, Len(b.text) <= newl, Len(b.text) <= b.limit,
         b.size <= b.limit + 1
  PROVE  /\ Grown(b, newl) \in Nat
         /\ Grown(b, newl) <= b.limit + 1
         /\ Len(b.text) < Grown(b, newl)
         /\ newl <= b.limit => newl < Grown(b, newl)
BY DEF Grown, Buffer

LEMMA TakenBounds ==
  ASSUME NEW b \in Buffer, NEW t \in Text,
         Len(b.text) <= b.limit, b.size <= b.limit + 1
  PROVE  LET newl == Len(b.text) + Len(t)
         IN  /\ Taken(b, t) \in 0 .. Len(t)
             /\ Len(b.text) + Taken(b, t) < Grown(b, newl)
             /\ Grown(b, newl) \in Nat
             /\ Grown(b, newl) <= b.limit + 1
             /\ newl <= b.limit => Taken(b, t) = Len(t)
<1>. DEFINE l == Len(b.text)
            k == Len(t)
            g == Grown(b, l + k)
<1>1. l \in Nat /\ k \in Nat /\ b.limit \in Nat
  BY LenOfText DEF Buffer
<1>2. /\ g \in Nat /\ g <= b.limit + 1 /\ l < g
      /\ l + k <= b.limit => l + k < g
  <2>1. l + k \in Nat /\ l <= l + k
    BY <1>1
  <2>. QED
    BY <1>1, <2>1, GrownBounds
<1>3. Taken(b, t) = IF l + k >= g THEN g - l - 1 ELSE k
  BY DEF Taken
<1>. HIDE DEF l, k, g
<1>4. /\ Taken(b, t) \in 0 .. k
      /\ l + Taken(b, t) < g
      /\ l + k <= b.limit => Taken(b, t) = k
  BY <1>1, <1>2, <1>3
<1>. QED
  BY <1>2, <1>4 DEF l, k, g

(* What write2buf leaves behind: the text fits with a byte to spare, and is *)
(* all there when the limit allows it.                                      *)
LEMMA WriteResult ==
  ASSUME NEW b \in Buffer, NEW t \in Text,
         Len(b.text) <= b.limit, b.size <= b.limit + 1
  PROVE  LET w == write2buf(b, t)
         IN  /\ w \in Buffer /\ w.limit = b.limit
             /\ Len(w.text) < w.size /\ w.size <= w.limit + 1
             /\ Len(b.text) + Len(t) <= b.limit => w.text = b.text \o t
<1>. DEFINE part == SubSeq(t, 1, Taken(b, t))
            g == Grown(b, Len(b.text) + Len(t))
<1>1. /\ Taken(b, t) \in 0 .. Len(t)
      /\ Len(b.text) + Taken(b, t) < g
      /\ g \in Nat /\ g <= b.limit + 1
      /\ Len(b.text) + Len(t) <= b.limit => Taken(b, t) = Len(t)
  BY TakenBounds
<1>2. part \in Text /\ Len(part) = Taken(b, t)
  BY <1>1, StartOfText
<1>3. b.text \in Text /\ b.limit \in Nat
  BY DEF Buffer
<1>4. Taken(b, t) = Len(t) => part = t
  BY SubSeqFull DEF Text
<1>5. write2buf(b, t) = [text |-> b.text \o part, size |-> g, limit |-> b.limit]
  BY DEF write2buf
<1>. HIDE DEF part, g
<1>6. b.text \o part \in Text /\ Len(b.text \o part) = Len(b.text) + Len(part)
  BY <1>2, <1>3, JoinOfTexts
<1>7. [text |-> b.text \o part, size |-> g, limit |-> b.limit] \in Buffer
  BY <1>1, <1>3, <1>6 DEF Buffer
<1>8. Len(b.text \o part) < g /\ g <= b.limit + 1
  BY <1>1, <1>2, <1>6
<1>9. Len(b.text) + Len(t) <= b.limit => b.text \o part = b.text \o t
  BY <1>1, <1>4
<1>. QED
  BY <1>5, <1>7, <1>8, <1>9

----------------------------------------------------------------------------
(* The invariant.  Cursor: the tokenizer is inside the message.  Stored:    *)
(* what was passed on of the body is what the request keeps, in a buffer    *)
(* whose limit is beyond any body that is let through.                      *)

Cursor ==
  /\ msg \in Messages
  /\ phase = "head" =>
       /\ Line <= Len(msg.lines) + 1
       /\ Line = 0 => at[2] = 0
       /\ Line \in 1 .. Len(msg.lines) => at[2] <= Len(msg.lines[Line].values)
       /\ Line <= Len(msg.lines) => done <= Len(Part)

Kept == IF body.kind = "tmpfile" THEN body.text ELSE body.buf.text

Stored ==
  /\ path # None => path.limit = PathLimit
  /\ body_readed <= Len(msg.body) /\ body_length <= MaxContent
  /\ phase = "head" => body = None /\ body_readed = 0
  /\ phase \in {"complete", "calling"} => body_readed = Len(msg.body)
  /\ phase # "calling" => input = None /\ answer.call = "none"
  /\ phase = "calling" => body = None /\ input # None /\ input.pos <= Len(msg.body)
  /\ body = None /\ phase # "calling" => body_readed = 0
  /\ body # None => /\ body_readed <= MaxContent
                    /\ Kept = SubSeq(msg.body, 1, body_readed)
                    /\ body.kind = "buffer" => body.buf.limit = BufferMax

DataInv == TypeOK /\ Cursor /\ Stored /\ BufferHolds /\ BodyArrives

LEMMA MessageParts ==
  ASSUME NEW m \in Messages
  PROVE  /\ m \in Message
         /\ m.url \in Text /\ m.body \in Text
         /\ m.lines \in Seq([name: Text, values: Seq(Text)])
         /\ m.declared \in Nat \union {None}
BY RequestAssumption DEF Message

LEMMA LineParts ==
  ASSUME NEW m \in Messages
  PROVE  /\ Len(m.lines) \in Nat
         /\ \A i \in 1 .. Len(m.lines) :
              /\ m.lines[i].name \in Text
              /\ Len(m.lines[i].values) \in Nat
              /\ \A j \in 1 .. Len(m.lines[i].values) : m.lines[i].values[j] \in Text
<1>. DEFINE L == [name: Text, values: Seq(Text)]
<1>1. m.lines \in Seq(L)
  BY MessageParts
<1>2. Len(m.lines) \in Nat
  BY <1>1, LenProperties
<1>3. ASSUME NEW i \in 1 .. Len(m.lines)
      PROVE  /\ m.lines[i].name \in Text
             /\ Len(m.lines[i].values) \in Nat
             /\ \A j \in 1 .. Len(m.lines[i].values) : m.lines[i].values[j] \in Text
  <2>1. m.lines[i] \in L
    BY <1>1, ElementOfSeq
  <2>2. m.lines[i].name \in Text /\ m.lines[i].values \in Seq(Text)
    BY <2>1
  <2>. QED
    BY <2>2, LenProperties, ElementOfSeq
<1>. QED
  BY <1>2, <1>3

LEMMA PartIsText ==
  ASSUME TypeOK, Cursor, phase = "head", ~InEnd
  PROVE  Part \in Text /\ Len(Part) \in Nat /\ done \in 0 .. Len(Part)
<1>1. Line \in Nat /\ at[2] \in Nat /\ done \in Nat /\ Line <= Len(msg.lines)
  BY LineParts DEF TypeOK, Cursor, InEnd, Line
<1>2. Part \in Text
  <2>1. CASE Line = 0
    BY <2>1, MessageParts DEF Part, Cursor
  <2>2. CASE Line # 0
    <3>1. Line \in 1 .. Len(msg.lines)
      BY <1>1, <2>2, LineParts DEF Cursor
    <3>2. at[2] <= Len(msg.lines[Line].values)
      BY <3>1 DEF Cursor
    <3>3. msg.lines[Line].name \in Text /\ Len(msg.lines[Line].values) \in Nat
      BY <3>1, LineParts DEF Cursor
    <3>4. at[2] # 0 => at[2] \in 1 .. Len(msg.lines[Line].values)
      BY <1>1, <3>2, <3>3
    <3>5. at[2] # 0 => msg.lines[Line].values[at[2]] \in Text
      BY <3>1, <3>4, LineParts DEF Cursor
    <3>. QED
      BY <2>2, <3>3, <3>5 DEF Part
  <2>. QED
    BY <2>1, <2>2
<1>3. done <= Len(Part)
  BY <1>1 DEF Cursor
<1>. QED
  BY <1>1, <1>2, <1>3, LenOfText

LEMMA PieceIsText ==
  ASSUME TypeOK, Cursor, phase = "head", ~InEnd, NEW n \in 0 .. Left
  PROVE  Piece(n) \in Text
<1>1. Part \in Text /\ done \in Nat /\ n \in Nat /\ done + n <= Len(Part)
  BY PartIsText DEF Left
<1>. QED
  BY <1>1, PartOfText DEF Piece

LEMMA NextPartIs ==
  ASSUME TypeOK, Cursor, phase = "head", ~InEnd
  PROVE  /\ NextPart \in Nat \X Nat
         /\ NextPart[1] \in 1 .. Len(msg.lines) + 1
         /\ NextPart[1] <= Len(msg.lines) =>
              NextPart[2] <= Len(msg.lines[NextPart[1]].values)
<1>1. Line \in Nat /\ at[2] \in Nat /\ Line <= Len(msg.lines) /\ Len(msg.lines) \in Nat
  BY LineParts DEF TypeOK, Cursor, InEnd, Line
<1>2. \A i \in 1 .. Len(msg.lines) : Len(msg.lines[i].values) \in Nat
  BY LineParts DEF Cursor
<1>3. CASE Line > 0 /\ at[2] < Len(msg.lines[Line].values)
  <2>1. NextPart = <<Line, at[2] + 1>>
    BY <1>3 DEF NextPart
  <2>2. Line \in 1 .. Len(msg.lines) /\ Len(msg.lines[Line].values) \in Nat
    BY <1>1, <1>2, <1>3
  <2>. QED
    BY <1>1, <1>3, <2>1, <2>2
<1>4. CASE ~(Line > 0 /\ at[2] < Len(msg.lines[Line].values))
  <2>1. NextPart = <<Line + 1, 0>>
    BY <1>4 DEF NextPart
  <2>2. Line + 1 \in 1 .. Len(msg.lines) + 1
    BY <1>1
  <2>3. Line + 1 <= Len(msg.lines) => 0 <= Len(msg.lines[Line + 1].values)
    BY <1>1, <1>2
  <2>. QED
    BY <1>1, <2>1, <2>2, <2>3
<1>. QED
  BY <1>3, <1>4

LEMMA TextAt ==
  ASSUME NEW m \in Messages, NEW i \in Nat, NEW j \in Nat,
         i <= Len(m.lines), i = 0 => j = 0, i # 0 => j <= Len(m.lines[i].values)
  PROVE  (IF i = 0 THEN m.url
          ELSE IF j = 0 THEN m.lines[i].name ELSE m.lines[i].values[j]) \in Text
<1>1. CASE i = 0
  BY <1>1, MessageParts
<1>2. CASE i # 0
  <2>1. i \in 1 .. Len(m.lines)
    BY <1>2, LineParts
  <2>2. m.lines[i].name \in Text /\ Len(m.lines[i].values) \in Nat
    BY <2>1, LineParts
  <2>3. j # 0 => j \in 1 .. Len(m.lines[i].values)
    BY <1>2, <2>2
  <2>4. j # 0 => m.lines[i].values[j] \in Text
    BY <2>1, <2>3, LineParts
  <2>. QED
    BY <1>2, <2>2, <2>4
<1>. QED
  BY <1>1, <1>2

(* The tokenizer's own step.                                                *)
LEMMA PassKeeps ==
  ASSUME TypeOK, Cursor, phase = "head", ~InEnd,
         NEW n \in 0 .. Left, NEW ends \in BOOLEAN, Cut(n, ends), Pass(n, ends)
  PROVE  /\ Cursor'
         /\ at' \in Nat \X Nat /\ done' \in Nat
         /\ UNCHANGED <<msg, phase, code>>
<1>1. Part \in Text /\ Len(Part) \in Nat /\ done \in Nat /\ n \in Nat /\ done + n <= Len(Part)
  BY PartIsText DEF Left
<1>2. UNCHANGED <<msg, phase, code>>
  BY DEF Pass
<1>3. CASE ends
  <2>1. at' = NextPart /\ done' = 0
    BY <1>3 DEF Pass
  <2>2. /\ at' \in Nat \X Nat
        /\ at'[1] \in 1 .. Len(msg.lines) + 1
        /\ at'[1] <= Len(msg.lines) => at'[2] <= Len(msg.lines[at'[1]].values)
    BY <2>1, NextPartIs
  <2>3. at'[1] \in Nat /\ at'[2] \in Nat /\ at'[1] # 0 /\ Len(msg.lines) \in Nat
    BY <2>2, LineParts DEF Cursor
  <2>4. Line' <= Len(msg.lines) => Part' \in Text
    <3>1. SUFFICES ASSUME at'[1] <= Len(msg.lines) PROVE Part' \in Text
      BY DEF Line
    <3>2. (IF at'[1] = 0 THEN msg.url ELSE IF at'[2] = 0 THEN msg.lines[at'[1]].name
           ELSE msg.lines[at'[1]].values[at'[2]]) \in Text
      BY <2>2, <2>3, <3>1, TextAt DEF Cursor
    <3>. QED
      BY <1>2, <3>2 DEF Part, Line
  <2>5. Line' <= Len(msg.lines) => 0 <= Len(Part')
    <3>1. SUFFICES ASSUME Part' \in Text PROVE 0 <= Len(Part')
      BY <2>4
    <3>. QED
      BY <3>1, LenOfText
  <2>6. /\ msg \in Messages
        /\ Line' <= Len(msg.lines) + 1 /\ Line' # 0
        /\ Line' \in 1 .. Len(msg.lines) => at'[2] <= Len(msg.lines[Line'].values)
    BY <2>2, <2>3 DEF Line, Cursor
  <2>. QED
    BY <1>2, <2>1, <2>2, <2>5, <2>6 DEF Cursor
<1>4. CASE ~ends
  <2>1. at' = at /\ done' = done + n
    BY <1>4 DEF Pass
  <2>2. Part' = Part /\ Line' = Line
    BY <1>2, <2>1 DEF Part, Line
  <2>3. Cursor'
    BY <1>1, <1>2, <2>1, <2>2 DEF Cursor
  <2>. QED
    BY <1>1, <1>2, <2>1, <2>3 DEF TypeOK
<1>. QED
  BY <1>3, <1>4

LEMMA RefuseKeeps ==
  ASSUME TypeOK, Cursor, NEW c, Refuse(c)
  PROVE  /\ Cursor' /\ phase' = "refused" /\ code' = c
         /\ UNCHANGED sent
BY DEF Refuse, Cursor, sent

(* The step of a piece of the head, passed on or refused.                   *)
LEMMA HeadStep ==
  ASSUME TypeOK, Cursor, phase = "head", ~InEnd,
         NEW n \in 0 .. Left, NEW ends \in BOOLEAN, Cut(n, ends),
         Refuse(400) \/ Pass(n, ends)
  PROVE  /\ Cursor' /\ msg' = msg
         /\ at' \in Nat \X Nat /\ done' \in Nat
         /\ phase' \in {"head", "refused"} /\ code' \in {0, 400, 411, 413}
<1>1. CASE Refuse(400)
  BY <1>1, RefuseKeeps DEF TypeOK, sent
<1>2. CASE Pass(n, ends)
  BY <1>2, PassKeeps DEF TypeOK
<1>. QED
  BY <1>1, <1>2

(* What a step of the head leaves alone keeps the rest of the invariant.    *)
LEMMA HeadKeepsBody ==
  ASSUME DataInv, phase = "head", msg' = msg, phase' \in {"head", "refused"},
         UNCHANGED <<bodyVars, callVars>>,
         path' # None => path'.limit = PathLimit
  PROVE  Stored' /\ BodyArrives'
BY DEF DataInv, Stored, BodyArrives, bodyVars, callVars, Kept

----------------------------------------------------------------------------
(* The callbacks of the head.                                               *)

LEMMA UrlStep ==
  ASSUME DataInv, ~InEnd, NEW n \in 0 .. Left, NEW ends \in BOOLEAN, url_cb(n, ends)
  PROVE  DataInv'
<1>. DEFINE buf == IF path = None THEN new_buffer(PathSize, PathLimit) ELSE path
            w == write2buf(buf, Piece(n))
<1>1. /\ phase = "head" /\ Cut(n, ends) /\ path' = w
      /\ Refuse(400) \/ Pass(n, ends)
      /\ UNCHANGED <<field, value, last, num_headers, headers, bodyVars, environ, callVars>>
  BY DEF url_cb
<1>2. Piece(n) \in Text
  BY <1>1, PieceIsText DEF DataInv
<1>3. buf \in Buffer /\ buf.limit = PathLimit
      /\ Len(buf.text) <= buf.limit /\ buf.size <= buf.limit + 1
  <2>1. CASE path = None
    <3>1. buf = [text |-> << >>, size |-> PathSize, limit |-> PathLimit]
      BY <2>1 DEF new_buffer
    <3>2. Len(<< >>) = 0
      OBVIOUS
    <3>. HIDE DEF buf
    <3>. QED
      BY <3>1, <3>2, PrefixIsText, RequestAssumption DEF Buffer
  <2>2. CASE path # None
    <3>1. /\ buf = path /\ path \in Buffer /\ path.limit = PathLimit
          /\ Len(path.text) < path.size /\ path.size <= PathLimit + 1
      BY <2>2 DEF DataInv, TypeOK, Stored, BufferHolds
    <3>2. path.size \in Nat /\ Len(path.text) \in Nat /\ PathLimit \in Nat
      BY <3>1, LenOfText, RequestAssumption DEF Buffer
    <3>. HIDE DEF buf
    <3>. QED
      BY <3>1, <3>2
  <2>. QED
    BY <2>1, <2>2
<1>4. /\ w \in Buffer /\ w.limit = PathLimit
      /\ Len(w.text) < w.size /\ w.size <= PathLimit + 1
  <2>. HIDE DEF buf
  <2>. QED
    BY <1>2, <1>3, WriteResult
<1>. HIDE DEF buf, w
<1>5. /\ Cursor' /\ msg' = msg /\ at' \in Nat \X Nat /\ done' \in Nat
      /\ phase' \in {"head", "refused"} /\ code' \in {0, 400, 411, 413}
  BY <1>1, HeadStep DEF DataInv
<1>6. Stored' /\ BodyArrives'
  BY <1>1, <1>4, <1>5, HeadKeepsBody
<1>7. TypeOK'
  BY <1>1, <1>4, <1>5 DEF DataInv, TypeOK, bodyVars, callVars
<1>8. BufferHolds'
  BY <1>1, <1>4 DEF DataInv, BufferHolds, bodyVars
<1>. QED
  BY <1>5, <1>6, <1>7, <1>8 DEF DataInv

LEMMA NewNameStep ==
  ASSUME DataInv, ~InEnd, NEW n \in 0 .. Left, NEW ends \in BOOLEAN, header_field_cb(n, ends)
  PROVE  DataInv'
<1>. DEFINE name == Prefix \o key_upper(Piece(n))
<1>1. /\ phase = "head" /\ Cut(n, ends)
      /\ Refuse(400) \/ Pass(n, ends)
      /\ UNCHANGED <<path, bodyVars, environ, callVars>>
      /\ \/ UNCHANGED <<field, value, last, num_headers>>
         \/ /\ num_headers' = num_headers + 1 /\ value' = None
            /\ field' \in {None, name} /\ last' \in {last, "FIELD"}
  BY DEF header_field_cb, InName, add_header, headVars
<1>2. name \in Text
  BY <1>1, PieceIsText, UpperOfText, PrefixIsText, JoinOfTexts DEF DataInv
<1>. HIDE DEF name
<1>3. /\ Cursor' /\ msg' = msg /\ at' \in Nat \X Nat /\ done' \in Nat
      /\ phase' \in {"head", "refused"} /\ code' \in {0, 400, 411, 413}
  BY <1>1, HeadStep DEF DataInv
<1>4. Stored' /\ BodyArrives'
  <2>1. path' # None => path'.limit = PathLimit
    BY <1>1 DEF DataInv, Stored
  <2>. QED
    BY <1>1, <1>3, <2>1, HeadKeepsBody
<1>5. TypeOK'
  <2>1. /\ field' \in Text \union {None} /\ value' \in Text \union {None}
        /\ last' \in {"FIELD", "VALUE"} /\ num_headers' \in Nat
    BY <1>1, <1>2 DEF DataInv, TypeOK
  <2>. QED
    BY <1>1, <1>3, <2>1 DEF DataInv, TypeOK, bodyVars, callVars
<1>6. BufferHolds'
  BY <1>1 DEF DataInv, BufferHolds, bodyVars
<1>. QED
  BY <1>3, <1>4, <1>5, <1>6 DEF DataInv

LEMMA MoreNameStep ==
  ASSUME DataInv, ~InEnd, NEW n \in 0 .. Left, NEW ends \in BOOLEAN, MoreName(n, ends)
  PROVE  DataInv'
<1>. DEFINE name == (IF field = None THEN Prefix ELSE field) \o key_upper(Piece(n))
<1>1. /\ phase = "head" /\ Cut(n, ends)
      /\ Refuse(400) \/ Pass(n, ends)
      /\ field' \in {field, name}
      /\ UNCHANGED <<path, value, last, num_headers, headers, bodyVars, environ, callVars>>
  BY DEF MoreName, InName
<1>2. name \in Text
  <2>1. (IF field = None THEN Prefix ELSE field) \in Text
    BY PrefixIsText DEF DataInv, TypeOK
  <2>2. key_upper(Piece(n)) \in Text
    BY <1>1, PieceIsText, UpperOfText DEF DataInv
  <2>. QED
    BY <2>1, <2>2, JoinOfTexts
<1>. HIDE DEF name
<1>3. /\ Cursor' /\ msg' = msg /\ at' \in Nat \X Nat /\ done' \in Nat
      /\ phase' \in {"head", "refused"} /\ code' \in {0, 400, 411, 413}
  BY <1>1, HeadStep DEF DataInv
<1>4. Stored' /\ BodyArrives'
  <2>1. path' # None => path'.limit = PathLimit
    BY <1>1 DEF DataInv, Stored
  <2>. QED
    BY <1>1, <1>3, <2>1, HeadKeepsBody
<1>5. TypeOK'
  BY <1>1, <1>2, <1>3 DEF DataInv, TypeOK, bodyVars, callVars
<1>6. BufferHolds'
  BY <1>1 DEF DataInv, BufferHolds, bodyVars
<1>. QED
  BY <1>3, <1>4, <1>5, <1>6 DEF DataInv

LEMMA ValueStep ==
  ASSUME DataInv, ~InEnd, NEW n \in 0 .. Left, NEW ends \in BOOLEAN, header_value_cb(n, ends)
  PROVE  DataInv'
<1>. DEFINE val == (IF value = None THEN << >> ELSE value) \o Piece(n)
<1>1. /\ phase = "head" /\ Cut(n, ends)
      /\ Refuse(400) \/ Pass(n, ends)
      /\ value' \in {value, val} /\ last' \in {last, "VALUE"}
      /\ UNCHANGED <<path, field, num_headers, headers, bodyVars, environ, callVars>>
  BY DEF header_value_cb
<1>2. val \in Text
  <2>1. (IF value = None THEN << >> ELSE value) \in Text
    BY PrefixIsText DEF DataInv, TypeOK
  <2>. QED
    BY <1>1, <2>1, PieceIsText, JoinOfTexts DEF DataInv
<1>. HIDE DEF val
<1>3. /\ Cursor' /\ msg' = msg /\ at' \in Nat \X Nat /\ done' \in Nat
      /\ phase' \in {"head", "refused"} /\ code' \in {0, 400, 411, 413}
  BY <1>1, HeadStep DEF DataInv
<1>4. Stored' /\ BodyArrives'
  <2>1. path' # None => path'.limit = PathLimit
    BY <1>1 DEF DataInv, Stored
  <2>. QED
    BY <1>1, <1>3, <2>1, HeadKeepsBody
<1>5. TypeOK'
  BY <1>1, <1>2, <1>3 DEF DataInv, TypeOK, bodyVars, callVars
<1>6. BufferHolds'
  BY <1>1 DEF DataInv, BufferHolds, bodyVars
<1>. QED
  BY <1>3, <1>4, <1>5, <1>6 DEF DataInv

LEMMA HeadersDone ==
  ASSUME DataInv, headers_complete_cb
  PROVE  DataInv'
<1>1. /\ phase = "head" /\ phase' = "body" /\ path' = None
      /\ num_headers' \in {num_headers, num_headers + 1}
      /\ field' \in {field, None} /\ value' \in {value, None}
      /\ body_length' = DeclaredLength
      /\ UNCHANGED <<sent, code, last, body, body_readed, callVars>>
  BY DEF headers_complete_cb, InEnd
<1>2. DeclaredLength \in Nat /\ DeclaredLength <= MaxContent
  <2>1. msg.declared \in Nat \union {None} /\ ~TooLong
    BY MessageParts DEF DataInv, Cursor, headers_complete_cb
  <2>2. CASE msg.declared = None
    BY <2>2, RequestAssumption DEF DeclaredLength
  <2>3. CASE msg.declared # None
    BY <2>1, <2>3, RequestAssumption DEF DeclaredLength, TooLong
  <2>. QED
    BY <2>2, <2>3
<1>3. TypeOK'
  BY <1>1, <1>2 DEF DataInv, TypeOK, sent, callVars
<1>4. Cursor'
  BY <1>1 DEF DataInv, Cursor, sent
<1>5. Stored' /\ BodyArrives' /\ BufferHolds'
  BY <1>1, <1>2 DEF DataInv, Stored, BodyArrives, BufferHolds, sent, callVars, Kept
<1>. QED
  BY <1>3, <1>4, <1>5 DEF DataInv

LEMMA LengthRefused ==
  ASSUME DataInv, RefuseLength
  PROVE  DataInv'
<1>1. /\ phase = "head" /\ Refuse(413)
      /\ UNCHANGED <<headVars, bodyVars, environ, callVars>>
  BY DEF RefuseLength, InEnd
<1>2. Cursor' /\ phase' = "refused" /\ code' = 413 /\ UNCHANGED sent
  BY <1>1, RefuseKeeps DEF DataInv
<1>3. TypeOK'
  BY <1>1, <1>2 DEF DataInv, TypeOK, sent, headVars, bodyVars, callVars
<1>4. Stored' /\ BodyArrives'
  <2>1. path' # None => path'.limit = PathLimit
    BY <1>1 DEF DataInv, Stored, headVars
  <2>. QED
    BY <1>1, <1>2, <2>1, HeadKeepsBody DEF sent
<1>5. BufferHolds'
  BY <1>1 DEF DataInv, BufferHolds, bodyVars, headVars
<1>. QED
  BY <1>2, <1>3, <1>4, <1>5 DEF DataInv

----------------------------------------------------------------------------
(* The body.  What is kept grows by the piece that was passed on.           *)

LEMMA BodyKept ==
  ASSUME DataInv, NEW n \in 1 .. Len(msg.body), body_cb(n), BodyCode(n) = 0
  PROVE  /\ body' \in StoredBody
         /\ Kept' = SubSeq(msg.body, 1, body_readed + n)
         /\ body_readed + n <= MaxContent
         /\ body'.kind = "buffer" =>
              /\ body'.buf.limit = BufferMax
              /\ Len(body'.buf.text) < body'.buf.size
              /\ body'.buf.size <= BufferMax + 1
<1>. DEFINE b == IF body = None THEN NewBody ELSE body
            piece == BodyPiece(n)
            whole == SubSeq(msg.body, 1, body_readed)
            text  == IF b.kind = "tmpfile" THEN b.text ELSE b.buf.text
<1>1. /\ msg.body \in Text /\ Len(msg.body) \in Nat
      /\ body_readed \in Nat /\ n \in Nat /\ body_readed + n <= Len(msg.body)
      /\ phase = "body" /\ body' = write_body(b, piece)
  <2>1. msg.body \in Text
    BY MessageParts DEF DataInv, Cursor
  <2>. QED
    BY <2>1, LenOfText DEF body_cb, InBody, DataInv, TypeOK
<1>2. body_readed + n <= MaxContent
  BY <1>1, RequestAssumption DEF BodyCode
<1>3. piece \in Text /\ Len(piece) = n
  BY <1>1, PartOfText DEF BodyPiece
<1>4. /\ whole \in Text /\ Len(whole) = body_readed
      /\ whole \o piece = SubSeq(msg.body, 1, body_readed + n)
  <2>1. body_readed \in 0 .. Len(msg.body)
    BY <1>1
  <2>2. whole \in Text /\ Len(whole) = body_readed
    BY <1>1, <2>1, StartOfText
  <2>3. /\ 1 \in 1 .. Len(msg.body) + 1
        /\ body_readed \in 1 - 1 .. Len(msg.body)
        /\ body_readed + n \in body_readed .. Len(msg.body)
    BY <1>1
  <2>4. msg.body \in Seq(0 .. 255)
    BY <1>1 DEF Text
  <2>5. SubSeq(msg.body, 1, body_readed) \o SubSeq(msg.body, body_readed + 1, body_readed + n)
          = SubSeq(msg.body, 1, body_readed + n)
    BY <2>3, <2>4, ConcatAdjacentSubSeq
  <2>. QED
    BY <2>2, <2>5 DEF BodyPiece
<1>5. /\ \/ b.kind = "tmpfile" /\ b \in [kind: {"tmpfile"}, text: Text]
         \/ b.kind = "buffer" /\ b \in [kind: {"buffer"}, buf: Buffer]
      /\ text = whole
      /\ b.kind = "buffer" => b.buf.limit = BufferMax /\ b.buf.size <= BufferMax + 1
  <2>1. CASE body = None
    <3>1. body_readed = 0
      BY <1>1, <2>1 DEF DataInv, Stored
    <3>2. whole = << >>
      BY <3>1, SubSeqEmpty
    <3>3. CASE body_length > BodyBufferSize
      <4>1. b = [kind |-> "tmpfile", text |-> << >>]
        BY <2>1, <3>3 DEF NewBody
      <4>. HIDE DEF b
      <4>. QED
        BY <3>2, <4>1, PrefixIsText
    <3>4. CASE ~(body_length > BodyBufferSize)
      <4>1. b = [kind |-> "buffer",
                 buf |-> [text |-> << >>, size |-> body_length, limit |-> BufferMax]]
        BY <2>1, <3>4 DEF NewBody, new_buffer
      <4>2. body_length \in Nat /\ BufferMax \in Nat
        BY RequestAssumption DEF DataInv, TypeOK
      <4>3. body_length <= BufferMax + 1
        BY <4>2, RequestAssumption DEF DataInv, Stored
      <4>. HIDE DEF b
      <4>. QED
        BY <3>2, <4>1, <4>2, <4>3, PrefixIsText DEF Buffer
    <3>. QED
      BY <3>3, <3>4
  <2>2. CASE body # None
    <3>1. b = body /\ text = Kept
      BY <2>2 DEF Kept
    <3>2. body \in StoredBody
      BY <2>2 DEF DataInv, TypeOK, StoredBody
    <3>3. /\ Kept = whole
          /\ body.kind = "buffer" => body.buf.limit = BufferMax /\ body.buf.size <= BufferMax + 1
      BY <2>2 DEF DataInv, Stored, BufferHolds
    <3>. HIDE DEF b, text
    <3>. QED
      BY <3>1, <3>2, <3>3 DEF StoredBody
  <2>. QED
    BY <2>1, <2>2
<1>6. CASE b.kind = "tmpfile"
  <2>1. body' = [b EXCEPT !.text = b.text \o piece]
    BY <1>1, <1>6 DEF write_body, write_body2file
  <2>2. b \in [kind: {"tmpfile"}, text: Text] /\ b.text = whole
    BY <1>5, <1>6
  <2>3. whole \o piece \in Text
    BY <1>3, <1>4, JoinOfTexts
  <2>. HIDE DEF b, piece, whole, text
  <2>4. /\ body' \in [kind: {"tmpfile"}, text: Text]
        /\ body'.kind = "tmpfile" /\ body'.text = whole \o piece
    BY <2>1, <2>2, <2>3
  <2>5. Kept' = whole \o piece
    BY <2>4 DEF Kept
  <2>. QED
    BY <1>2, <1>4, <2>4, <2>5 DEF StoredBody
<1>7. CASE b.kind = "buffer"
  <2>1. body' = [b EXCEPT !.buf = write2buf(b.buf, piece)]
    BY <1>1, <1>7 DEF write_body, write_body2mem
  <2>2. /\ b \in [kind: {"buffer"}, buf: Buffer] /\ b.buf \in Buffer
        /\ b.buf.text = whole /\ b.buf.limit = BufferMax
        /\ b.buf.size <= b.buf.limit + 1
    BY <1>5, <1>7
  <2>. DEFINE w == write2buf(b.buf, piece)
  <2>. HIDE DEF b, piece, whole, text, w
  <2>3. /\ Len(b.buf.text) <= b.buf.limit
        /\ Len(b.buf.text) + Len(piece) <= b.buf.limit
    BY <1>1, <1>2, <1>3, <1>4, <2>2, RequestAssumption
  <2>4. /\ w \in Buffer /\ w.limit = BufferMax
        /\ Len(w.text) < w.size /\ w.size <= BufferMax + 1
        /\ w.text = whole \o piece
    BY <1>3, <2>2, <2>3, WriteResult DEF w
  <2>5. /\ body' \in [kind: {"buffer"}, buf: Buffer]
        /\ body'.kind = "buffer" /\ body'.buf = w
    BY <2>1, <2>2, <2>4 DEF w
  <2>6. Kept' = whole \o piece
    BY <2>4, <2>5 DEF Kept
  <2>. QED
    BY <1>2, <1>4, <2>4, <2>5, <2>6 DEF StoredBody
<1>. QED
  BY <1>5, <1>6, <1>7

LEMMA BodyStep ==
  ASSUME DataInv, NEW n \in 1 .. Len(msg.body), body_cb(n)
  PROVE  DataInv'
<1>1. /\ phase = "body" /\ n <= Len(msg.body) - body_readed
      /\ UNCHANGED <<headVars, environ, callVars>>
  BY DEF body_cb, InBody
<1>2. CASE BodyCode(n) # 0
  <2>1. Refuse(BodyCode(n)) /\ UNCHANGED bodyVars
    BY <1>2 DEF body_cb
  <2>2. BodyCode(n) \in {411, 413}
    BY <1>2 DEF BodyCode
  <2>3. Cursor' /\ phase' = "refused" /\ code' = BodyCode(n) /\ UNCHANGED sent
    BY <2>1, RefuseKeeps DEF DataInv
  <2>4. TypeOK'
    BY <1>1, <2>1, <2>2, <2>3 DEF DataInv, TypeOK, sent, headVars, bodyVars, callVars
  <2>5. Stored' /\ BodyArrives' /\ BufferHolds'
    BY <1>1, <2>1, <2>3
       DEF DataInv, Stored, BodyArrives, BufferHolds, Kept, sent, headVars, bodyVars, callVars
  <2>. QED
    BY <2>3, <2>4, <2>5 DEF DataInv
<1>3. CASE BodyCode(n) = 0
  <2>1. body_readed' = body_readed + n /\ UNCHANGED <<sent, phase, code, body_length>>
    BY <1>3 DEF body_cb
  <2>2. /\ body' \in StoredBody
        /\ Kept' = SubSeq(msg.body, 1, body_readed + n)
        /\ body_readed + n <= MaxContent
        /\ body'.kind = "buffer" =>
             /\ body'.buf.limit = BufferMax
             /\ Len(body'.buf.text) < body'.buf.size
             /\ body'.buf.size <= BufferMax + 1
    BY <1>3, BodyKept
  <2>3. body' # None
    BY <2>2, RequestAssumption
  <2>4. body_readed \in Nat /\ n \in Nat /\ Len(msg.body) \in Nat
    BY MessageParts, LenOfText DEF DataInv, TypeOK, Cursor
  <2>5. TypeOK' /\ Cursor'
    BY <1>1, <2>1, <2>2, <2>4 DEF DataInv, TypeOK, Cursor, sent, headVars, callVars
  <2>6. Stored'
    BY <1>1, <2>1, <2>2, <2>3, <2>4 DEF DataInv, Stored, sent, headVars, callVars
  <2>7. BodyArrives' /\ BufferHolds'
    BY <1>1, <2>1, <2>2 DEF DataInv, Stored, BodyArrives, BufferHolds, sent, headVars, callVars
  <2>. QED
    BY <2>5, <2>6, <2>7 DEF DataInv
<1>. QED
  BY <1>2, <1>3

LEMMA CompleteStep ==
  ASSUME DataInv, message_complete_cb
  PROVE  DataInv'
<1>1. /\ phase = "body" /\ body_readed = Len(msg.body) /\ phase' = "complete"
      /\ UNCHANGED <<sent, code, headVars, bodyVars, environ, callVars>>
  BY DEF message_complete_cb
<1>2. TypeOK' /\ Cursor'
  BY <1>1 DEF DataInv, TypeOK, Cursor, sent, headVars, bodyVars, callVars
<1>3. Stored' /\ BodyArrives' /\ BufferHolds'
  BY <1>1 DEF DataInv, Stored, BodyArrives, BufferHolds, Kept, sent, headVars, bodyVars, callVars
<1>. QED
  BY <1>2, <1>3 DEF DataInv

(* The input is the whole body: nothing is missing when the message is      *)
(* complete.                                                                *)
LEMMA InputStep ==
  ASSUME DataInv, prepare_call_wsgi
  PROVE  DataInv'
<1>1. /\ phase = "complete" /\ phase' = "calling" /\ body' = None
      /\ input' = IF body # None /\ body.kind = "tmpfile" THEN set_input_file ELSE set_input_object
      /\ UNCHANGED <<sent, code, headVars, body_length, body_readed, environ, answer>>
  BY DEF prepare_call_wsgi
<1>2. /\ msg.body \in Text /\ body_readed = Len(msg.body) /\ answer.call = "none"
      /\ body = None => Len(msg.body) = 0
      /\ body # None => Kept = SubSeq(msg.body, 1, Len(msg.body))
  BY <1>1, MessageParts DEF DataInv, Stored, Cursor
<1>3. body # None => Kept = msg.body
  BY <1>2, SubSeqFull DEF Text
<1>4. body = None => msg.body = << >>
  BY <1>2, EmptySeq DEF Text
<1>5. input'.text = msg.body /\ input'.pos = 0 /\ input'.kind \in {"memory", "file"}
      /\ input' = [kind |-> input'.kind, text |-> msg.body, pos |-> 0]
  <2>1. CASE body = None
    BY <1>1, <1>4, <2>1 DEF set_input_object
  <2>2. CASE body # None /\ body.kind = "tmpfile"
    BY <1>1, <1>3, <2>2 DEF set_input_file, Kept
  <2>3. CASE body # None /\ body.kind # "tmpfile"
    BY <1>1, <1>3, <2>3 DEF set_input_object, Kept
  <2>. QED
    BY <2>1, <2>2, <2>3
<1>6. input' \in Input
  BY <1>2, <1>5 DEF Input
<1>7. input' # None
  BY <1>6, RequestAssumption
<1>8. TypeOK' /\ Cursor'
  BY <1>1, <1>6 DEF DataInv, TypeOK, Cursor, sent, headVars
<1>9. Stored'
  <2>1. input'.pos <= Len(msg.body)
    BY <1>2, <1>5, LenOfText
  <2>. QED
    BY <1>1, <1>2, <1>7, <2>1 DEF DataInv, Stored, sent, headVars
<1>10. BodyArrives' /\ BufferHolds'
  BY <1>1, <1>5 DEF DataInv, BodyArrives, BufferHolds, sent, headVars
<1>. QED
  BY <1>8, <1>9, <1>10 DEF DataInv

----------------------------------------------------------------------------
(* The input.  Lines end inside the body, behind the position.              *)

LEMMA LineEndIs ==
  ASSUME NEW t \in Text, NEW p \in 0 .. Len(t)
  PROVE  inner_readline(t, p) \in p .. Len(t)
<1>. DEFINE S == {q \in p + 1 .. Len(t) : t[q] = Newline} \union {Len(t)}
<1>1. Len(t) \in Nat /\ p \in Nat /\ p <= Len(t)
  BY LenOfText
<1>2. S \in SUBSET Nat /\ S # {} /\ \A q \in S : q \in p .. Len(t)
  BY <1>1
<1>3. inner_readline(t, p) = Min(S)
  BY DEF inner_readline
<1>. HIDE DEF S
<1>. QED
  BY <1>2, <1>3, MinIsIn

LEMMA InsideBody ==
  ASSUME DataInv, Reading
  PROVE  /\ input \in Input /\ input # None /\ input.text \in Text
         /\ Len(input.text) \in Nat /\ input.pos \in 0 .. Len(input.text)
         /\ input.text = msg.body
<1>1. input \in Input /\ input # None /\ input.text = msg.body /\ input.pos <= Len(msg.body)
  BY DEF DataInv, TypeOK, Stored, BodyArrives, Reading
<1>2. input.text \in Text /\ input.pos \in Nat
  BY <1>1 DEF Input
<1>. QED
  BY <1>1, <1>2, LenOfText

(* A call that gives lines with these ends keeps the invariant.             *)
LEMMA GiveStep ==
  ASSUME DataInv, Reading, NEW c, NEW a, NEW ends \in SUBSET (0 .. Len(input.text)),
         c # "none", Give(c, a, ends)
  PROVE  DataInv'
<1>1. /\ phase = "calling" /\ input \in Input /\ input # None
      /\ answer'.call = c
      /\ input' = [input EXCEPT !.pos = Max(ends \union {input.pos})]
      /\ UNCHANGED <<sent, phase, code, headVars, bodyVars, environ>>
  BY InsideBody DEF Reading, Give
<1>2. /\ input.text \in Text /\ Len(input.text) \in Nat
      /\ input.text = msg.body /\ input.pos \in 0 .. Len(input.text)
  BY InsideBody
<1>3. Max(ends \union {input.pos}) \in 0 .. Len(input.text)
  <2>1. ends \union {input.pos} \in SUBSET (0 .. Len(input.text))
    BY <1>2
  <2>. QED
    BY <1>2, <2>1, MaxIsIn
<1>. DEFINE q == Max(ends \union {input.pos})
<1>. HIDE DEF q
<1>4. input' \in Input /\ input'.text = input.text /\ input'.pos = q
  BY <1>1, <1>2, <1>3 DEF Input, q
<1>5. input' # None
  BY <1>4, RequestAssumption
<1>6. q \in 0 .. Len(input.text)
  BY <1>3 DEF q
<1>7. TypeOK' /\ Cursor'
  BY <1>1, <1>4 DEF DataInv, TypeOK, Cursor, sent, headVars, bodyVars
<1>8. Stored' /\ BodyArrives' /\ BufferHolds'
  BY <1>1, <1>2, <1>4, <1>5, <1>6
     DEF DataInv, Stored, BodyArrives, BufferHolds, Kept, sent, headVars, bodyVars
<1>. QED
  BY <1>7, <1>8 DEF DataInv

(* The position is inside the body, and so is every line that is given.     *)
LEMMA ReadStep ==
  ASSUME DataInv, NEW n \in Sizes,
         InputObject_read(n) \/ InputObject_readline(n) \/ InputObject_readlines(n)
  PROVE  DataInv'
<1>. DEFINE l == Len(input.text)
            end == inner_readline(input.text, input.pos)
<1>1. Reading /\ n \in Int
  BY RequestAssumption DEF InputObject_read, InputObject_readline, InputObject_readlines
<1>2. input.text \in Text /\ l \in Nat /\ input.pos \in 0 .. l
  BY <1>1, InsideBody
<1>3. end \in input.pos .. l
  BY <1>2, LineEndIs
<1>4. CASE InputObject_read(n)
  <2>. DEFINE e == input.pos + (IF n < 0 \/ n > l - input.pos THEN l - input.pos ELSE n)
  <2>1. Give("read", n, {e})
    BY <1>4 DEF InputObject_read
  <2>2. e \in 0 .. l
    BY <1>1, <1>2
  <2>. HIDE DEF e
  <2>. QED
    BY <1>1, <2>1, <2>2, GiveStep
<1>5. CASE InputObject_readline(n)
  <2>. DEFINE e == IF n >= 0 /\ n < end - input.pos THEN input.pos + n ELSE end
  <2>1. Give("readline", n, {e})
    BY <1>5 DEF InputObject_readline
  <2>. HIDE DEF end
  <2>2. e \in 0 .. l
    BY <1>1, <1>2, <1>3
  <2>. HIDE DEF e
  <2>. QED
    BY <1>1, <2>1, <2>2, GiveStep
<1>6. CASE InputObject_readlines(n)
  <2>. DEFINE all == {inner_readline(input.text, p) : p \in input.pos .. Len(input.text) - 1}
              es == {e \in all : n > 0 => \A f \in {g \in all : g < e} : f - input.pos < n}
  <2>1. Give("readlines", n, es)
    BY <1>6 DEF InputObject_readlines
  <2>2. \A p \in input.pos .. Len(input.text) - 1 : inner_readline(input.text, p) \in 0 .. l
    <3>. TAKE p \in input.pos .. Len(input.text) - 1
    <3>1. p \in 0 .. l
      BY <1>2
    <3>2. inner_readline(input.text, p) \in p .. l
      BY <1>2, <3>1, LineEndIs
    <3>. QED
      BY <3>1, <3>2
  <2>3. es \in SUBSET (0 .. l)
    BY <2>2
  <2>. HIDE DEF es
  <2>. QED
    BY <1>1, <2>1, <2>3, GiveStep
<1>. QED
  BY <1>4, <1>5, <1>6

LEMMA IterStep ==
  ASSUME DataInv, InputObject_iternext
  PROVE  DataInv'
<1>. DEFINE end == inner_readline(input.text, input.pos)
<1>1. Reading /\ Give("next", None, {end} \ {input.pos})
  BY DEF InputObject_iternext
<1>2. input.text \in Text /\ Len(input.text) \in Nat /\ input.pos \in 0 .. Len(input.text)
  BY <1>1, InsideBody
<1>3. end \in input.pos .. Len(input.text)
  BY <1>2, LineEndIs
<1>. HIDE DEF end
<1>4. {end} \ {input.pos} \in SUBSET (0 .. Len(input.text))
  BY <1>2, <1>3
<1>. QED
  BY <1>1, <1>4, GiveStep

----------------------------------------------------------------------------
(* The theorems.                                                            *)

LEMMA InitData == Init => DataInv
<1>. SUFFICES ASSUME Init PROVE DataInv
  OBVIOUS
<1>1. /\ msg \in Messages /\ msg.url \in Text /\ msg.body \in Text
      /\ Len(msg.url) \in Nat /\ Len(msg.body) \in Nat /\ Len(msg.lines) \in Nat
      /\ msg \in Message
  BY MessageParts, LineParts, LenOfText DEF Init
<1>2. TypeOK
  BY <1>1 DEF Init, TypeOK
<1>3. Part = msg.url /\ Line = 0 /\ at[2] = 0
  BY DEF Init, Part, Line
<1>4. Cursor
  BY <1>1, <1>3 DEF Init, Cursor
<1>5. MaxContent \in Nat
  BY RequestAssumption
<1>6. Stored /\ BodyArrives /\ BufferHolds
  BY <1>1, <1>5 DEF Init, Stored, BodyArrives, BufferHolds, NoAnswer
<1>. QED
  BY <1>2, <1>4, <1>6 DEF DataInv

\* One step of the specification, or none, keeps the invariant.
LEMMA NextData == DataInv /\ [Next]_vars => DataInv'
<1>. SUFFICES ASSUME DataInv, [Next]_vars PROVE DataInv'
  OBVIOUS
<1>1. CASE UNCHANGED vars
  <2>1. UNCHANGED <<sent, phase, code, headVars, bodyVars, environ, callVars>>
    BY <1>1 DEF vars
  <2>2. TypeOK' /\ Cursor'
    BY <2>1 DEF DataInv, TypeOK, Cursor, Part, Line, sent, headVars, bodyVars, callVars
  <2>3. Stored' /\ BodyArrives' /\ BufferHolds'
    BY <2>1 DEF DataInv, Stored, BodyArrives, BufferHolds, Kept, sent, headVars, bodyVars, callVars
  <2>. QED
    BY <2>2, <2>3 DEF DataInv
<1>2. CASE phase = "head" /\ ~InEnd
           /\ \E ends \in BOOLEAN, n \in 0 .. Left :
                url_cb(n, ends) \/ header_field_cb(n, ends)
                \/ MoreName(n, ends) \/ header_value_cb(n, ends)
  BY <1>2, UrlStep, NewNameStep, MoreNameStep, ValueStep
<1>3. CASE headers_complete_cb
  BY <1>3, HeadersDone
<1>4. CASE RefuseLength
  BY <1>4, LengthRefused
<1>5. CASE \E n \in 1 .. Len(msg.body) : body_cb(n)
  BY <1>5, BodyStep
<1>6. CASE message_complete_cb
  BY <1>6, CompleteStep
<1>7. CASE prepare_call_wsgi
  BY <1>7, InputStep
<1>8. CASE \E n \in Sizes :
             InputObject_read(n) \/ InputObject_readline(n) \/ InputObject_readlines(n)
  BY <1>8, ReadStep
<1>9. CASE InputObject_iternext
  BY <1>9, IterStep
<1>. QED
  BY <1>1, <1>2, <1>3, <1>4, <1>5, <1>6, <1>7, <1>8, <1>9 DEF Next

\* The invariant is inductive, whatever the messages, limits and sizes.
THEOREM DataInductive == Spec => []DataInv
<1>. QED
  BY InitData, NextData, PTL DEF Spec

\* Every reachable state is well typed: the parser's position stays inside
\* the message and the input's inside the body.
THEOREM TypeCorrect == Spec => []TypeOK
<1>1. DataInv => TypeOK
  BY DEF DataInv
<1>. QED
  BY <1>1, DataInductive, PTL

\* write2buf never fills a buffer to its last byte nor grows it past its
\* limit and that byte.
THEOREM BuffersHold == Spec => []BufferHolds
<1>1. DataInv => BufferHolds
  BY DEF DataInv
<1>. QED
  BY <1>1, DataInductive, PTL

\* The application's input is the body that was sent, from its first byte.
THEOREM BodyIsSent == Spec => []BodyArrives
<1>1. DataInv => BodyArrives
  BY DEF DataInv
<1>. QED
  BY <1>1, DataInductive, PTL

(* Induction on the natural numbers, for a set of them.                     *)
LEMMA Induct ==
  ASSUME NEW S, 0 \in S, \A n \in Nat : n \in S => n + 1 \in S
  PROVE  Nat \subseteq S
<1>. DEFINE T == Nat \ S
            R == OpToRel(<, Nat)
<1>. SUFFICES ASSUME T # {} PROVE FALSE
  OBVIOUS
<1>1. IsWellFoundedOn(R, Nat)
  BY NatLessThanWellFounded
<1>2. \A x, y \in Nat : <<y, x>> \in R <=> y < x
  BY DEF OpToRel
<1>. HIDE DEF R
<1>3. PICK x \in T : \A y \in T : ~ (<<y, x>> \in R)
  BY <1>1, WFMin
<1>4. x \in Nat /\ x # 0
  BY <1>3
<1>5. x - 1 \in Nat /\ <<x - 1, x>> \in R
  BY <1>2, <1>4
<1>6. x - 1 \in S
  BY <1>3, <1>5
<1>. QED
  BY <1>3, <1>4, <1>5, <1>6

----------------------------------------------------------------------------
(* The members of a set of numbers in ascending order.                      *)
Below(S, x) == {y \in S : y < x}
Rank(S, i, x) == x \in S /\ Cardinality(Below(S, x)) = i - 1

(* A member above all others has all others below it, and changes nothing   *)
(* below them.                                                              *)
LEMMA BelowTop ==
  ASSUME NEW S \in SUBSET Nat, NEW x \in Nat, \A y \in S : y < x
  PROVE  /\ Below(S \union {x}, x) = S
         /\ \A y \in S : Below(S \union {x}, y) = Below(S, y)
<1>1. x \notin S /\ \A y \in S : ~ x < y
  <2>1. \A y \in S : y \in Nat
    OBVIOUS
  <2>. QED
    BY <2>1
<1>2. \A z : z \in Below(S \union {x}, x) <=> z \in S
  <2>1. ~ x < x
    OBVIOUS
  <2>. QED
    BY <2>1, Zenon DEF Below
<1>3. ASSUME NEW y \in S PROVE \A z : z \in Below(S \union {x}, y) <=> z \in Below(S, y)
  BY <1>1 DEF Below
<1>4. Below(S \union {x}, x) = S
  BY <1>2
<1>5. ASSUME NEW y \in S PROVE Below(S \union {x}, y) = Below(S, y)
  <2>. DEFINE b == Below(S \union {x}, y)
              c == Below(S, y)
  <2>1. \A z : z \in b <=> z \in c
    BY <1>3
  <2>. HIDE DEF b, c
  <2>2. b = c
    BY <2>1
  <2>. QED
    BY <2>2 DEF b, c
<1>. QED
  BY <1>4, <1>5

(* Every place has a member, in a set of numbers below a bound.             *)
LEMMA RankExists ==
  ASSUME NEW n \in Nat, NEW S \in SUBSET Nat, \A x \in S : x < n
  PROVE  /\ IsFiniteSet(S) /\ Cardinality(S) \in Nat
         /\ \A i \in 1 .. Cardinality(S) : \E x \in S : Rank(S, i, x)
<1>. DEFINE Placed(A) == /\ IsFiniteSet(A) /\ Cardinality(A) \in Nat
                         /\ \A i \in 1 .. Cardinality(A) : \E x \in A : Rank(A, i, x)
            T == {k \in Nat : \A A \in SUBSET Nat : (\A x \in A : x < k) => Placed(A)}
<1>1. 0 \in T
  <2>1. ASSUME NEW A \in SUBSET Nat, \A x \in A : x < 0 PROVE Placed(A)
    <3>1. A = {}
      BY <2>1
    <3>2. IsFiniteSet(A) /\ Cardinality(A) = 0
      BY <3>1, FS_EmptySet
    <3>. QED
      BY <3>2
  <2>. QED
    BY <2>1
<1>2. ASSUME NEW k \in Nat, k \in T PROVE k + 1 \in T
  <2>1. ASSUME NEW A \in SUBSET Nat, \A x \in A : x < k + 1 PROVE Placed(A)
    <3>. DEFINE B == A \ {k}
    <3>1. B \in SUBSET Nat /\ \A x \in B : x < k
      BY <2>1
    <3>2. Placed(B)
      BY <1>2, <3>1
    <3>3. CASE k \notin A
      BY <3>2, <3>3
    <3>4. CASE k \in A
      <4>1. A = B \union {k} /\ k \notin B
        BY <3>4
      <4>. HIDE DEF B
      <4>2. IsFiniteSet(B) /\ Cardinality(B) \in Nat
        BY <3>2
      <4>3. IsFiniteSet(A) /\ Cardinality(A) = Cardinality(B) + 1
        BY <4>1, <4>2, FS_AddElement
      <4>4. Below(A, k) = B /\ \A y \in B : Below(A, y) = Below(B, y)
        BY <3>1, <4>1, BelowTop
      <4>5. ASSUME NEW i \in 1 .. Cardinality(A) PROVE \E x \in A : Rank(A, i, x)
        <5>1. CASE i = Cardinality(A)
          <6>1. Rank(A, i, k)
            BY <3>4, <4>2, <4>3, <4>4, <5>1 DEF Rank
          <6>. QED
            BY <3>4, <6>1
        <5>2. CASE i # Cardinality(A)
          <6>1. i \in 1 .. Cardinality(B)
            BY <4>2, <4>3, <5>2
          <6>2. PICK x \in B : Rank(B, i, x)
            BY <3>2, <6>1
          <6>3. x \in A /\ Rank(A, i, x)
            BY <4>1, <4>4, <6>2 DEF Rank
          <6>. QED
            BY <6>3
        <5>. QED
          BY <5>1, <5>2
      <4>. QED
        BY <4>2, <4>3, <4>5
    <3>. QED
      BY <3>3, <3>4
  <2>. HIDE DEF Placed
  <2>. QED
    BY <2>1
<1>. HIDE DEF Placed
<1>3. \A k \in Nat : k \in T => k + 1 \in T
  BY <1>2
<1>. HIDE DEF T
<1>4. n \in T
  BY <1>1, <1>3, Induct
<1>5. Placed(S)
  BY <1>4 DEF T
<1>. QED
  BY <1>5 DEF Placed

(* A greater member has a greater place.                                    *)
LEMMA RankLess ==
  ASSUME NEW S \in SUBSET Nat, IsFiniteSet(S),
         NEW x \in S, NEW y \in S, x < y
  PROVE  /\ Cardinality(Below(S, x)) \in Nat /\ Cardinality(Below(S, y)) \in Nat
         /\ Cardinality(Below(S, x)) < Cardinality(Below(S, y))
<1>1. Below(S, x) \in SUBSET Below(S, y) /\ x \in Below(S, y) /\ x \notin Below(S, x)
      /\ Below(S, y) \in SUBSET S
  <2>1. x \in Nat /\ y \in Nat /\ ~ x < x /\ \A z \in S : z \in Nat /\ (z < x => z < y)
    OBVIOUS
  <2>2. \A z \in Below(S, x) : z \in Below(S, y)
    BY <2>1 DEF Below
  <2>. QED
    BY <2>1, <2>2 DEF Below
<1>2. IsFiniteSet(Below(S, y))
  BY <1>1, FS_Subset
<1>3. /\ IsFiniteSet(Below(S, x)) /\ Cardinality(Below(S, x)) <= Cardinality(Below(S, y))
      /\ Cardinality(Below(S, y)) = Cardinality(Below(S, x)) => Below(S, y) = Below(S, x)
  BY <1>1, <1>2, FS_Subset
<1>4. Cardinality(Below(S, x)) \in Nat /\ Cardinality(Below(S, y)) \in Nat
  BY <1>2, <1>3, FS_CardinalityType
<1>. QED
  BY <1>1, <1>3, <1>4

(* Ascending gives each place its member.                                   *)
LEMMA AscendingIs ==
  ASSUME NEW n \in Nat, NEW S \in SUBSET Nat, \A x \in S : x < n
  PROVE  LET es == Ascending(S)
         IN  /\ IsFiniteSet(S) /\ Cardinality(S) \in Nat
             /\ es \in Seq(S) /\ es \in Seq(Nat) /\ Len(es) = Cardinality(S)
             /\ DOMAIN es = 1 .. Cardinality(S)
             /\ \A i \in 1 .. Cardinality(S) : Rank(S, i, es[i])
             /\ \A i, j \in 1 .. Cardinality(S) : i < j => es[i] < es[j]
             /\ \A x \in S : \E i \in 1 .. Cardinality(S) : es[i] = x
<1>. DEFINE es == Ascending(S)
            k == Cardinality(S)
<1>1. IsFiniteSet(S) /\ k \in Nat /\ \A i \in 1 .. k : \E x \in S : Rank(S, i, x)
  BY RankExists
<1>2. ASSUME NEW i \in 1 .. k PROVE es[i] \in S /\ Rank(S, i, es[i])
  <2>1. es[i] = CHOOSE x \in S : Cardinality({y \in S : y < x}) = i - 1
    BY DEF Ascending
  <2>2. \E x \in S : Cardinality({y \in S : y < x}) = i - 1
    BY <1>1 DEF Rank, Below
  <2>3. es[i] \in S /\ Cardinality({y \in S : y < es[i]}) = i - 1
    <3>. DEFINE P(x) == Cardinality({y \in S : y < x}) = i - 1
    <3>. HIDE DEF P
    <3>1. (CHOOSE x \in S : P(x)) \in S /\ P(CHOOSE x \in S : P(x))
      BY <2>2 DEF P
    <3>. QED
      BY <2>1, <3>1 DEF P
  <2>. QED
    BY <2>3 DEF Rank, Below
<1>3. es = [i \in 1 .. k |-> es[i]]
  BY DEF Ascending
<1>. HIDE DEF es
<1>4. es \in Seq(S) /\ es \in Seq(Nat) /\ Len(es) = k /\ DOMAIN es = 1 .. k
  <2>1. \A i \in 1 .. k : es[i] \in Nat
    BY <1>2
  <2>. QED
    <3>. HIDE DEF k
    <3>1. \A A : [1 .. k -> A] \subseteq Seq(A)
      BY <1>1
    <3>2. es \in [1 .. k -> S] /\ es \in [1 .. k -> Nat]
      BY <1>2, <1>3, <2>1
    <3>3. es \in Seq(S) /\ es \in Seq(Nat)
      BY <3>1, <3>2
    <3>4. DOMAIN es = 1 .. k
      BY <3>2
    <3>. QED
      BY <1>1, <3>3, <3>4, LenProperties
<1>5. ASSUME NEW x \in S, NEW y \in S, x < y
      PROVE  /\ Cardinality(Below(S, x)) \in Nat /\ Cardinality(Below(S, y)) \in Nat
             /\ Cardinality(Below(S, x)) < Cardinality(Below(S, y))
  BY <1>1, <1>5, RankLess
<1>. HIDE DEF k
<1>6. ASSUME NEW i \in 1 .. k, NEW j \in 1 .. k, i < j PROVE es[i] < es[j]
  <2>1. /\ es[i] \in S /\ es[j] \in S
        /\ Cardinality(Below(S, es[i])) = i - 1 /\ Cardinality(Below(S, es[j])) = j - 1
    BY <1>2 DEF Rank
  <2>2. es[i] # es[j]
    BY <1>1, <1>6, <2>1
  <2>3. ASSUME es[j] < es[i] PROVE FALSE
    <3>1. j - 1 \in Nat /\ i - 1 \in Nat /\ j - 1 < i - 1
      BY <1>5, <2>1, <2>3
    <3>. QED
      BY <1>1, <1>6, <3>1
  <2>4. es[i] \in Nat /\ es[j] \in Nat
    BY <2>1
  <2>. QED
    BY <2>2, <2>3, <2>4
<1>7. ASSUME NEW x \in S PROVE \E i \in 1 .. k : es[i] = x
  <2>. DEFINE c == Cardinality(Below(S, x))
  <2>1. Below(S, x) \in SUBSET S /\ x \notin Below(S, x)
    BY DEF Below
  <2>2. IsFiniteSet(Below(S, x)) /\ c <= k /\ c # k
    BY <1>1, <2>1, FS_Subset DEF k
  <2>3. c \in Nat
    BY <2>2, FS_CardinalityType
  <2>. HIDE DEF c
  <2>. DEFINE i == c + 1
              y == es[i]
  <2>4. i \in 1 .. k /\ i - 1 = c
    BY <1>1, <2>2, <2>3
  <2>. HIDE DEF i
  <2>5. y \in S /\ Cardinality(Below(S, y)) = i - 1
    BY <1>2, <2>4 DEF Rank
  <2>. HIDE DEF y
  <2>6. x \in Nat /\ y \in Nat
    BY <2>5
  <2>7. Cardinality(Below(S, y)) = c /\ Cardinality(Below(S, x)) = c
    BY <2>4, <2>5 DEF c
  <2>8. ASSUME x < y \/ y < x PROVE FALSE
    <3>1. c < c
      BY <1>5, <2>5, <2>7, <2>8
    <3>. QED
      BY <2>3, <3>1
  <2>9. x = y
    BY <2>6, <2>8
  <2>. QED
    BY <2>4, <2>9 DEF y
<1>. QED
  BY <1>1, <1>2, <1>4, <1>6, <1>7 DEF es, k

(* No members,                                                              *)
LEMMA AscendingNone == Ascending({}) = << >>
BY FS_EmptySet DEF Ascending

(* one above all others,                                                    *)
LEMMA AscendingAdd ==
  ASSUME NEW S \in SUBSET Nat, NEW x \in Nat, \A y \in S : y < x
  PROVE  Ascending(S \union {x}) = Append(Ascending(S), x)
<1>. DEFINE A == S \union {x}
            k == Cardinality(S)
            es == Ascending(S)
            fs == Ascending(A)
<1>1. /\ IsFiniteSet(S) /\ k \in Nat /\ es \in Seq(S) /\ es \in Seq(Nat) /\ Len(es) = k
      /\ \A i \in 1 .. k : Rank(S, i, es[i])
  BY AscendingIs
<1>2. A \in SUBSET Nat /\ \A y \in A : y < x + 1
  OBVIOUS
<1>3. x + 1 \in Nat
  OBVIOUS
<1>. HIDE DEF A
<1>4. /\ IsFiniteSet(A) /\ fs \in Seq(A) /\ fs \in Seq(Nat) /\ Len(fs) = Cardinality(A)
      /\ \A i \in 1 .. Cardinality(A) : Rank(A, i, fs[i])
  BY <1>2, <1>3, AscendingIs
<1>5. Cardinality(A) = k + 1
  <2>1. x \notin S
    OBVIOUS
  <2>. QED
    BY <1>1, <2>1, FS_AddElement DEF A
<1>6. Below(A, x) = S /\ \A y \in S : Below(A, y) = Below(S, y)
  BY BelowTop DEF A
<1>. HIDE DEF es, fs, k
<1>7. ASSUME NEW u \in A, NEW v \in A, Cardinality(Below(A, u)) = Cardinality(Below(A, v))
      PROVE  u = v
  <2>1. u \in Nat /\ v \in Nat
    BY <1>2
  <2>2. ~ u < v /\ ~ v < u
    BY <1>2, <1>4, <1>7, RankLess
  <2>. QED
    BY <2>1, <2>2
<1>8. ASSUME NEW i \in 1 .. k + 1 PROVE fs[i] = IF i <= k THEN es[i] ELSE x
  <2>1. fs[i] \in A /\ Cardinality(Below(A, fs[i])) = i - 1
    BY <1>4, <1>5 DEF Rank
  <2>2. CASE i <= k
    <3>1. es[i] \in S /\ Cardinality(Below(S, es[i])) = i - 1
      BY <1>1, <2>2 DEF Rank
    <3>2. es[i] \in A /\ Cardinality(Below(A, es[i])) = i - 1
      BY <1>6, <3>1 DEF A
    <3>. QED
      BY <1>7, <2>1, <2>2, <3>2
  <2>3. CASE ~ i <= k
    <3>1. x \in A /\ Cardinality(Below(A, x)) = i - 1
      BY <1>1, <1>6, <2>3 DEF A, k
    <3>. QED
      BY <1>7, <2>1, <2>3, <3>1
  <2>. QED
    BY <2>2, <2>3
<1>9. fs \in Seq(Nat) /\ es \in Seq(Nat) /\ Len(fs) = k + 1
  BY <1>1, <1>4, <1>5
<1>10. Append(es, x) \in Seq(Nat) /\ Len(Append(es, x)) = k + 1
       /\ \A i \in 1 .. k + 1 : Append(es, x)[i] = IF i <= k THEN es[i] ELSE x
  BY <1>1, <1>9
<1>11. fs = Append(es, x)
  BY <1>8, <1>9, <1>10, SeqEqual
<1>. QED
  BY <1>11 DEF fs, es, A

(* and one.                                                                 *)
LEMMA AscendingOne ==
  ASSUME NEW x \in Nat
  PROVE  Ascending({x}) = <<x>>
<1>1. {} \union {x} = {x} /\ Append(<< >>, x) = <<x>>
  OBVIOUS
<1>. QED
  BY <1>1, AscendingNone, AscendingAdd

----------------------------------------------------------------------------
(* FlattenSeq joins the texts of a sequence, one after the other.           *)
Char == 0 .. 255

LEMMA TextIs == Text = Seq(Char)
BY DEF Text, Char

(* Texts joined to texts.                                                   *)
LEMMA Assoc ==
  ASSUME NEW a \in Seq(Char), NEW b \in Seq(Char), NEW c \in Seq(Char)
  PROVE  (a \o b) \o c = a \o (b \o c)
BY ConcatAssociative

Joined(g, s, m) == \A i \in 1 .. m : g[i] = IF i = 1 THEN s[i] ELSE g[i - 1] \o s[i]

(* Parts can be joined one after the other.                                 *)
LEMMA JoinedExists ==
  ASSUME NEW s \in Seq(Seq(Char))
  PROVE  \A m \in Nat : m <= Len(s) => \E g \in [1 .. m -> Seq(Char)] : Joined(g, s, m)
<1>. DEFINE S == {m \in Nat : m <= Len(s) => \E g \in [1 .. m -> Seq(Char)] : Joined(g, s, m)}
<1>1. 0 \in S
  <2>1. Joined([i \in 1 .. 0 |-> <<>>], s, 0) /\ [i \in 1 .. 0 |-> <<>>] \in [1 .. 0 -> Seq(Char)]
    BY DEF Joined
  <2>. QED
    BY <2>1
<1>2. ASSUME NEW n \in Nat, n \in S, n + 1 <= Len(s)
      PROVE  \E g \in [1 .. n + 1 -> Seq(Char)] : Joined(g, s, n + 1)
  <2>1. PICK g \in [1 .. n -> Seq(Char)] : Joined(g, s, n)
    BY <1>2
  <2>. DEFINE end == IF n = 0 THEN s[1] ELSE g[n] \o s[n + 1]
              h == [i \in 1 .. n + 1 |-> IF i = n + 1 THEN end ELSE g[i]]
  <2>2. s[n + 1] \in Seq(Char)
    BY <1>2
  <2>3. end \in Seq(Char)
    BY <1>2, <2>1, <2>2, ConcatProperties
  <2>4. h \in [1 .. n + 1 -> Seq(Char)]
    BY <2>3
  <2>5. ASSUME NEW i \in 1 .. n + 1
        PROVE  h[i] = IF i = 1 THEN s[i] ELSE h[i - 1] \o s[i]
    <3>1. CASE i = n + 1
      BY <3>1
    <3>2. CASE i # n + 1
      <4>1. i \in 1 .. n /\ (i # 1 => i - 1 \in 1 .. n)
        BY <3>2
      <4>2. g[i] = IF i = 1 THEN s[i] ELSE g[i - 1] \o s[i]
        BY <2>1, <4>1 DEF Joined
      <4>3. h[i] = g[i] /\ (i # 1 => h[i - 1] = g[i - 1])
        BY <3>2, <4>1
      <4>. QED
        BY <4>2, <4>3
    <3>. QED
      BY <3>1, <3>2
  <2>. HIDE DEF h, end
  <2>. QED
    BY <2>4, <2>5 DEF Joined
<1>3. \A n \in Nat : n \in S => n + 1 \in S
  BY <1>2
<1>. HIDE DEF S
<1>4. Nat \subseteq S
  BY <1>1, <1>3, Induct
<1>. QED
  BY <1>4 DEF S

(* The same parts, joined, are the same.                                    *)
LEMMA JoinedSame ==
  ASSUME NEW g, NEW h, NEW s, NEW t, NEW m \in Nat,
         Joined(g, s, m), Joined(h, t, m), \A i \in 1 .. m : s[i] = t[i]
  PROVE  \A i \in 1 .. m : g[i] = h[i]
<1>. DEFINE S == {i \in Nat : i \in 1 .. m => g[i] = h[i]}
<1>1. 0 \in S
  OBVIOUS
<1>2. ASSUME NEW i \in Nat, i \in S, i + 1 \in 1 .. m PROVE g[i + 1] = h[i + 1]
  <2>1. /\ g[i + 1] = IF i + 1 = 1 THEN s[i + 1] ELSE g[i + 1 - 1] \o s[i + 1]
        /\ h[i + 1] = IF i + 1 = 1 THEN t[i + 1] ELSE h[i + 1 - 1] \o t[i + 1]
    BY <1>2 DEF Joined
  <2>2. i # 0 => i \in 1 .. m /\ i + 1 # 1 /\ i + 1 - 1 = i
    BY <1>2
  <2>3. i # 0 => g[i + 1 - 1] = h[i + 1 - 1]
    BY <1>2, <2>2
  <2>4. s[i + 1] = t[i + 1]
    BY <1>2
  <2>5. CASE i = 0
    BY <2>1, <2>4, <2>5
  <2>. QED
    BY <2>1, <2>2, <2>3, <2>4, <2>5
<1>3. \A i \in Nat : i \in S => i + 1 \in S
  BY <1>2
<1>. HIDE DEF S
<1>4. Nat \subseteq S
  BY <1>1, <1>3, Induct
<1>. QED
  BY <1>4 DEF S

(* FlattenSeq joins the parts one after the other.                          *)
LEMMA FlattenIs ==
  ASSUME NEW s \in Seq(Seq(Char)), s # <<>>
  PROVE  \E g \in [1 .. Len(s) -> Seq(Char)] : Joined(g, s, Len(s)) /\ FlattenSeq(s) = g[Len(s)]
<1>. DEFINE n == Len(s)
            f == CHOOSE g : g = [i \in 1 .. n |-> IF i = 1 THEN s[i] ELSE g[i - 1] \o s[i]]
<1>1. n \in Nat /\ n # 0
  OBVIOUS
<1>2. PICK g \in [1 .. n -> Seq(Char)] : Joined(g, s, n)
  BY <1>1, JoinedExists
<1>3. Joined(f, s, n)
  <2>1. g = [i \in 1 .. n |-> IF i = 1 THEN s[i] ELSE g[i - 1] \o s[i]]
    BY <1>2 DEF Joined
  <2>. HIDE DEF n
  <2>2. f = [i \in 1 .. n |-> IF i = 1 THEN s[i] ELSE f[i - 1] \o s[i]]
    BY <2>1, Zenon
  <2>. HIDE DEF f
  <2>. QED
    BY <2>2, Zenon DEF Joined
<1>4. FlattenSeq(s) = f[n]
  <2>1. Len(s) # 0
    BY <1>1
  <2>. QED
    BY <2>1, Zenon DEF FlattenSeq
<1>5. \A i \in 1 .. n : f[i] = g[i]
  <2>. HIDE DEF f
  <2>. QED
    BY <1>1, <1>2, <1>3, JoinedSame
<1>. HIDE DEF f
<1>6. FlattenSeq(s) = g[n]
  <2>1. n \in 1 .. n
    BY <1>1
  <2>. QED
    BY <1>4, <1>5, <2>1, Zenon
<1>. QED
  BY <1>2, <1>6, Zenon

(* No parts are an empty text.                                                  *)
LEMMA FlattenEmpty == FlattenSeq(<<>>) = <<>>
BY DEF FlattenSeq

First(s, n) == SubSeq(s, 1, n)
Flat(s, n) == FlattenSeq(First(s, n))

(* The first n elements of a sequence.                                      *)
LEMMA FirstIs ==
  ASSUME NEW S, NEW s \in Seq(S), NEW n \in 0 .. Len(s)
  PROVE  /\ First(s, n) \in Seq(S) /\ Len(First(s, n)) = n
         /\ \A i \in 1 .. n : First(s, n)[i] = s[i]
<1>1. SubSeq(s, 1, n) \in Seq(S)
  OBVIOUS
<1>2. Len(SubSeq(s, 1, n)) = n
  OBVIOUS
<1>3. ASSUME NEW i \in 1 .. n PROVE SubSeq(s, 1, n)[i] = s[i]
  OBVIOUS
<1>. QED
  BY <1>1, <1>2, <1>3 DEF First

(* None of them,                                                            *)
LEMMA FirstNone == \A s : First(s, 0) = <<>>
BY DEF First

(* and all of them.                                                         *)
LEMMA FirstAll ==
  ASSUME NEW S, NEW s \in Seq(S)
  PROVE  First(s, Len(s)) = s
BY SubSeqFull DEF First

(* What the first n parts are when joined: nothing, if n is 0;              *)
LEMMA FlatNone == \A s : Flat(s, 0) = <<>>
BY FirstNone, FlattenEmpty, Zenon DEF Flat

(* the next part comes after those before it;                               *)
LEMMA FlatNext ==
  ASSUME NEW s \in Seq(Seq(Char)), NEW n \in 1 .. Len(s)
  PROVE  Flat(s, n) = Flat(s, n - 1) \o s[n] /\ Flat(s, n) \in Seq(Char) /\ s[n] \in Seq(Char)
<1>. DEFINE p == First(s, n)
            q == First(s, n - 1)
<1>0. n \in 0 .. Len(s) /\ n - 1 \in 0 .. Len(s) /\ n \in Nat /\ n - 1 \in Nat /\ n \in 1 .. n
  OBVIOUS
<1>1. /\ p \in Seq(Seq(Char)) /\ Len(p) = n /\ \A i \in 1 .. n : p[i] = s[i]
  BY <1>0, FirstIs
<1>2. /\ q \in Seq(Seq(Char)) /\ Len(q) = n - 1 /\ \A i \in 1 .. n - 1 : q[i] = s[i]
  BY <1>0, FirstIs
<1>3. s[n] \in Seq(Char)
  OBVIOUS
<1>. HIDE DEF p, q
<1>4. PICK g : g \in [1 .. n -> Seq(Char)] /\ Joined(g, p, n) /\ FlattenSeq(p) = g[n]
  <2>1. p # <<>>
    BY <1>0, <1>1
  <2>. QED
    BY <1>1, <2>1, FlattenIs
<1>5. g[n] = IF n = 1 THEN s[n] ELSE g[n - 1] \o s[n]
  BY <1>0, <1>1, <1>4 DEF Joined
<1>6. g[n] \in Seq(Char)
  BY <1>0, <1>4
<1>7. CASE n = 1
  <2>1. q = First(s, 0)
    BY <1>7 DEF q
  <2>2. FlattenSeq(q) = <<>>
    BY <2>1, FirstNone, FlattenEmpty
  <2>3. <<>> \o s[n] = s[n]
    BY <1>3, ConcatEmptySeq
  <2>. QED
    BY <1>3, <1>4, <1>5, <1>6, <1>7, <2>2, <2>3 DEF p, q, Flat
<1>8. CASE n # 1
  <2>1. q # <<>> /\ n - 1 \in 1 .. n - 1
    BY <1>0, <1>2, <1>8
  <2>2. PICK h : h \in [1 .. n - 1 -> Seq(Char)] /\ Joined(h, q, n - 1) /\ FlattenSeq(q) = h[n - 1]
    BY <1>2, <2>1, FlattenIs
  <2>3. \A i \in 1 .. n - 1 : h[i] = g[i]
    <3>1. ASSUME NEW i \in 1 .. n - 1 PROVE q[i] = p[i]
      <4>1. i \in 1 .. n
        BY <1>0
      <4>. QED
        BY <1>1, <1>2, <4>1
    <3>2. n - 1 <= n
      BY <1>0
    <3>. DEFINE k == n - 1
    <3>3. k \in Nat /\ k <= n /\ Joined(h, q, k) /\ \A i \in 1 .. k : q[i] = p[i]
      BY <1>0, <2>2, <3>1, <3>2
    <3>. HIDE DEF k
    <3>4. Joined(g, p, k)
      <4>1. ASSUME NEW i \in 1 .. k PROVE g[i] = IF i = 1 THEN p[i] ELSE g[i - 1] \o p[i]
        <5>1. i \in 1 .. n
          BY <1>0, <3>3
        <5>. QED
          BY <1>4, <5>1 DEF Joined
      <4>. QED
        BY <4>1 DEF Joined
    <3>5. \A i \in 1 .. k : h[i] = g[i]
      <4>1. k \in Nat /\ Joined(h, q, k) /\ \A i \in 1 .. k : q[i] = p[i]
        BY <3>3
      <4>. QED
        BY <3>4, <4>1, JoinedSame, SMTT(30)
    <3>. QED
      BY <3>5 DEF k
  <2>4. FlattenSeq(q) = g[n - 1]
    BY <2>1, <2>2, <2>3
  <2>. QED
    BY <1>3, <1>4, <1>5, <1>6, <1>8, <2>4 DEF p, q, Flat
<1>. QED
  BY <1>7, <1>8

(* a text, in any case;                                                      *)
LEMMA FlatType ==
  ASSUME NEW s \in Seq(Seq(Char)), NEW n \in 0 .. Len(s)
  PROVE  Flat(s, n) \in Seq(Char) /\ Len(Flat(s, n)) \in Nat
<1>1. Flat(s, n) \in Seq(Char)
  <2>1. CASE n = 0
    BY <2>1, FlatNone, EmptySeq
  <2>2. CASE n # 0
    <3>1. n \in 1 .. Len(s)
      BY <2>2
    <3>. QED
      BY <3>1, FlatNext
  <2>. QED
    BY <2>1, <2>2
<1>. QED
  BY <1>1, LenProperties

(* and FlattenSeq of the parts, if all of them are joined.                  *)
LEMMA FlattenAll ==
  ASSUME NEW s \in Seq(Seq(Char))
  PROVE  /\ FlattenSeq(s) = Flat(s, Len(s))
         /\ FlattenSeq(s) \in Seq(Char) /\ Len(FlattenSeq(s)) \in Nat
<1>1. FlattenSeq(s) = Flat(s, Len(s))
  BY FirstAll DEF Flat
<1>2. Len(s) \in 0 .. Len(s)
  OBVIOUS
<1>. QED
  BY <1>1, <1>2, FlatType

(* What fewer parts are begins what more of them are.                       *)
LEMMA FlatPrefix ==
  ASSUME NEW s \in Seq(Seq(Char)), NEW m \in 0 .. Len(s)
  PROVE  \A n \in m .. Len(s) : \E r \in Seq(Char) : Flat(s, n) = Flat(s, m) \o r
<1>. DEFINE S == {d \in Nat : m + d <= Len(s) =>
                    \E r \in Seq(Char) : Flat(s, m + d) = Flat(s, m) \o r}
<1>0. Len(s) \in Nat /\ m \in Nat /\ m <= Len(s)
  OBVIOUS
<1>1. Flat(s, m) \in Seq(Char)
  BY FlatType
<1>3. 0 \in S
  <2>1. Flat(s, m) = Flat(s, m) \o <<>> /\ <<>> \in Seq(Char)
    BY <1>1, ConcatEmptySeq, EmptySeq
  <2>2. m + 0 = m
    BY <1>0
  <2>. QED
    BY <2>1, <2>2
<1>4. ASSUME NEW d \in Nat, d \in S, m + (d + 1) <= Len(s)
      PROVE  \E r \in Seq(Char) : Flat(s, m + (d + 1)) = Flat(s, m) \o r
  <2>1. m + d <= Len(s) /\ m + (d + 1) \in 1 .. Len(s) /\ m + (d + 1) - 1 = m + d
    BY <1>0, <1>4
  <2>2. PICK r \in Seq(Char) : Flat(s, m + d) = Flat(s, m) \o r
    BY <1>4, <2>1
  <2>. DEFINE k == m + (d + 1)
              p == Flat(s, m)
              e == s[k]
  <2>3. k \in 1 .. Len(s) /\ k - 1 = m + d
    BY <2>1
  <2>. HIDE DEF k, p
  <2>4. Flat(s, k) = Flat(s, k - 1) \o e /\ e \in Seq(Char)
    BY <2>3, FlatNext
  <2>. HIDE DEF e
  <2>5. Flat(s, k) = (p \o r) \o e
    BY <2>2, <2>3, <2>4 DEF p
  <2>6. p \in Seq(Char)
    BY <1>1 DEF p
  <2>7. (p \o r) \o e = p \o (r \o e) /\ r \o e \in Seq(Char)
    BY <2>4, <2>6, ConcatAssociative, ConcatProperties
  <2>8. \E q \in Seq(Char) : Flat(s, k) = p \o q
    BY <2>5, <2>7
  <2>. QED
    BY <2>8 DEF k, p
<1>5. Nat \subseteq S
  <2>1. \A d \in Nat : d \in S => d + 1 \in S
    <3>. TAKE d \in Nat
    <3>. HAVE d \in S
    <3>1. d + 1 \in Nat
      OBVIOUS
    <3>2. m + (d + 1) <= Len(s) => \E r \in Seq(Char) : Flat(s, m + (d + 1)) = Flat(s, m) \o r
      BY <1>4
    <3>. QED
      BY <3>1, <3>2
  <2>. HIDE DEF S
  <2>. QED
    BY <1>3, <2>1, Induct
<1>. TAKE n \in m .. Len(s)
<1>6. n - m \in Nat /\ m + (n - m) = n /\ n <= Len(s)
  BY <1>0
<1>7. n - m \in S
  BY <1>5, <1>6
<1>. QED
  BY <1>6, <1>7

(* A part behind the others.                                                *)
LEMMA FlattenLast ==
  ASSUME NEW s \in Seq(Seq(Char)), NEW a \in Seq(Char)
  PROVE  FlattenSeq(Append(s, a)) = FlattenSeq(s) \o a
<1>. DEFINE t == Append(s, a)
            n == Len(s)
<1>1. /\ t \in Seq(Seq(Char)) /\ Len(t) = n + 1 /\ t[n + 1] = a
      /\ n \in Nat /\ n + 1 \in 1 .. n + 1 /\ n \in 0 .. n + 1 /\ n + 1 - 1 = n
      /\ \A i \in 1 .. n : t[i] = s[i]
  OBVIOUS
<1>. HIDE DEF t
<1>2. First(t, n) = s
  <2>1. /\ First(t, n) \in Seq(Seq(Char)) /\ Len(First(t, n)) = n
        /\ \A i \in 1 .. n : First(t, n)[i] = t[i]
    <3>1. t \in Seq(Seq(Char)) /\ n \in 0 .. Len(t)
      BY <1>1
    <3>. HIDE DEF n
    <3>. QED
      BY <3>1, FirstIs
  <2>2. \A i \in 1 .. Len(First(t, n)) : First(t, n)[i] = s[i]
    BY <1>1, <2>1
  <2>. QED
    BY <2>1, <2>2, SeqEqual
<1>3. Flat(t, n + 1) = Flat(t, n) \o a
  <2>. DEFINE k == n + 1
  <2>1. k \in 1 .. Len(t) /\ k - 1 = n /\ t[k] = a
    BY <1>1
  <2>. HIDE DEF k
  <2>2. Flat(t, k) = Flat(t, k - 1) \o t[k]
    BY <1>1, <2>1, FlatNext
  <2>. QED
    BY <2>1, <2>2 DEF k
<1>4. FlattenSeq(t) = Flat(t, n + 1)
  BY <1>1, FlattenAll
<1>. HIDE DEF n
<1>. QED
  BY <1>1, <1>2, <1>3, <1>4 DEF t, Flat

LEMMA FlattenOne ==
  ASSUME NEW a \in Seq(Char)
  PROVE  FlattenSeq(<<a>>) = a /\ <<a>> \in Seq(Seq(Char))
<1>1. <<>> \in Seq(Seq(Char)) /\ Append(<<>>, a) = <<a>> /\ <<a>> \in Seq(Seq(Char))
  OBVIOUS
<1>2. FlattenSeq(Append(<<>>, a)) = FlattenSeq(<<>>) \o a
  BY <1>1, FlattenLast
<1>3. <<>> \o a = a
  BY ConcatEmptySeq
<1>. QED
  BY <1>1, <1>2, <1>3, FlattenEmpty, Zenon

----------------------------------------------------------------------------
(* What a call on the input gives.  Between cuts a text behind p and up to  *)
(* e.                                                                       *)
Between(t, p, e) == SubSeq(t, p + 1, e)

LEMMA BetweenIs ==
  ASSUME NEW t \in Seq(Char), NEW p \in 0 .. Len(t), NEW e \in p .. Len(t)
  PROVE  LET b == Between(t, p, e)
         IN  /\ b \in Seq(Char) /\ Len(b) = e - p
             /\ \A i \in 1 .. e - p : b[i] = t[p + i]
<1>. DEFINE b == Between(t, p, e)
<1>0. p \in Nat /\ e \in Nat /\ Len(t) \in Nat /\ p <= e /\ e <= Len(t)
  BY LenProperties
<1>1. \A j \in p + 1 .. e : t[j] \in Char
  <2>1. \A j \in p + 1 .. e : j \in 1 .. Len(t)
    BY <1>0
  <2>. QED
    BY <2>1, ElementOfSeq
<1>. DEFINE q == p + 1
<1>2. q \in Int /\ e \in Int /\ \A j \in q .. e : t[j] \in Char
  BY <1>0, <1>1
<1>. HIDE DEF q
<1>3. /\ SubSeq(t, q, e) \in Seq(Char)
      /\ Len(SubSeq(t, q, e)) = IF q <= e THEN e - q + 1 ELSE 0
      /\ \A i \in 1 .. e - q + 1 : SubSeq(t, q, e)[i] = t[q + i - 1]
  BY <1>2, SubSeqProperties
<1>4. b = SubSeq(t, q, e) /\ q = p + 1
  BY DEF Between, q
<1>. HIDE DEF b
<1>5. b \in Seq(Char) /\ Len(b) = e - p
  BY <1>0, <1>3, <1>4
<1>6. ASSUME NEW i \in 1 .. e - p PROVE b[i] = t[p + i]
  <2>1. i \in 1 .. e - q + 1 /\ q + i - 1 = p + i
    BY <1>0, <1>4
  <2>2. b[i] = t[q + i - 1]
    BY <1>3, <1>4, <2>1
  <2>. QED
    BY <2>1, <2>2
<1>. QED
  BY <1>5, <1>6 DEF b

LEMMA BetweenJoin ==
  ASSUME NEW t \in Seq(Char), NEW p \in 0 .. Len(t), NEW e \in p .. Len(t), NEW f \in e .. Len(t)
  PROVE  Between(t, p, e) \o Between(t, e, f) = Between(t, p, f)
<1>1. /\ p + 1 \in 1 .. Len(t) + 1 /\ e \in p + 1 - 1 .. Len(t) /\ f \in e .. Len(t)
  BY LenProperties
<1>. QED
  BY <1>1, ConcatAdjacentSubSeq DEF Between

(* The start of what is cut is cut from the text too, and so is its end.    *)
LEMMA BetweenStart ==
  ASSUME NEW t \in Seq(Char), NEW p \in 0 .. Len(t), NEW f \in p .. Len(t), NEW e \in p .. f
  PROVE  /\ SubSeq(Between(t, p, f), 1, e - p) = Between(t, p, e)
         /\ IsPrefix(Between(t, p, e), Between(t, p, f))
<1>. DEFINE a == Between(t, p, e)
            b == Between(t, p, f)
            n == e - p
            c == SubSeq(b, 1, n)
<1>0. /\ p \in Nat /\ e \in Nat /\ f \in Nat /\ Len(t) \in Nat /\ n \in Nat
      /\ e \in p .. Len(t) /\ n <= f - p
  BY LenProperties
<1>1. a \in Seq(Char) /\ Len(a) = n /\ \A i \in 1 .. n : a[i] = t[p + i]
  BY <1>0, BetweenIs
<1>2. b \in Seq(Char) /\ Len(b) = f - p /\ \A i \in 1 .. f - p : b[i] = t[p + i]
  BY BetweenIs
<1>. HIDE DEF a, b, n
<1>3. n \in 0 .. Len(b) /\ n \in Int /\ \A i \in 1 .. n : i \in 1 .. f - p
  BY <1>0, <1>2
<1>4. c \in Seq(Char) /\ Len(c) = n /\ \A i \in 1 .. n : c[i] = b[i]
  BY <1>2, <1>3
<1>. HIDE DEF c
<1>5. c = a
  <2>1. \A i \in 1 .. n : c[i] = a[i]
    BY <1>1, <1>2, <1>3, <1>4
  <2>. QED
    BY <1>1, <1>4, <2>1, SeqEqual
<1>6. SubSeq(a, 1, Len(a)) = a
  BY <1>1, SubSeqFull
<1>7. IsPrefix(a, b)
  BY <1>1, <1>2, <1>3, <1>5, <1>6 DEF IsPrefix, c
<1>. QED
  BY <1>5, <1>7 DEF a, b, c, n

LEMMA BetweenEnd ==
  ASSUME NEW t \in Seq(Char), NEW p \in 0 .. Len(t), NEW e \in p .. Len(t)
  PROVE  LET r == Between(t, p, Len(t))
         IN  SubSeq(r, e - p + 1, Len(r)) = Between(t, e, Len(t))
<1>. DEFINE l == Len(t)
            r == Between(t, p, l)
            k == e - p
            c == Between(r, k, l - p)
            d == Between(t, e, l)
<1>0. /\ p \in Nat /\ e \in Nat /\ l \in Nat /\ l \in p .. l /\ k \in 0 .. l - p
      /\ l \in e .. l /\ e \in 0 .. l /\ l - p \in k .. l - p
      /\ l - p - k = l - e /\ p + k = e
  BY LenProperties
<1>1. r \in Seq(Char) /\ Len(r) = l - p /\ \A i \in 1 .. l - p : r[i] = t[p + i]
  BY <1>0, BetweenIs
<1>2. d \in Seq(Char) /\ Len(d) = l - e /\ \A i \in 1 .. l - e : d[i] = t[e + i]
  BY <1>0, BetweenIs
<1>. HIDE DEF r, d, l, k
<1>3. c \in Seq(Char) /\ Len(c) = l - p - k /\ \A i \in 1 .. l - p - k : c[i] = r[k + i]
  <2>. DEFINE m == l - p
  <2>1. k \in 0 .. Len(r) /\ m \in k .. Len(r)
    BY <1>0, <1>1
  <2>. HIDE DEF m
  <2>2. /\ Between(r, k, m) \in Seq(Char) /\ Len(Between(r, k, m)) = m - k
        /\ \A i \in 1 .. m - k : Between(r, k, m)[i] = r[k + i]
    BY <1>1, <2>1, BetweenIs
  <2>. QED
    BY <2>2 DEF m
<1>4. ASSUME NEW i \in 1 .. l - e PROVE c[i] = d[i]
  <2>1. k + i \in 1 .. l - p /\ p + (k + i) = e + i /\ i \in 1 .. l - p - k
    BY <1>0
  <2>. HIDE DEF c
  <2>. QED
    BY <1>1, <1>2, <1>3, <2>1
<1>. HIDE DEF c
<1>5. c = d
  BY <1>0, <1>2, <1>3, <1>4, SeqEqual
<1>. QED
  BY <1>1, <1>5 DEF c, d, r, l, k, Between

(* A line ends at its newline, or with the text.                            *)
LEMMA LineIs ==
  ASSUME NEW t \in Seq(Char), NEW p \in 0 .. Len(t)
  PROVE  LET e == inner_readline(t, p)
         IN  /\ e \in p .. Len(t)
             /\ \A q \in p + 1 .. e - 1 : t[q] # Newline
             /\ e = Len(t) \/ (e > p /\ t[e] = Newline)
             /\ p < Len(t) => e > p
<1>. DEFINE S == {q \in p + 1 .. Len(t) : t[q] = Newline} \union {Len(t)}
            e == inner_readline(t, p)
<1>1. Len(t) \in Nat /\ p \in Nat /\ p <= Len(t)
  BY LenProperties
<1>2. S \in SUBSET Nat /\ S # {} /\ \A q \in S : q \in p .. Len(t)
  BY <1>1
<1>3. e = Min(S)
  BY DEF inner_readline
<1>. HIDE DEF e
<1>4. e \in S /\ \A y \in S : e <= y
  <2>. HIDE DEF S
  <2>. QED
    BY <1>2, <1>3, MinIsIn
<1>5. ASSUME NEW q \in p + 1 .. e - 1 PROVE t[q] # Newline
  <2>1. e \in Nat /\ e <= Len(t) /\ q \in p + 1 .. Len(t) /\ ~ e <= q
    BY <1>1, <1>2, <1>4
  <2>2. q \notin S
    BY <1>4, <2>1
  <2>. QED
    BY <2>1, <2>2
<1>6. e = Len(t) \/ (e > p /\ t[e] = Newline)
  BY <1>1, <1>4
<1>7. p < Len(t) => e > p
  BY <1>1, <1>4
<1>. QED
  BY <1>2, <1>4, <1>5, <1>6, <1>7 DEF e

(* Lines with these ends, from p on: how Give makes them.                   *)
StartOf(es, p, i) == IF i = 1 THEN p ELSE es[i - 1]
(* The lines of a text that end at the given places.                        *)
LinesOf(t, p, ends) ==
  LET es == Ascending(ends)
  IN  [i \in DOMAIN es |-> SubSeq(t, StartOf(es, p, i) + 1, es[i])]

(* Each line lies between the end before it and its own.                    *)
LEMMA LinesAre ==
  ASSUME NEW t \in Seq(Char), NEW p \in 0 .. Len(t), NEW ends \in SUBSET (p .. Len(t))
  PROVE  LET es == Ascending(ends)
             ls == LinesOf(t, p, ends)
             n  == Cardinality(ends)
         IN  /\ n \in Nat /\ ls \in Seq(Seq(Char)) /\ Len(ls) = n /\ DOMAIN ls = 1 .. n
             /\ es \in Seq(Nat) /\ Len(es) = n
             /\ \A i \in 1 .. n :
                  /\ es[i] \in ends /\ es[i] \in p .. Len(t)
                  /\ StartOf(es, p, i) \in p .. es[i]
                  /\ i # 1 => StartOf(es, p, i) \in ends /\ StartOf(es, p, i) < es[i]
                  /\ ls[i] = Between(t, StartOf(es, p, i), es[i])
             /\ \A i, j \in 1 .. n : i < j => es[i] < es[j]
             /\ \A x \in ends : \E i \in 1 .. n : es[i] = x
<1>. DEFINE es == Ascending(ends)
            ls == LinesOf(t, p, ends)
            n  == Cardinality(ends)
            m  == Len(t) + 1
<1>0. p \in Nat /\ Len(t) \in Nat /\ m \in Nat
  BY LenProperties
<1>1. ends \in SUBSET Nat /\ \A x \in ends : x \in Nat /\ p <= x /\ x <= Len(t) /\ x < m
  BY <1>0
<1>. HIDE DEF m
<1>2. /\ n \in Nat /\ es \in Seq(Nat) /\ Len(es) = n /\ DOMAIN es = 1 .. n
      /\ \A i \in 1 .. n : es[i] \in ends
      /\ \A i, j \in 1 .. n : i < j => es[i] < es[j]
      /\ \A x \in ends : \E i \in 1 .. n : es[i] = x
  BY <1>0, <1>1, AscendingIs DEF Rank
<1>3. ls = [i \in 1 .. n |-> SubSeq(t, StartOf(es, p, i) + 1, es[i])]
  BY <1>2 DEF LinesOf
<1>. HIDE DEF es, ls, n
<1>4. ASSUME NEW i \in 1 .. n
      PROVE  /\ es[i] \in ends /\ es[i] \in p .. Len(t)
             /\ StartOf(es, p, i) \in p .. es[i]
             /\ i # 1 => StartOf(es, p, i) \in ends /\ StartOf(es, p, i) < es[i]
             /\ ls[i] = Between(t, StartOf(es, p, i), es[i]) /\ ls[i] \in Seq(Char)
  <2>1. es[i] \in ends /\ es[i] \in p .. Len(t)
    BY <1>1, <1>2
  <2>2. CASE i = 1
    <3>1. StartOf(es, p, i) = p
      BY <2>2 DEF StartOf
    <3>. QED
      BY SMTT(30), <1>0, <1>3, <2>1, <2>2, <3>1, BetweenIs DEF Between
  <2>3. CASE i # 1
    <3>. DEFINE j == i - 1
    <3>1. j \in 1 .. n /\ j < i
      BY <1>2, <2>3
    <3>2. StartOf(es, p, i) = es[j]
      BY <2>3 DEF StartOf
    <3>. HIDE DEF j
    <3>3. es[j] < es[i] /\ es[j] \in ends
      BY <1>2, <3>1
    <3>4. es[j] \in p .. es[i] /\ es[j] \in 0 .. Len(t) /\ es[i] \in es[j] .. Len(t)
      <4>1. /\ es[j] \in Nat /\ p <= es[j] /\ es[j] <= Len(t)
            /\ es[i] \in Nat /\ es[i] <= Len(t)
        BY <1>1, <2>1, <3>3
      <4>. QED
        BY <1>0, <3>3, <4>1
    <3>5. ls[i] = Between(t, es[j], es[i])
      BY <1>3, <3>2 DEF Between
    <3>6. ls[i] \in Seq(Char)
      BY <3>4, <3>5, BetweenIs
    <3>. QED
      BY <2>1, <3>2, <3>3, <3>4, <3>5, <3>6
  <2>. QED
    BY <2>2, <2>3
<1>5. ls \in Seq(Seq(Char)) /\ Len(ls) = n /\ DOMAIN ls = 1 .. n
  <2>1. ls \in [1 .. n -> Seq(Char)]
    BY <1>3, <1>4
  <2>2. \A A : [1 .. n -> A] \subseteq Seq(A)
    BY <1>2
  <2>3. ls \in Seq(Seq(Char)) /\ DOMAIN ls = 1 .. n
    BY <2>1, <2>2
  <2>. QED
    BY <1>2, <2>3, LenProperties
<1>. QED
  BY <1>2, <1>4, <1>5 DEF es, ls, n

(* Joined, they are all there is up to the last end.                        *)
LEMMA GivenIs ==
  ASSUME NEW t \in Seq(Char), NEW p \in 0 .. Len(t), NEW ends \in SUBSET (p .. Len(t))
  PROVE  LET es == Ascending(ends)
             ls == LinesOf(t, p, ends)
             q  == Max(ends \union {p})
         IN  /\ q \in p .. Len(t) /\ \A x \in ends : x <= q
             /\ q \in ends \/ (q = p /\ ends = {})
             /\ \A i \in 1 .. Len(ls) : Flat(ls, i - 1) = Between(t, p, StartOf(es, p, i))
             /\ FlattenSeq(ls) = Between(t, p, q)
<1>. DEFINE es == Ascending(ends)
            ls == LinesOf(t, p, ends)
            q  == Max(ends \union {p})
            n  == Cardinality(ends)
<1>0. p \in Nat /\ Len(t) \in Nat /\ p <= Len(t) /\ p \in p .. Len(t)
  BY LenProperties
<1>1. /\ n \in Nat /\ ls \in Seq(Seq(Char)) /\ Len(ls) = n
      /\ \A i \in 1 .. n :
           /\ es[i] \in ends /\ es[i] \in p .. Len(t)
           /\ StartOf(es, p, i) \in p .. es[i]
           /\ ls[i] = Between(t, StartOf(es, p, i), es[i])
      /\ \A i, j \in 1 .. n : i < j => es[i] < es[j]
      /\ \A x \in ends : \E i \in 1 .. n : es[i] = x
  BY ZenonT(40), LinesAre
<1>. HIDE DEF es, ls, n
<1>2. Between(t, p, p) = << >>
  BY <1>0, SubSeqEmpty DEF Between
<1>. DEFINE S == {i \in Nat : i + 1 \in 1 .. n => Flat(ls, i) = Between(t, p, StartOf(es, p, i + 1))
                             /\ Flat(ls, i + 1) = Between(t, p, es[i + 1])}
<1>3. ASSUME NEW i \in 1 .. n, Flat(ls, i - 1) = Between(t, p, StartOf(es, p, i))
      PROVE  Flat(ls, i) = Between(t, p, es[i])
  <2>. DEFINE s == StartOf(es, p, i)
  <2>1. Flat(ls, i) = Flat(ls, i - 1) \o ls[i]
    BY <1>1, FlatNext
  <2>2. s \in p .. es[i] /\ es[i] \in p .. Len(t) /\ ls[i] = Between(t, s, es[i])
    BY <1>1
  <2>. HIDE DEF s
  <2>3. s \in p .. Len(t) /\ es[i] \in s .. Len(t)
    BY <1>0, <2>2
  <2>4. Between(t, p, s) \o Between(t, s, es[i]) = Between(t, p, es[i])
    BY <2>3, BetweenJoin
  <2>. QED
    BY <1>3, <2>1, <2>2, <2>4 DEF s
<1>4. 0 \in S
  <2>. SUFFICES ASSUME 1 \in 1 .. n
                PROVE  /\ Flat(ls, 0) = Between(t, p, StartOf(es, p, 1))
                       /\ Flat(ls, 1) = Between(t, p, es[1])
    OBVIOUS
  <2>1. Flat(ls, 0) = Between(t, p, StartOf(es, p, 1))
    BY <1>2, FlatNone DEF StartOf
  <2>2. 1 - 1 = 0
    OBVIOUS
  <2>3. Flat(ls, 1) = Between(t, p, es[1])
    BY <1>3, <2>1, <2>2
  <2>. QED
    BY <2>1, <2>3
<1>5. ASSUME NEW i \in Nat, i \in S PROVE i + 1 \in S
  <2>. DEFINE k == i + 1
              j == k + 1
  <2>0. k \in Nat /\ j - 1 = k /\ j # 1
    OBVIOUS
  <2>. HIDE DEF j
  <2>. SUFFICES ASSUME j \in 1 .. n
                PROVE  /\ Flat(ls, k) = Between(t, p, StartOf(es, p, j))
                       /\ Flat(ls, j) = Between(t, p, es[j])
    BY DEF j
  <2>1. k \in 1 .. n
    BY <1>1, <2>0
  <2>2. Flat(ls, k) = Between(t, p, es[k])
    BY <1>5, <2>1
  <2>. HIDE DEF S, k
  <2>3. StartOf(es, p, j) = es[k]
    BY <2>0 DEF StartOf
  <2>4. Flat(ls, j - 1) = Between(t, p, StartOf(es, p, j))
    BY <2>0, <2>2, <2>3
  <2>5. Flat(ls, j) = Between(t, p, es[j])
    BY <1>3, <2>4
  <2>. QED
    BY <2>0, <2>4, <2>5
<1>6. Nat \subseteq S
  <2>. HIDE DEF S
  <2>. QED
    BY <1>4, <1>5, Induct
<1>7. ASSUME NEW i \in 1 .. n
      PROVE  /\ Flat(ls, i - 1) = Between(t, p, StartOf(es, p, i))
             /\ Flat(ls, i) = Between(t, p, es[i])
  <2>. DEFINE k == i - 1
  <2>1. k \in Nat /\ k + 1 = i
    BY <1>1
  <2>. HIDE DEF k
  <2>2. k \in S
    BY <1>6, <2>1
  <2>. QED
    BY <2>1, <2>2 DEF k
<1>. HIDE DEF S
<1>8. /\ q \in ends \union {p} /\ \A x \in ends \union {p} : x <= q
  <2>. DEFINE U == ends \union {p}
              l == Len(t)
  <2>1. l \in Nat /\ U \in SUBSET (0 .. l) /\ U # {}
    BY <1>0
  <2>. HIDE DEF U, l
  <2>. QED
    BY <2>1, MaxIsIn DEF U
<1>. HIDE DEF q
<1>9. q \in p .. Len(t) /\ (\A x \in ends : x <= q)
      /\ (q \in ends \/ (q = p /\ ends = {}))
  <2>1. q \in Nat /\ \A x \in ends : x \in Nat /\ p <= x
    BY <1>0, <1>8
  <2>2. q \in p .. Len(t) /\ \A x \in ends : x <= q
    BY <1>0, <1>8, <2>1
  <2>3. ASSUME q \notin ends PROVE q = p /\ ends = {}
    <3>1. q = p
      BY <1>8, <2>3
    <3>2. \A x \in ends : x <= p /\ p <= x /\ x # p
      BY <2>1, <2>2, <2>3, <3>1
    <3>3. ends = {}
      BY <1>0, <2>1, <3>2
    <3>. QED
      BY <3>1, <3>3
  <2>. QED
    BY <2>2, <2>3
<1>10. FlattenSeq(ls) = Between(t, p, q)
  <2>1. FlattenSeq(ls) = Flat(ls, n)
    BY <1>1, FlattenAll
  <2>2. CASE n = 0
    <3>1. ends = {}
      BY <1>1, <2>2
    <3>2. q = p
      BY <1>8, <3>1
    <3>. QED
      BY <1>2, <2>1, <2>2, <3>2, FlatNone
  <2>3. CASE n # 0
    <3>1. n \in 1 .. n
      BY <1>1, <2>3
    <3>2. es[n] \in ends /\ es[n] \in Nat
      BY <1>0, <1>1, <3>1
    <3>3. \A x \in ends : x <= es[n]
      <4>. TAKE x \in ends
      <4>1. PICK i \in 1 .. n : es[i] = x
        BY <1>1
      <4>2. i = n \/ i < n
        BY <1>1
      <4>3. es[i] \in Nat /\ (i < n => es[i] < es[n])
        BY <1>0, <1>1, <3>1
      <4>. QED
        BY <3>2, <4>1, <4>2, <4>3
    <3>4. q \in Nat /\ q \in ends
      <4>1. q \in Nat /\ (q \in ends \/ ends = {})
        BY <1>0, <1>9
      <4>. QED
        BY <3>2, <4>1
    <3>5. q = es[n]
      BY <1>9, <3>2, <3>3, <3>4
    <3>. QED
      BY <1>7, <2>1, <3>1, <3>5
  <2>. QED
    BY <2>2, <2>3
<1>. QED
  BY <1>1, <1>7, <1>9, <1>10 DEF es, ls, q

(* A text up to a line's end is a line of what is left of it.               *)
LEMMA LineFits ==
  ASSUME NEW t \in Seq(Char), NEW p \in 0 .. Len(t), NEW e \in p .. Len(t),
         \A q \in p + 1 .. e - 1 : t[q] # Newline
  PROVE  LET b == Between(t, p, e)
             r == Between(t, p, Len(t))
         IN  /\ IsPrefix(b, r)
             /\ \A i \in 1 .. Len(b) - 1 : b[i] # Newline
             /\ e = Len(t) \/ (e > p /\ t[e] = Newline) => LineOrRest(b, r)
<1>. DEFINE b == Between(t, p, e)
            r == Between(t, p, Len(t))
<1>0. /\ p \in Nat /\ e \in Nat /\ Len(t) \in Nat /\ p <= e
      /\ Len(t) \in p .. Len(t) /\ e \in p .. Len(t)
  BY LenProperties
<1>1. b \in Seq(Char) /\ Len(b) = e - p /\ \A i \in 1 .. e - p : b[i] = t[p + i]
  BY BetweenIs
<1>2. IsPrefix(b, r)
  BY <1>0, BetweenStart
<1>. HIDE DEF b
<1>3. ASSUME NEW i \in 1 .. Len(b) - 1 PROVE b[i] # Newline
  <2>1. i \in 1 .. e - p /\ p + i \in p + 1 .. e - 1
    BY <1>0, <1>1
  <2>. QED
    BY <1>1, <2>1
<1>4. e = Len(t) => b = r
  BY DEF b
<1>5. ASSUME e > p, t[e] = Newline PROVE b # << >> /\ b[Len(b)] = Newline
  <2>1. e - p \in 1 .. e - p /\ p + (e - p) = e /\ e - p # 0
    BY <1>0, <1>5
  <2>2. b[e - p] = t[p + (e - p)]
    BY <1>1, <2>1
  <2>3. b[Len(b)] = Newline
    BY <1>1, <1>5, <2>1, <2>2
  <2>. QED
    BY <1>1, <2>1, <2>3
<1>6. e = Len(t) \/ (e > p /\ t[e] = Newline) => LineOrRest(b, r)
  BY <1>2, <1>3, <1>4, <1>5 DEF LineOrRest
<1>. QED
  BY <1>2, <1>3, <1>6 DEF b

(* One end gives one piece.                                                 *)
LEMMA OneGiven ==
  ASSUME NEW t \in Seq(Char), NEW p \in 0 .. Len(t), NEW e \in p .. Len(t)
  PROVE  /\ LinesOf(t, p, {e}) = <<Between(t, p, e)>>
         /\ FlattenSeq(LinesOf(t, p, {e})) = Between(t, p, e)
         /\ Between(t, p, e) \in Seq(Char)
<1>. DEFINE b == Between(t, p, e)
            ls == LinesOf(t, p, {e})
<1>1. b \in Seq(Char)
  BY BetweenIs
<1>2. ls = <<b>>
  <2>1. e \in Nat
    BY LenProperties
  <2>2. Ascending({e}) = <<e>>
    BY <2>1, AscendingOne
  <2>. DEFINE es == <<e>>
  <2>3. DOMAIN es = 1 .. 1 /\ es[1] = e
    OBVIOUS
  <2>4. ls = [i \in DOMAIN es |-> SubSeq(t, StartOf(es, p, i) + 1, es[i])]
    BY <2>2 DEF LinesOf
  <2>. HIDE DEF es
  <2>5. ls = [i \in 1 .. 1 |-> b]
    <3>1. \A i \in 1 .. 1 : SubSeq(t, StartOf(es, p, i) + 1, es[i]) = b
      BY <2>3 DEF StartOf, Between
    <3>. HIDE DEF b, ls
    <3>. QED
      BY <2>3, <2>4, <3>1
  <2>. HIDE DEF b, ls
  <2>6. [i \in 1 .. 1 |-> b] = <<b>>
    OBVIOUS
  <2>. QED
    BY <2>5, <2>6
<1>. HIDE DEF b, ls
<1>3. FlattenSeq(ls) = b
  BY <1>1, <1>2, FlattenOne
<1>. QED
  BY <1>1, <1>2, <1>3 DEF b, ls

(* read                                                                     *)
LEMMA ReadAnswers ==
  ASSUME NEW t \in Seq(Char), NEW p \in 0 .. Len(t), NEW n \in Int, NEW a,
         a.call = "read", a.arg = n,
         a.lines = LinesOf(t, p, {p + (IF n < 0 \/ n > Len(t) - p THEN Len(t) - p ELSE n)})
  PROVE  FileAnswer(a, Between(t, p, Len(t)))
<1>. DEFINE l == Len(t)
            r == Between(t, p, l)
            k == IF n < 0 \/ n > l - p THEN l - p ELSE n
            e == p + k
<1>0. p \in Nat /\ l \in Nat /\ p <= l /\ l \in p .. l /\ e \in p .. l /\ e - p = k
  BY LenProperties
<1>1. Len(r) = l - p
  BY <1>0, BetweenIs
<1>2. a.lines = LinesOf(t, p, {e})
  OBVIOUS
<1>. HIDE DEF e
<1>3. FlattenSeq(a.lines) = Between(t, p, e)
  BY <1>0, <1>2, OneGiven
<1>4. Between(t, p, e) = SubSeq(r, 1, k)
  BY <1>0, BetweenStart
<1>5. k = l - p => e = l
  BY <1>0 DEF e
<1>. HIDE DEF r
<1>6. CASE n < 0 \/ n > Len(r)
  <2>1. FlattenSeq(a.lines) = r
    BY <1>1, <1>3, <1>5, <1>6 DEF r
  <2>2. FileAnswer(a, r)
    BY <1>6, <2>1 DEF FileAnswer
  <2>. QED
    BY <2>2 DEF r
<1>7. CASE ~(n < 0 \/ n > Len(r))
  <2>1. k = n
    BY <1>1, <1>7
  <2>2. FlattenSeq(a.lines) = SubSeq(r, 1, n)
    BY <1>3, <1>4, <2>1
  <2>3. FileAnswer(a, r)
    BY <1>7, <2>2 DEF FileAnswer
  <2>. QED
    BY <2>3 DEF r
<1>. QED
  BY <1>6, <1>7

(* readline                                                                 *)
LEMMA ReadlineAnswers ==
  ASSUME NEW t \in Seq(Char), NEW p \in 0 .. Len(t), NEW n \in Int, NEW a, NEW e,
         e = IF n >= 0 /\ n < inner_readline(t, p) - p THEN p + n ELSE inner_readline(t, p),
         a.call = "readline", a.arg = n, a.lines = LinesOf(t, p, {e})
  PROVE  e \in p .. Len(t) /\ FileAnswer(a, Between(t, p, Len(t)))
<1>. DEFINE l == Len(t)
            r == Between(t, p, l)
            end == inner_readline(t, p)
            g == FlattenSeq(a.lines)
<1>0. p \in Nat /\ l \in Nat /\ p <= l
  BY LenProperties
<1>1. /\ end \in p .. l /\ end \in Nat /\ p <= end
      /\ \A q \in p + 1 .. end - 1 : t[q] # Newline
      /\ end = l \/ (end > p /\ t[end] = Newline)
  BY <1>0, LineIs
<1>. HIDE DEF end
<1>2. e = IF n >= 0 /\ n < end - p THEN p + n ELSE end
  BY DEF end
<1>3. e \in p .. l /\ e \in Nat /\ e <= end
  BY <1>0, <1>1, <1>2
<1>4. \A q \in p + 1 .. e - 1 : t[q] # Newline
  <2>1. \A q \in p + 1 .. e - 1 : q \in p + 1 .. end - 1
    BY <1>0, <1>1, <1>3
  <2>. QED
    BY <1>1, <2>1
<1>5. g = Between(t, p, e) /\ Len(g) = e - p
  BY ZenonT(40), <1>3, OneGiven, BetweenIs
<1>6. /\ IsPrefix(g, r)
      /\ \A i \in 1 .. Len(g) - 1 : g[i] # Newline
      /\ e = l \/ (e > p /\ t[e] = Newline) => LineOrRest(g, r)
  <2>. HIDE DEF g, r
  <2>. QED
    BY <1>3, <1>4, <1>5, LineFits DEF r
<1>7. n >= 0 /\ Len(g) # n => e = end /\ Len(g) < n
  BY <1>0, <1>1, <1>2, <1>3, <1>5
<1>8. n < 0 => e = end
  BY <1>2
<1>9. ~(n >= 0 /\ Len(g) = n) => LineOrRest(g, r)
  BY <1>1, <1>6, <1>7, <1>8
<1>. HIDE DEF r
<1>10. FileAnswer(a, r)
  BY <1>6, <1>7, <1>9 DEF FileAnswer
<1>. QED
  BY <1>3, <1>10 DEF r

(* and iteration answer as a file does.                                     *)
LEMMA NextAnswers ==
  ASSUME NEW t \in Seq(Char), NEW p \in 0 .. Len(t), NEW a,
         a.call = "next", a.lines = LinesOf(t, p, {inner_readline(t, p)} \ {p})
  PROVE  FileAnswer(a, Between(t, p, Len(t)))
<1>. DEFINE l == Len(t)
            r == Between(t, p, l)
            e == inner_readline(t, p)
            g == FlattenSeq(a.lines)
<1>0. p \in Nat /\ l \in Nat /\ p <= l /\ l \in p .. l
  BY LenProperties
<1>1. /\ e \in p .. l /\ e \in Nat /\ p <= e
      /\ \A q \in p + 1 .. e - 1 : t[q] # Newline
      /\ e = l \/ (e > p /\ t[e] = Newline)
      /\ p < l => e > p
  BY <1>0, LineIs
<1>2. r \in Seq(Char) /\ Len(r) = l - p
  BY <1>0, BetweenIs
<1>. HIDE DEF e
<1>3. CASE p = l
  <2>1. e = p
    BY <1>0, <1>1, <1>3
  <2>2. a.lines = LinesOf(t, p, {})
    BY <2>1 DEF e
  <2>3. LinesOf(t, p, {}) = << >>
    <3>1. DOMAIN << >> = {}
      OBVIOUS
    <3>2. LinesOf(t, p, {}) = [i \in DOMAIN << >> |-> SubSeq(t, StartOf(<< >>, p, i) + 1, << >>[i])]
      BY AscendingNone, Zenon DEF LinesOf
    <3>. QED
      BY <3>1, <3>2
  <2>4. r = << >>
    BY <1>0, <1>2, <1>3, EmptySeq
  <2>. HIDE DEF r
  <2>5. FileAnswer(a, r)
    BY <2>2, <2>3, <2>4 DEF FileAnswer
  <2>. QED
    BY <2>5 DEF r
<1>4. CASE p # l
  <2>1. e > p /\ {e} \ {p} = {e}
    BY <1>0, <1>1, <1>4
  <2>2. a.lines = <<Between(t, p, e)>> /\ g = Between(t, p, e) /\ Len(g) = e - p
    <3>1. a.lines = LinesOf(t, p, {e})
      BY <2>1 DEF e
    <3>2. /\ LinesOf(t, p, {e}) = <<Between(t, p, e)>>
          /\ FlattenSeq(LinesOf(t, p, {e})) = Between(t, p, e)
      BY <1>1, OneGiven
    <3>3. Len(Between(t, p, e)) = e - p
      BY <1>1, BetweenIs
    <3>. QED
      BY <3>1, <3>2, <3>3
  <2>3. LineOrRest(g, r)
    <3>. HIDE DEF g, r
    <3>. QED
      BY <1>1, <2>2, LineFits DEF r
  <2>4. r # << >> /\ g # << >> /\ Len(a.lines) = 1
    <3>1. Len(r) # 0 /\ Len(g) # 0
      BY <1>0, <1>1, <1>2, <1>4, <2>1, <2>2
    <3>2. Len(a.lines) = 1
      <4>1. \A x : Len(<<x>>) = 1
        OBVIOUS
      <4>. QED
        BY <2>2, <4>1
    <3>3. Len(<< >>) = 0
      OBVIOUS
    <3>. HIDE DEF r, g
    <3>. QED
      BY <3>1, <3>2, <3>3
  <2>. HIDE DEF r
  <2>5. FileAnswer(a, r)
    BY <2>3, <2>4 DEF FileAnswer
  <2>. QED
    BY <2>5 DEF r
<1>. QED
  BY <1>3, <1>4

(* The ends of the lines behind p, and those that readlines reads.          *)
LineEnds(t, p) == {inner_readline(t, q) : q \in p .. Len(t) - 1}
EndsRead(t, p, hint) ==
  {e \in LineEnds(t, p) : hint > 0 => \A f \in {g \in LineEnds(t, p) : g < e} : f - p < hint}

(* Lines end behind newlines and at the end of the text.                    *)
LEMMA LineEndsAre ==
  ASSUME NEW t \in Seq(Char), NEW p \in 0 .. Len(t)
  PROVE  /\ \A e \in LineEnds(t, p) :
              e \in p + 1 .. Len(t) /\ (e = Len(t) \/ t[e] = Newline)
         /\ \A q \in p + 1 .. Len(t) : t[q] = Newline => q \in LineEnds(t, p)
<1>0. p \in Nat /\ Len(t) \in Nat
  BY LenProperties
<1>1. ASSUME NEW e \in LineEnds(t, p)
      PROVE  e \in p + 1 .. Len(t) /\ (e = Len(t) \/ t[e] = Newline)
  <2>1. PICK q \in p .. Len(t) - 1 : e = inner_readline(t, q)
    BY DEF LineEnds
  <2>2. q \in 0 .. Len(t) /\ q < Len(t)
    BY <1>0
  <2>3. e \in q .. Len(t) /\ (e = Len(t) \/ t[e] = Newline) /\ e > q
    BY <2>1, <2>2, LineIs
  <2>. QED
    BY <1>0, <2>3
<1>2. ASSUME NEW q \in p + 1 .. Len(t), t[q] = Newline PROVE q \in LineEnds(t, p)
  <2>. DEFINE k == q - 1
              e == inner_readline(t, k)
  <2>1. k \in 0 .. Len(t) /\ k \in p .. Len(t) - 1 /\ k < Len(t) /\ k + 1 = q
    BY <1>0
  <2>. HIDE DEF k
  <2>2. e \in k .. Len(t) /\ (\A i \in k + 1 .. e - 1 : t[i] # Newline) /\ e > k
    BY <2>1, LineIs
  <2>. HIDE DEF e
  <2>3. ~ (q \in k + 1 .. e - 1)
    BY <1>2, <2>2
  <2>4. e = q
    BY <1>0, <2>1, <2>2, <2>3
  <2>. QED
    BY <2>1, <2>4 DEF LineEnds, e
<1>. QED
  BY <1>1, <1>2

(* Every line that is read is one: nothing ends between its start and it.   *)
LEMMA ReadlinesLines ==
  ASSUME NEW t \in Seq(Char), NEW p \in 0 .. Len(t), NEW n \in Int
  PROVE  LET ends == EndsRead(t, p, n)
             es == Ascending(ends)
             s(i) == StartOf(es, p, i)
         IN  /\ ends \in SUBSET (p .. Len(t))
             /\ \A i \in 1 .. Cardinality(ends) :
                  /\ s(i) \in p .. Len(t) /\ s(i) < es[i] /\ es[i] \in p .. Len(t)
                  /\ \A q \in s(i) + 1 .. es[i] - 1 : t[q] # Newline
                  /\ es[i] = Len(t) \/ t[es[i]] = Newline
                  /\ n > 0 => s(i) - p < n
<1>. DEFINE ends == EndsRead(t, p, n)
            es == Ascending(ends)
            c  == Cardinality(ends)
            s(i) == StartOf(es, p, i)
<1>0. p \in Nat /\ Len(t) \in Nat
  BY LenProperties
<1>1. /\ \A e \in ends : e \in p + 1 .. Len(t) /\ (e = Len(t) \/ t[e] = Newline)
         /\ e \in LineEnds(t, p)
      /\ \A e \in ends : n > 0 => \A f \in LineEnds(t, p) : f < e => f - p < n
      /\ \A e \in LineEnds(t, p) : (n > 0 => \A f \in LineEnds(t, p) : f < e => f - p < n)
           => e \in ends
      /\ \A q \in p + 1 .. Len(t) : t[q] = Newline => q \in LineEnds(t, p)
  BY LineEndsAre DEF EndsRead
<1>. HIDE DEF ends
<1>2. ends \in SUBSET (p .. Len(t))
  BY <1>0, <1>1
<1>3. /\ c \in Nat
      /\ \A i \in 1 .. c :
           /\ es[i] \in ends /\ es[i] \in p .. Len(t)
           /\ s(i) \in p .. es[i]
           /\ i # 1 => s(i) \in ends /\ s(i) < es[i]
      /\ \A i, j \in 1 .. c : i < j => es[i] < es[j]
      /\ \A x \in ends : \E i \in 1 .. c : es[i] = x
  BY <1>2, LinesAre
<1>4. \A i \in 1 .. c : i # 1 => s(i) = es[i - 1]
  BY DEF StartOf
<1>5. s(1) = p
  BY DEF StartOf
<1>. HIDE DEF s, es, c
<1>6. ASSUME NEW i \in 1 .. c
      PROVE  /\ s(i) \in p .. Len(t) /\ s(i) < es[i] /\ es[i] \in p .. Len(t)
             /\ es[i] = Len(t) \/ t[es[i]] = Newline
             /\ n > 0 => s(i) - p < n
  <2>1. es[i] \in ends /\ es[i] \in p + 1 .. Len(t) /\ s(i) \in p .. es[i]
    BY <1>1, <1>3
  <2>2. s(i) < es[i]
    BY <1>0, <1>3, <1>5, <2>1
  <2>3. n > 0 => s(i) - p < n
    <3>1. CASE i = 1
      BY <1>0, <1>5, <3>1
    <3>2. CASE i # 1
      <4>1. s(i) \in LineEnds(t, p)
        BY <1>1, <1>3, <3>2
      <4>. QED
        BY <1>1, <2>1, <2>2, <4>1
    <3>. QED
      BY <3>1, <3>2
  <2>. QED
    BY <1>0, <1>1, <2>1, <2>2, <2>3
<1>7. ASSUME NEW i \in 1 .. c, NEW q \in s(i) + 1 .. es[i] - 1, t[q] = Newline PROVE FALSE
  <2>1. /\ es[i] \in ends /\ es[i] \in Nat /\ es[i] <= Len(t) /\ s(i) \in Nat /\ p <= s(i)
    BY <1>0, <1>3, <1>6
  <2>2. q \in p + 1 .. Len(t) /\ q < es[i] /\ s(i) < q /\ q \in Nat
    BY <1>0, <2>1
  <2>3. q \in LineEnds(t, p)
    BY <1>1, <1>7, <2>2
  <2>4. q \in ends
    <3>1. \A f \in LineEnds(t, p) : f < q => f < es[i]
      <4>. TAKE f \in LineEnds(t, p)
      <4>1. f \in Nat
        BY <1>0, LineEndsAre
      <4>. QED
        BY <2>1, <2>2, <4>1
    <3>. QED
      BY <1>1, <2>1, <2>3, <3>1
  <2>5. PICK j \in 1 .. c : es[j] = q
    BY <1>3, <2>4
  <2>6. j < i
    <3>1. ASSUME i <= j PROVE FALSE
      <4>1. i = j \/ i < j
        BY <1>3, <3>1
      <4>2. es[i] <= es[j]
        BY <1>3, <2>1, <4>1
      <4>. QED
        BY <2>1, <2>2, <2>5, <4>2
    <3>. QED
      BY <1>3, <3>1
  <2>. DEFINE k == i - 1
  <2>7. k \in 1 .. c /\ i # 1 /\ (j = k \/ j < k)
    BY <1>3, <2>6
  <2>8. s(i) = es[k]
    BY <1>4, <2>7
  <2>. HIDE DEF k
  <2>9. es[j] <= es[k]
    BY SMTT(30), <1>3, <2>1, <2>7, <2>8
  <2>. QED
    BY <2>1, <2>2, <2>5, <2>8, <2>9
<1>8. \A i \in 1 .. c : \A q \in s(i) + 1 .. es[i] - 1 : t[q] # Newline
  BY <1>7
<1>. QED
  BY <1>2, <1>6, <1>8 DEF s, es, c, ends

(* Reading stops with the text, or when the hint is reached.                *)
LEMMA ReadlinesStops ==
  ASSUME NEW t \in Seq(Char), NEW p \in 0 .. Len(t), NEW n \in Int, NEW q \in p .. Len(t),
         \A x \in EndsRead(t, p, n) : x <= q
  PROVE  q = Len(t) \/ (n > 0 /\ q - p >= n)
<1>. DEFINE e == inner_readline(t, q)
            l == Len(t)
<1>0. p \in Nat /\ l \in Nat /\ q \in Nat /\ p <= q /\ q <= l
  BY LenProperties
<1>1. SUFFICES ASSUME q # l PROVE n > 0 /\ q - p >= n
  OBVIOUS
<1>2. /\ e \in q .. l /\ (\A i \in q + 1 .. e - 1 : t[i] # Newline) /\ e > q
  BY <1>0, <1>1, LineIs
<1>3. e \in LineEnds(t, p)
  BY <1>0, <1>1 DEF LineEnds
<1>. HIDE DEF e
<1>4. e \notin EndsRead(t, p, n)
  <2>1. ~ e <= q
    BY <1>0, <1>2
  <2>. QED
    BY <2>1
<1>5. n > 0 /\ \E f \in LineEnds(t, p) : f < e /\ ~ f - p < n
  BY <1>3, <1>4 DEF EndsRead
<1>6. PICK f \in LineEnds(t, p) : f < e /\ ~ f - p < n
  BY <1>5
<1>7. f \in p + 1 .. l /\ (f = l \/ t[f] = Newline)
  BY LineEndsAre
<1>8. f <= q
  <2>1. ~ f \in q + 1 .. e - 1
    BY <1>0, <1>2, <1>6, <1>7
  <2>. QED
    BY <1>0, <1>2, <1>6, <1>7, <2>1
<1>. QED
  BY <1>0, <1>5, <1>6, <1>7, <1>8

(* What readlines() gives is all lines up to the hint, as of a file.        *)
LEMMA ReadlinesAnswers ==
  ASSUME NEW t \in Seq(Char), NEW p \in 0 .. Len(t), NEW n \in Int, NEW a,
         a.call = "readlines", a.arg = n, a.lines = LinesOf(t, p, EndsRead(t, p, n))
  PROVE  FileAnswer(a, Between(t, p, Len(t)))
<1>. DEFINE l == Len(t)
            r == Between(t, p, l)
            ends == EndsRead(t, p, n)
            es == Ascending(ends)
            ls == LinesOf(t, p, ends)
            s(i) == StartOf(es, p, i)
            c == Cardinality(ends)
            q == Max(ends \union {p})
            B(i) == Len(FlattenSeq(SubSeq(ls, 1, i - 1)))
<1>0. p \in Nat /\ l \in Nat /\ p <= l /\ l \in p .. l
  BY LenProperties
<1>1. /\ ends \in SUBSET (p .. l)
      /\ \A i \in 1 .. c :
           /\ s(i) \in p .. l /\ s(i) < es[i] /\ es[i] \in p .. l
           /\ \A k \in s(i) + 1 .. es[i] - 1 : t[k] # Newline
           /\ es[i] = l \/ t[es[i]] = Newline
           /\ n > 0 => s(i) - p < n
  BY ReadlinesLines
<1>. HIDE DEF ends
<1>2. /\ c \in Nat /\ ls \in Seq(Seq(Char)) /\ Len(ls) = c /\ DOMAIN ls = 1 .. c
      /\ \A i \in 1 .. c : ls[i] = Between(t, s(i), es[i])
  BY <1>1, LinesAre
<1>3. /\ q \in p .. l /\ \A x \in ends : x <= q
      /\ \A i \in 1 .. Len(ls) : Flat(ls, i - 1) = Between(t, p, s(i))
      /\ FlattenSeq(ls) = Between(t, p, q)
  BY <1>1, GivenIs
<1>4. q = l \/ (n > 0 /\ q - p >= n)
  BY <1>3, ReadlinesStops DEF ends
<1>. HIDE DEF q, es, s, c, ls
<1>5. FlattenSeq(ls) = Between(t, p, q) /\ Len(FlattenSeq(ls)) = q - p
  BY <1>3, BetweenIs
<1>6. IsPrefix(FlattenSeq(ls), r)
  BY <1>0, <1>3, <1>5, BetweenStart
<1>7. ASSUME NEW i \in 1 .. c
      PROVE  /\ ls[i] # << >>
             /\ LineOrRest(ls[i], SubSeq(r, B(i) + 1, Len(r)))
             /\ n > 0 => B(i) < n
  <2>. DEFINE u == s(i)
              e == es[i]
  <2>1. /\ u \in p .. l /\ u < e /\ e \in p .. l /\ u \in Nat /\ e \in Nat
        /\ \A k \in u + 1 .. e - 1 : t[k] # Newline
        /\ e = l \/ t[e] = Newline
        /\ n > 0 => u - p < n
        /\ ls[i] = Between(t, u, e)
    BY <1>0, <1>1, <1>2
  <2>2. Flat(ls, i - 1) = Between(t, p, u)
    BY <1>2, <1>3
  <2>. HIDE DEF u, e
  <2>3. B(i) = u - p
    <3>1. Len(Between(t, p, u)) = u - p
      BY <2>1, BetweenIs
    <3>. QED
      BY <2>2, <3>1 DEF Flat, First
  <2>. HIDE DEF B
  <2>4. u \in 0 .. l /\ e \in u .. l
    BY <1>0, <2>1
  <2>5. LineOrRest(Between(t, u, e), Between(t, u, l))
    BY <2>1, <2>4, LineFits
  <2>6. SubSeq(r, u - p + 1, Len(r)) = Between(t, u, l)
    BY <2>1, BetweenEnd
  <2>7. Between(t, u, e) # << >>
    <3>1. Len(Between(t, u, e)) = e - u /\ Len(<< >>) = 0
      BY <2>4, BetweenIs
    <3>. QED
      BY <2>1, <3>1
  <2>. HIDE DEF r
  <2>. QED
    BY <2>1, <2>3, <2>5, <2>6, <2>7
<1>8. FlattenSeq(ls) = r \/ (n > 0 /\ Len(FlattenSeq(ls)) >= n)
  BY <1>3, <1>4, <1>5
<1>9. a.lines = ls
  BY DEF ls, ends
<1>. HIDE DEF r
<1>10. FileAnswer(a, r)
  BY <1>2, <1>6, <1>7, <1>8, <1>9 DEF FileAnswer
<1>. QED
  BY <1>10 DEF r

(* What a call leaves in answer and input.                                  *)
LEMMA GiveIs ==
  ASSUME DataInv, Reading, NEW c, NEW a,
         NEW ends \in SUBSET (input.pos .. Len(input.text)), Give(c, a, ends)
  PROVE  /\ answer'.call = c /\ answer'.arg = a
         /\ answer'.lines = LinesOf(input.text, input.pos, ends)
         /\ input'.pos = input.pos + Len(FlattenSeq(answer'.lines))
<1>. DEFINE t == input.text
            p == input.pos
            q == Max(ends \union {p})
            ls == LinesOf(t, p, ends)
<1>1. /\ input \in Input /\ t \in Seq(Char) /\ p \in 0 .. Len(t)
      /\ p \in Nat /\ Len(t) \in Nat /\ p \in p .. Len(t)
  BY InsideBody, TextIs
<1>2. /\ answer'.call = c /\ answer'.arg = a /\ answer'.lines = ls
      /\ input' = [input EXCEPT !.pos = q]
  BY DEF Give, LinesOf, StartOf
<1>. HIDE DEF t, p
<1>3. q \in p .. Len(t) /\ FlattenSeq(ls) = Between(t, p, q)
  BY <1>1, GivenIs DEF t, p
<1>. HIDE DEF q, ls
<1>4. Len(FlattenSeq(ls)) = q - p
  BY <1>1, <1>3, BetweenIs
<1>5. input'.pos = q
  BY <1>1, <1>2 DEF Input
<1>6. q = p + (q - p)
  BY <1>1, <1>3
<1>. QED
  BY <1>2, <1>4, <1>5, <1>6 DEF ls, t, p

(* Each of the four calls of the input answers as a file does, and moves    *)
(* the position by what it gave.                                            *)
LEMMA CallAnswers ==
  ASSUME DataInv,
         \/ \E n \in Sizes :
               InputObject_read(n) \/ InputObject_readline(n) \/ InputObject_readlines(n)
         \/ InputObject_iternext
  PROVE  /\ FileAnswer(answer', SubSeq(input.text, input.pos + 1, Len(input.text)))
         /\ input'.pos = input.pos + Len(FlattenSeq(answer'.lines))
<1>. DEFINE t == input.text
            p == input.pos
            l == Len(t)
            A == FileAnswer(answer', Between(t, p, l))
            M == input'.pos = p + Len(FlattenSeq(answer'.lines))
<1>1. Reading
  BY DEF InputObject_read, InputObject_readline, InputObject_readlines, InputObject_iternext
<1>2. t \in Seq(Char) /\ p \in 0 .. l /\ p \in Nat /\ l \in Nat /\ p <= l
  BY <1>1, InsideBody, TextIs
<1>3. \A n \in Sizes : n \in Int
  BY RequestAssumption
<1>. SUFFICES A /\ M
  BY DEF Between
<1>4. ASSUME NEW c, NEW a, NEW ends \in SUBSET (p .. l), Give(c, a, ends)
      PROVE  answer'.call = c /\ answer'.arg = a /\ answer'.lines = LinesOf(t, p, ends) /\ M
  BY <1>1, <1>4, GiveIs
<1>. HIDE DEF M
<1>5. ASSUME NEW n \in Sizes, InputObject_read(n) PROVE A /\ M
  <2>. DEFINE e == p + (IF n < 0 \/ n > l - p THEN l - p ELSE n)
  <2>1. Give("read", n, {e})
    BY <1>5 DEF InputObject_read
  <2>2. {e} \in SUBSET (p .. l)
    BY <1>2, <1>3
  <2>. HIDE DEF e
  <2>3. answer'.call = "read" /\ answer'.arg = n /\ answer'.lines = LinesOf(t, p, {e}) /\ M
    BY <1>4, <2>1, <2>2
  <2>. HIDE DEF t, p, l
  <2>. QED
    BY <1>2, <1>3, <2>3, ReadAnswers DEF e, l
<1>6. ASSUME NEW n \in Sizes, InputObject_readline(n) PROVE A /\ M
  <2>. DEFINE e == IF n >= 0 /\ n < inner_readline(t, p) - p THEN p + n ELSE inner_readline(t, p)
  <2>1. Give("readline", n, {e})
    BY <1>6 DEF InputObject_readline
  <2>2. {e} \in SUBSET (p .. l)
    <3>1. inner_readline(t, p) \in p .. l
      BY <1>2, LineIs
    <3>. QED
      BY <1>2, <1>3, <3>1
  <2>. HIDE DEF e
  <2>3. answer'.call = "readline" /\ answer'.arg = n /\ answer'.lines = LinesOf(t, p, {e}) /\ M
    BY <1>4, <2>1, <2>2
  <2>. HIDE DEF t, p, l
  <2>. QED
    BY <1>2, <1>3, <2>3, ReadlineAnswers DEF e, l
<1>7. ASSUME NEW n \in Sizes, InputObject_readlines(n) PROVE A /\ M
  <2>. DEFINE ends == EndsRead(t, p, n)
  <2>1. Give("readlines", n, ends)
    BY <1>7 DEF InputObject_readlines, EndsRead, LineEnds
  <2>2. ends \in SUBSET (p .. l)
    BY <1>2, <1>3, ReadlinesLines
  <2>. HIDE DEF ends
  <2>3. answer'.call = "readlines" /\ answer'.arg = n /\ answer'.lines = LinesOf(t, p, ends) /\ M
    BY <1>4, <2>1, <2>2
  <2>. HIDE DEF t, p, l
  <2>. QED
    BY <1>2, <1>3, <2>3, ReadlinesAnswers DEF ends, l
<1>8. ASSUME InputObject_iternext PROVE A /\ M
  <2>. DEFINE ends == {inner_readline(t, p)} \ {p}
  <2>1. Give("next", None, ends)
    BY <1>8 DEF InputObject_iternext
  <2>2. ends \in SUBSET (p .. l)
    BY <1>2, LineIs
  <2>. HIDE DEF ends
  <2>3. answer'.call = "next" /\ answer'.lines = LinesOf(t, p, ends) /\ M
    BY <1>4, <2>1, <2>2
  <2>. HIDE DEF t, p, l
  <2>. QED
    BY <1>2, <2>3, NextAnswers DEF ends, l
<1>. HIDE DEF A
<1>. QED
  BY <1>5, <1>6, <1>7, <1>8

(* No other step touches the input once it is there.                        *)
LEMMA StepAnswers ==
  ASSUME DataInv, [Next]_vars, input # None, answer' # answer \/ input' # input
  PROVE  /\ FileAnswer(answer', SubSeq(input.text, input.pos + 1, Len(input.text)))
         /\ input'.pos = input.pos + Len(FlattenSeq(answer'.lines))
<1>1. phase = "calling"
  BY DEF DataInv, Stored
<1>2. ~ UNCHANGED callVars
  BY DEF callVars
<1>3. CASE UNCHANGED vars
  BY <1>2, <1>3 DEF vars
<1>4. CASE Next
  <2>1. ~ (phase = "head" /\ ~InEnd
           /\ \E ends \in BOOLEAN, n \in 0 .. Left :
                url_cb(n, ends) \/ header_field_cb(n, ends)
                \/ MoreName(n, ends) \/ header_value_cb(n, ends))
    BY <1>1
  <2>2. ~ headers_complete_cb /\ ~ RefuseLength /\ ~ message_complete_cb /\ ~ prepare_call_wsgi
    BY <1>1 DEF headers_complete_cb, RefuseLength, InEnd, message_complete_cb, prepare_call_wsgi
  <2>3. ~ \E n \in 1 .. Len(msg.body) : body_cb(n)
    BY <1>1 DEF body_cb, InBody
  <2>4. \/ \E n \in Sizes :
              InputObject_read(n) \/ InputObject_readline(n) \/ InputObject_readlines(n)
        \/ InputObject_iternext
    BY <1>4, <2>1, <2>2, <2>3 DEF Next
  <2>. QED
    BY <2>4, CallAnswers
<1>. QED
  BY <1>3, <1>4

\* read, readline, readlines and iteration answer as a file at the position
\* the calls before have left, for any body, any argument and in any order.
THEOREM AnswersAsAFile == Spec => ReadsLikeAFile
<1>1. DataInv /\ [Next]_vars =>
        [input # None /\ (answer' # answer \/ input' # input) =>
           /\ FileAnswer(answer', SubSeq(input.text, input.pos + 1, Len(input.text)))
           /\ input'.pos = input.pos + Len(FlattenSeq(answer'.lines))]_vars
  BY StepAnswers
<1>. QED
  BY <1>1, DataInductive, PTL DEF Spec, ReadsLikeAFile

----------------------------------------------------------------------------
(* The headers of a message.                                                *)
(* Line i belongs to the header that starts at line s.                      *)
InGroup(m, s, i) ==
  /\ s \in Starts(m) /\ i \in s .. Len(m.lines)
  /\ \A j \in s .. i - 1 : m.lines[j].values = << >>

(* Names glued from line s to line i.                                       *)
Names(m, s, i) == FlattenSeq([k \in 1 .. i - s + 1 |-> m.lines[s + k - 1].name])
NameSoFar(m, s, i, d) ==
  (IF i = s THEN << >> ELSE Names(m, s, i - 1)) \o SubSeq(m.lines[i].name, 1, d)
Values(m, i) == FlattenSeq(m.lines[i].values)
ValueSoFar(m, i, j, d) ==
  FlattenSeq(SubSeq(m.lines[i].values, 1, j - 1)) \o SubSeq(m.lines[i].values[j], 1, d)

KeyFrom(t) == Prefix \o key_upper(t)

Joint(m, S, key) ==
  LET is == Ascending({i \in S : KeyOf(m, i) = key})
  IN  FlattenSeq([j \in DOMAIN is |-> (IF j = 1 THEN << >> ELSE Separator) \o ValueOf(m, is[j])])
HeadersFrom(m, S) == [key \in {KeyOf(m, i) : i \in S} |-> Joint(m, S, key)]

(* The parts of a line of the head have their types.                        *)
LEMMA LineTypes ==
  ASSUME NEW m \in Messages
  PROVE  /\ Len(m.lines) \in Nat /\ DOMAIN m.lines = 1 .. Len(m.lines)
         /\ m.url \in Seq(Char) /\ m.url # << >>
         /\ \A i \in 1 .. Len(m.lines) :
              /\ m.lines[i].name \in Seq(Char) /\ m.lines[i].name # << >>
              /\ m.lines[i].values \in Seq(Seq(Char))
              /\ Len(m.lines[i].name) \in Nat \ {0}
<1>1. m.lines \in Seq([name: Text, values: Seq(Text)]) /\ m.url \in Text
  BY MessageParts
<1>2. Len(m.lines) \in Nat /\ DOMAIN m.lines = 1 .. Len(m.lines)
  BY <1>1, LenProperties
<1>3. m.url # << >> /\ \A i \in DOMAIN m.lines : m.lines[i].name # << >>
  BY RequestAssumption
<1>4. ASSUME NEW i \in 1 .. Len(m.lines)
      PROVE  /\ m.lines[i].name \in Seq(Char) /\ m.lines[i].values \in Seq(Seq(Char))
             /\ Len(m.lines[i].name) \in Nat \ {0}
  <2>1. m.lines[i] \in [name: Text, values: Seq(Text)]
    BY <1>1, ElementOfSeq
  <2>2. m.lines[i].name \in Seq(Char) /\ m.lines[i].values \in Seq(Seq(Char))
    BY <2>1, TextIs
  <2>3. m.lines[i].name # << >>
    BY <1>2, <1>3
  <2>4. Len(m.lines[i].name) # 0
    BY <2>2, <2>3, EmptySeq
  <2>. QED
    BY <2>2, <2>4, LenProperties
<1>. QED
  BY <1>1, <1>2, <1>3, <1>4, TextIs

(* Where a header starts and where it stops.                                *)
LEMMA StartsAre ==
  ASSUME NEW m \in Messages
  PROVE  /\ Starts(m) \in SUBSET (1 .. Len(m.lines))
         /\ Len(m.lines) > 0 => 1 \in Starts(m)
         /\ \A i \in 1 .. Len(m.lines) - 1 :
              i + 1 \in Starts(m) <=> m.lines[i].values # << >>
<1>1. Len(m.lines) \in Nat /\ DOMAIN m.lines = 1 .. Len(m.lines)
  BY LineTypes
<1>2. ASSUME NEW i \in 1 .. Len(m.lines) - 1
      PROVE  i + 1 \in Starts(m) <=> m.lines[i].values # << >>
  <2>. DEFINE k == i + 1
  <2>1. k \in DOMAIN m.lines /\ k - 1 = i /\ k # 1
    BY <1>1
  <2>. HIDE DEF k
  <2>2. k \in Starts(m) <=> m.lines[k - 1].values # << >>
    BY <2>1 DEF Starts
  <2>. QED
    BY <2>1, <2>2 DEF k
<1>. QED
  BY <1>1, <1>2 DEF Starts

(* A header stops at its first line with a value, or at the last line.      *)
LEMMA StopIs ==
  ASSUME NEW m \in Messages, NEW s \in 1 .. Len(m.lines)
  PROVE  LET e == Stop(m, s)
         IN  /\ e \in s .. Len(m.lines)
             /\ e = Len(m.lines) \/ m.lines[e].values # << >>
             /\ \A j \in s .. e - 1 : m.lines[j].values = << >>
<1>. DEFINE S == {j \in s .. Len(m.lines) : j = Len(m.lines) \/ m.lines[j].values # << >>}
            e == Stop(m, s)
<1>1. Len(m.lines) \in Nat
  BY LineTypes
<1>2. S \in SUBSET Nat /\ S # {} /\ e = Min(S)
  BY <1>1 DEF Stop
<1>. HIDE DEF e
<1>3. e \in S /\ \A j \in S : e <= j
  <2>. HIDE DEF S
  <2>. QED
    BY <1>2, MinIsIn
<1>4. ASSUME NEW j \in s .. e - 1, m.lines[j].values # << >> PROVE FALSE
  <2>1. j \in S /\ ~ e <= j
    BY <1>1, <1>3, <1>4
  <2>. QED
    BY <1>3, <2>1
<1>. QED
  BY <1>3, <1>4 DEF e

(* A header's first line,                                                   *)
LEMMA GroupStart ==
  ASSUME NEW m \in Messages, NEW s \in Starts(m)
  PROVE  InGroup(m, s, s)
BY StartsAre DEF InGroup

(* the next, unless a value ends it,                                        *)
LEMMA GroupNext ==
  ASSUME NEW m \in Messages, NEW s, NEW i, InGroup(m, s, i), i < Len(m.lines)
  PROVE  /\ i + 1 \in 1 .. Len(m.lines)
         /\ IF m.lines[i].values = << >>
            THEN InGroup(m, s, i + 1) /\ i + 1 \notin Starts(m)
            ELSE InGroup(m, i + 1, i + 1)
<1>1. /\ Len(m.lines) \in Nat /\ s \in Starts(m) /\ s \in 1 .. Len(m.lines)
      /\ i \in s .. Len(m.lines)
      /\ \A j \in s .. i - 1 : m.lines[j].values = << >>
  BY LineTypes, StartsAre DEF InGroup
<1>2. i \in 1 .. Len(m.lines) - 1 /\ i + 1 \in s .. Len(m.lines) /\ i + 1 \in 1 .. Len(m.lines)
  BY <1>1
<1>3. i + 1 \in Starts(m) <=> m.lines[i].values # << >>
  BY <1>2, StartsAre
<1>4. CASE m.lines[i].values = << >>
  <2>1. \A j \in s .. i + 1 - 1 : j = i \/ j \in s .. i - 1
    BY <1>1
  <2>2. \A j \in s .. i + 1 - 1 : m.lines[j].values = << >>
    BY <1>1, <1>4, <2>1
  <2>. QED
    BY <1>1, <1>2, <1>3, <1>4, <2>2 DEF InGroup
<1>5. CASE m.lines[i].values # << >>
  BY <1>2, <1>3, <1>5, GroupStart
<1>. QED
  BY <1>2, <1>4, <1>5

(* and its last.                                                            *)
LEMMA GroupStop ==
  ASSUME NEW m \in Messages, NEW s, NEW i, InGroup(m, s, i)
  PROVE  /\ s \in Starts(m) /\ s \in 1 .. i /\ i \in s .. Len(m.lines) /\ i \in 1 .. Len(m.lines)
         /\ s \in 1 .. Len(m.lines)
         /\ InGroup(m, s, Stop(m, s)) /\ i <= Stop(m, s)
         /\ i = Len(m.lines) \/ m.lines[i].values # << >> => Stop(m, s) = i
<1>1. /\ Len(m.lines) \in Nat /\ s \in Starts(m) /\ s \in 1 .. Len(m.lines)
      /\ i \in s .. Len(m.lines)
      /\ \A j \in s .. i - 1 : m.lines[j].values = << >>
  BY LineTypes, StartsAre DEF InGroup
<1>. DEFINE e == Stop(m, s)
<1>2. /\ e \in s .. Len(m.lines)
      /\ e = Len(m.lines) \/ m.lines[e].values # << >>
      /\ \A j \in s .. e - 1 : m.lines[j].values = << >>
  BY <1>1, StopIs
<1>. HIDE DEF e
<1>3. i <= e
  <2>1. ASSUME e < i PROVE FALSE
    <3>1. e \in s .. i - 1
      BY <1>1, <1>2, <2>1
    <3>2. m.lines[e].values = << >> /\ e # Len(m.lines)
      BY <1>1, <1>2, <2>1, <3>1
    <3>. QED
      BY <1>2, <3>2
  <2>. QED
    BY <1>1, <1>2, <2>1
<1>4. ASSUME i = Len(m.lines) \/ m.lines[i].values # << >> PROVE e = i
  <2>1. ASSUME i < e PROVE FALSE
    <3>1. i \in s .. e - 1 /\ i # Len(m.lines)
      BY <1>1, <1>2, <2>1
    <3>. QED
      BY <1>2, <1>4, <3>1
  <2>. QED
    BY <1>1, <1>2, <1>3, <2>1
<1>5. InGroup(m, s, e)
  BY <1>1, <1>2 DEF InGroup
<1>6. s \in 1 .. i /\ i \in 1 .. Len(m.lines)
  BY <1>1
<1>. QED
  BY <1>1, <1>3, <1>4, <1>5, <1>6 DEF e

(* A line belongs to one header.                                            *)
LEMMA GroupOne ==
  ASSUME NEW m \in Messages, NEW s, NEW r, NEW i, InGroup(m, s, i), InGroup(m, r, i)
  PROVE  s = r
<1>1. ASSUME NEW a, NEW b, InGroup(m, a, i), InGroup(m, b, i) PROVE ~ a < b
  <2>1. /\ a \in 1 .. i /\ b \in 1 .. i /\ b \in Starts(m) /\ i \in 1 .. Len(m.lines)
        /\ \A j \in a .. i - 1 : m.lines[j].values = << >>
    BY <1>1, GroupStop DEF InGroup
  <2>2. SUFFICES ASSUME a < b PROVE FALSE
    OBVIOUS
  <2>. DEFINE k == b - 1
  <2>3. k \in a .. i - 1 /\ k \in 1 .. Len(m.lines) - 1 /\ k + 1 = b
    BY <2>1, <2>2
  <2>. HIDE DEF k
  <2>4. m.lines[k].values = << >>
    BY <2>1, <2>3
  <2>5. k + 1 \in Starts(m)
    BY <2>1, <2>3
  <2>. QED
    BY <2>3, <2>4, <2>5, StartsAre
<1>2. ~ s < r /\ ~ r < s
  BY <1>1
<1>3. s \in 1 .. i /\ r \in 1 .. i /\ i \in 1 .. Len(m.lines)
  BY GroupStop
<1>. QED
  BY <1>2, <1>3

(* Keys: five characters, and those of the name in upper case.              *)
LEMMA UpperIs ==
  ASSUME NEW t \in Seq(Char)
  PROVE  /\ key_upper(t) \in Seq(Char) /\ Len(key_upper(t)) = Len(t)
         /\ \A i \in 1 .. Len(t) :
              key_upper(t)[i] = IF t[i] = 45 THEN 95 ELSE Upper(t[i])
<1>1. key_upper(t) \in Seq(Char)
  BY UpperOfText, TextIs
<1>2. key_upper(t) = [i \in 1 .. Len(t) |-> IF t[i] = 45 THEN 95 ELSE Upper(t[i])]
  BY DEF key_upper
<1>3. DOMAIN key_upper(t) = 1 .. Len(t) /\ Len(t) \in Nat
  BY <1>2, LenProperties
<1>. QED
  BY <1>1, <1>2, <1>3, LenProperties

(* key_upper works on one byte at a time, so a cut does not matter.         *)
LEMMA UpperJoin ==
  ASSUME NEW s \in Seq(Char), NEW t \in Seq(Char)
  PROVE  key_upper(s \o t) = key_upper(s) \o key_upper(t)
<1>. DEFINE a == s \o t
            u == key_upper(a)
            v == key_upper(s)
            w == key_upper(t)
            x == v \o w
            U(c) == IF c = 45 THEN 95 ELSE Upper(c)
<1>1. /\ a \in Seq(Char) /\ Len(a) = Len(s) + Len(t) /\ Len(s) \in Nat /\ Len(t) \in Nat
      /\ \A i \in 1 .. Len(s) + Len(t) : a[i] = IF i <= Len(s) THEN s[i] ELSE t[i - Len(s)]
  BY ConcatProperties, LenProperties
<1>. HIDE DEF a
<1>2. /\ u \in Seq(Char) /\ Len(u) = Len(a) /\ \A i \in 1 .. Len(a) : u[i] = U(a[i])
      /\ v \in Seq(Char) /\ Len(v) = Len(s) /\ \A i \in 1 .. Len(s) : v[i] = U(s[i])
      /\ w \in Seq(Char) /\ Len(w) = Len(t) /\ \A i \in 1 .. Len(t) : w[i] = U(t[i])
  BY <1>1, UpperIs
<1>. HIDE DEF u, v, w, U
<1>3. /\ x \in Seq(Char) /\ Len(x) = Len(s) + Len(t)
      /\ \A i \in 1 .. Len(s) + Len(t) : x[i] = IF i <= Len(s) THEN v[i] ELSE w[i - Len(s)]
  <2>1. /\ x \in Seq(Char) /\ Len(x) = Len(v) + Len(w)
        /\ \A i \in 1 .. Len(v) + Len(w) : x[i] = IF i <= Len(v) THEN v[i] ELSE w[i - Len(v)]
    <3>1. v \in Seq(Char) /\ w \in Seq(Char)
      BY <1>2
    <3>. QED
      BY <3>1, ConcatProperties
  <2>. HIDE DEF x
  <2>. QED
    BY <1>2, <2>1
<1>. HIDE DEF x
<1>4. ASSUME NEW i \in 1 .. Len(s) + Len(t) PROVE u[i] = x[i]
  <2>1. CASE i <= Len(s)
    BY SMTT(30), <1>1, <1>2, <1>3, <2>1
  <2>2. CASE ~ i <= Len(s)
    <3>1. i - Len(s) \in 1 .. Len(t)
      BY <1>1, <2>2
    <3>. QED
      BY <1>1, <1>2, <1>3, <2>2, <3>1
  <2>. QED
    BY <2>1, <2>2
<1>5. u = x
  BY <1>1, <1>2, <1>3, <1>4, SeqEqual
<1>. QED
  BY <1>5 DEF u, x, v, w, a

(* The key of a name is a key made piece by piece.                          *)
LEMMA KeyFromIs ==
  ASSUME NEW s \in Seq(Char)
  PROVE  /\ KeyFrom(s) \in Seq(Char) /\ Len(KeyFrom(s)) = 5 + Len(s)
         /\ \A i \in 1 .. 5 : KeyFrom(s)[i] = Prefix[i]
<1>. DEFINE p == Prefix
            u == key_upper(s)
            k == p \o u
<1>1. p \in Seq(Char) /\ Len(p) = 5
  BY DEF Prefix, Char
<1>2. u \in Seq(Char) /\ Len(u) = Len(s) /\ Len(s) \in Nat
  BY UpperIs, LenProperties
<1>. HIDE DEF p, u
<1>3. /\ k \in Seq(Char) /\ Len(k) = 5 + Len(s)
      /\ \A i \in 1 .. 5 : k[i] = p[i]
  <2>1. /\ k \in Seq(Char) /\ Len(k) = Len(p) + Len(u)
        /\ \A i \in 1 .. Len(p) + Len(u) : k[i] = IF i <= Len(p) THEN p[i] ELSE u[i - Len(p)]
    <3>1. p \in Seq(Char) /\ u \in Seq(Char)
      BY <1>1, <1>2
    <3>. QED
      BY <3>1, ConcatProperties
  <2>. HIDE DEF k
  <2>. QED
    BY <1>1, <1>2, <2>1
<1>. QED
  BY <1>3 DEF KeyFrom, k, p, u

(* header_field_cb goes on with a name in the middle of it.                 *)
LEMMA KeyFromMore ==
  ASSUME NEW s \in Seq(Char), NEW t \in Seq(Char)
  PROVE  KeyFrom(s) \o key_upper(t) = KeyFrom(s \o t)
<1>1. Prefix \in Seq(Char)
  BY DEF Prefix, Char
<1>2. key_upper(s) \in Seq(Char) /\ key_upper(t) \in Seq(Char)
  BY UpperIs
<1>3. (Prefix \o key_upper(s)) \o key_upper(t) = Prefix \o (key_upper(s) \o key_upper(t))
  BY <1>1, <1>2, Assoc
<1>. QED
  BY <1>3, UpperJoin DEF KeyFrom

(* Before its first byte a key is the prefix.                               *)
LEMMA KeyFromNone == KeyFrom(<< >>) = Prefix
<1>1. << >> \in Seq(Char) /\ Len(<< >>) = 0 /\ Prefix \in Seq(Char)
  BY DEF Prefix, Char
<1>2. key_upper(<< >>) \in Seq(Char) /\ Len(key_upper(<< >>)) = 0
  BY <1>1, UpperIs
<1>3. key_upper(<< >>) = << >>
  BY <1>2, EmptySeq
<1>. QED
  BY <1>1, <1>3, ConcatEmptySeq DEF KeyFrom

(* The names of a header's lines, glued.                                    *)
LEMMA NamesAre ==
  ASSUME NEW m \in Messages, NEW s \in 1 .. Len(m.lines), NEW i \in s .. Len(m.lines)
  PROVE  /\ Names(m, s, i) \in Seq(Char)
         /\ Names(m, s, i) = (IF i = s THEN << >> ELSE Names(m, s, i - 1)) \o m.lines[i].name
         /\ i # s => Names(m, s, i - 1) \in Seq(Char)
<1>. DEFINE q(k) == [j \in 1 .. k |-> m.lines[s + j - 1].name]
            x == m.lines[i].name
<1>0. Len(m.lines) \in Nat /\ s \in Nat /\ i \in Nat /\ s <= i /\ i \in 1 .. Len(m.lines)
  BY LineTypes
<1>1. ASSUME NEW k \in Nat, k <= i - s + 1
      PROVE  q(k) \in Seq(Seq(Char)) /\ Len(q(k)) = k /\ FlattenSeq(q(k)) \in Seq(Char)
  <2>1. ASSUME NEW j \in 1 .. k PROVE m.lines[s + j - 1].name \in Seq(Char)
    <3>1. s + j - 1 \in 1 .. Len(m.lines)
      BY <1>0, <1>1
    <3>. QED
      BY <3>1, LineTypes
  <2>2. q(k) \in [1 .. k -> Seq(Char)]
    BY <2>1
  <2>3. \A A : [1 .. k -> A] \subseteq Seq(A)
    BY <1>1
  <2>. HIDE DEF q
  <2>4. q(k) \in Seq(Seq(Char)) /\ DOMAIN q(k) = 1 .. k
    BY <2>2, <2>3
  <2>5. Len(q(k)) = k
    BY <2>4, LenProperties
  <2>. QED
    BY <2>4, <2>5, FlattenAll
<1>. DEFINE n == i - s
<1>2. n \in Nat /\ n + 1 = i - s + 1 /\ s + (n + 1) - 1 = i /\ n <= i - s + 1
  BY <1>0
<1>. HIDE DEF n
<1>3. q(n + 1) = Append(q(n), x)
  <2>. DEFINE a == q(n + 1)
              b == q(n)
              c == Append(b, x)
  <2>0. x \in Seq(Char)
    BY <1>0, LineTypes
  <2>1. /\ a \in Seq(Seq(Char)) /\ Len(a) = n + 1
        /\ b \in Seq(Seq(Char)) /\ Len(b) = n
    <3>1. n + 1 \in Nat /\ n + 1 <= i - s + 1
      BY <1>2
    <3>. HIDE DEF q
    <3>. QED
      BY <1>1, <1>2, <3>1
  <2>2. /\ \A j \in 1 .. n + 1 : a[j] = m.lines[s + j - 1].name
        /\ \A j \in 1 .. n : b[j] = m.lines[s + j - 1].name
    OBVIOUS
  <2>3. a[n + 1] = x
    BY <1>2, <2>2
  <2>. HIDE DEF a, b, x
  <2>4. /\ c \in Seq(Seq(Char)) /\ Len(c) = n + 1
        /\ \A j \in 1 .. n : c[j] = b[j]
        /\ c[n + 1] = x
    BY <2>0, <2>1
  <2>. HIDE DEF c
  <2>5. ASSUME NEW j \in 1 .. n + 1 PROVE a[j] = c[j]
    <3>1. j = n + 1 \/ j \in 1 .. n
      BY <1>2
    <3>. QED
      BY <2>2, <2>3, <2>4, <3>1
  <2>6. a = c
    BY <2>1, <2>4, <2>5, SeqEqual
  <2>. QED
    BY <2>6 DEF a, b, c
<1>4. Names(m, s, i) = FlattenSeq(q(n + 1))
  BY <1>2 DEF Names
<1>5. i # s => Names(m, s, i - 1) = FlattenSeq(q(n))
  <2>1. i - 1 - s + 1 = n
    BY <1>0, <1>2 DEF n
  <2>. QED
    BY <2>1 DEF Names
<1>6. i = s => FlattenSeq(q(n)) = << >>
  <2>1. ASSUME i = s PROVE q(n) = << >>
    <3>1. n = 0
      BY <1>0, <2>1 DEF n
    <3>2. q(n) \in Seq(Seq(Char)) /\ Len(q(n)) = 0
      BY <1>1, <1>2, <3>1
    <3>. HIDE DEF q
    <3>. QED
      BY <3>2, EmptySeq
  <2>. QED
    BY <2>1, FlattenEmpty
<1>7. q(n) \in Seq(Seq(Char)) /\ x \in Seq(Char) /\ FlattenSeq(q(n)) \in Seq(Char)
  BY <1>0, <1>1, <1>2, LineTypes
<1>. HIDE DEF q, x
<1>8. FlattenSeq(q(n + 1)) = FlattenSeq(q(n)) \o x
  BY <1>3, <1>7, FlattenLast
<1>9. FlattenSeq(q(n + 1)) \in Seq(Char)
  BY <1>7, <1>8, ConcatProperties
<1>. QED
  BY <1>4, <1>5, <1>6, <1>7, <1>8, <1>9 DEF x

(* As more of a header's lines are read, its name gets no shorter.          *)
LEMMA NamesGrow ==
  ASSUME NEW m \in Messages, NEW s \in 1 .. Len(m.lines), NEW i \in s .. Len(m.lines)
  PROVE  \A j \in i .. Len(m.lines) : Len(Names(m, s, i)) <= Len(Names(m, s, j))
<1>. DEFINE L(j) == Len(Names(m, s, j))
            S == {d \in Nat : i + d <= Len(m.lines) => L(i) <= L(i + d)}
<1>0. Len(m.lines) \in Nat /\ s \in Nat /\ i \in Nat /\ s <= i
  BY LineTypes
<1>1. \A j \in s .. Len(m.lines) : L(j) \in Nat
  BY NamesAre, LenProperties
<1>2. 0 \in S
  <2>1. i + 0 = i /\ L(i) \in Nat
    BY <1>0, <1>1
  <2>. HIDE DEF L
  <2>. QED
    BY <2>1
<1>3. ASSUME NEW d \in Nat, d \in S PROVE d + 1 \in S
  <2>. SUFFICES ASSUME i + (d + 1) <= Len(m.lines) PROVE L(i) <= L(i + (d + 1))
    OBVIOUS
  <2>. DEFINE j == i + (d + 1)
              k == i + d
  <2>1. /\ j \in s .. Len(m.lines) /\ j # s /\ j - 1 = k /\ k \in s .. Len(m.lines)
        /\ j \in 1 .. Len(m.lines) /\ L(i) <= L(k)
    BY <1>0, <1>3
  <2>. HIDE DEF j
  <2>2. Names(m, s, j) = Names(m, s, k) \o m.lines[j].name
    BY ZenonT(40), <2>1, NamesAre
  <2>3. Names(m, s, k) \in Seq(Char) /\ m.lines[j].name \in Seq(Char)
    BY <2>1, NamesAre, LineTypes
  <2>4. L(j) = L(k) + Len(m.lines[j].name) /\ Len(m.lines[j].name) \in Nat
    BY <2>2, <2>3, ConcatProperties, LenProperties
  <2>5. L(i) \in Nat /\ L(k) \in Nat
    BY <1>0, <1>1, <2>1
  <2>. HIDE DEF L, k
  <2>6. L(i) <= L(j)
    BY SMTT(30), <2>1, <2>4, <2>5
  <2>. QED
    BY <2>6 DEF j
<1>4. Nat \subseteq S
  <2>. HIDE DEF S
  <2>. QED
    BY <1>2, <1>3, Induct
<1>. TAKE j \in i .. Len(m.lines)
<1>5. j - i \in Nat /\ i + (j - i) = j /\ j <= Len(m.lines)
  BY <1>0
<1>6. j - i \in S
  BY <1>4, <1>5
<1>. QED
  BY <1>5, <1>6

(* A name, read up to some character.                                       *)
LEMMA NameSoFarIs ==
  ASSUME NEW m \in Messages, NEW s \in 1 .. Len(m.lines), NEW i \in s .. Len(m.lines),
         NEW d \in 0 .. Len(m.lines[i].name)
  PROVE  /\ NameSoFar(m, s, i, d) \in Seq(Char)
         /\ NameSoFar(m, s, i, 0) = IF i = s THEN << >> ELSE Names(m, s, i - 1)
         /\ NameSoFar(m, s, i, Len(m.lines[i].name)) = Names(m, s, i)
         /\ Len(NameSoFar(m, s, i, d)) <= Len(Names(m, s, i))
         /\ \A n \in 0 .. Len(m.lines[i].name) - d :
              NameSoFar(m, s, i, d) \o Between(m.lines[i].name, d, d + n)
              = NameSoFar(m, s, i, d + n)
<1>. DEFINE x == m.lines[i].name
            b == IF i = s THEN << >> ELSE Names(m, s, i - 1)
<1>0. /\ x \in Seq(Char) /\ Len(x) \in Nat /\ d \in Nat /\ d <= Len(x)
      /\ b \in Seq(Char) /\ Names(m, s, i) = b \o x
  <2>1. i \in 1 .. Len(m.lines)
    BY LineTypes
  <2>2. << >> \in Seq(Char)
    OBVIOUS
  <2>3. x \in Seq(Char) /\ Len(x) \in Nat
    BY <2>1, LineTypes
  <2>4. b \in Seq(Char) /\ Names(m, s, i) = b \o x
    BY <2>2, NamesAre
  <2>. HIDE DEF x, b
  <2>. QED
    BY <2>3, <2>4 DEF x
<1>1. \A k : NameSoFar(m, s, i, k) = b \o Between(x, 0, k)
  BY DEF NameSoFar, Between
<1>. HIDE DEF x, b
<1>2. ASSUME NEW k \in 0 .. Len(x) PROVE Between(x, 0, k) \in Seq(Char) /\ Len(Between(x, 0, k)) = k
  <2>1. 0 \in 0 .. Len(x) /\ k \in 0 .. Len(x) /\ k - 0 = k
    BY <1>0
  <2>. QED
    BY <1>0, <2>1, BetweenIs
<1>3. NameSoFar(m, s, i, d) \in Seq(Char) /\ Len(NameSoFar(m, s, i, d)) = Len(b) + d
  <2>. DEFINE y == Between(x, 0, d)
  <2>1. y \in Seq(Char) /\ Len(y) = d
    BY <1>0, <1>2
  <2>. HIDE DEF y
  <2>2. b \o y \in Seq(Char) /\ Len(b \o y) = Len(b) + d
    BY <1>0, <2>1, ConcatProperties
  <2>. QED
    BY <1>1, <2>2 DEF y
<1>4. Between(x, 0, 0) = << >>
  BY SubSeqEmpty DEF Between
<1>5. NameSoFar(m, s, i, 0) = b
  BY <1>0, <1>1, <1>4, ConcatEmptySeq
<1>6. NameSoFar(m, s, i, Len(x)) = b \o x
  <2>1. Between(x, 0, Len(x)) = x
    BY <1>0, SubSeqFull DEF Between
  <2>. QED
    BY <1>1, <2>1
<1>7. Len(b \o x) = Len(b) + Len(x) /\ Len(b) \in Nat
  BY <1>0, ConcatProperties, LenProperties
<1>8. ASSUME NEW n \in 0 .. Len(x) - d
      PROVE  NameSoFar(m, s, i, d) \o Between(x, d, d + n) = NameSoFar(m, s, i, d + n)
  <2>. DEFINE e == d + n
  <2>1. 0 \in 0 .. Len(x) /\ e \in d .. Len(x) /\ d \in 0 .. Len(x)
    BY <1>0
  <2>. HIDE DEF e
  <2>2. Between(x, 0, d) \o Between(x, d, e) = Between(x, 0, e)
    BY <1>0, <2>1, BetweenJoin
  <2>3. Between(x, 0, d) \in Seq(Char) /\ Between(x, d, e) \in Seq(Char)
    BY <1>0, <1>2, <2>1, BetweenIs
  <2>4. (b \o Between(x, 0, d)) \o Between(x, d, e) = b \o (Between(x, 0, d) \o Between(x, d, e))
    BY <1>0, <2>3, Assoc
  <2>. QED
    BY <1>1, <2>2, <2>4 DEF e
<1>9. Len(NameSoFar(m, s, i, d)) <= Len(Names(m, s, i))
  BY <1>0, <1>3, <1>7
<1>. QED
  BY <1>0, <1>3, <1>5, <1>6, <1>8, <1>9 DEF x, b

(* A value, read up to some character of one of its lines.                  *)
LEMMA ValueSoFarIs ==
  ASSUME NEW m \in Messages, NEW i \in 1 .. Len(m.lines),
         NEW j \in 1 .. Len(m.lines[i].values), NEW d \in 0 .. Len(m.lines[i].values[j])
  PROVE  LET v == m.lines[i].values
             soFar(k, c) == ValueSoFar(m, i, k, c)
         IN  /\ soFar(j, d) \in Seq(Char)
             /\ soFar(1, 0) = << >>
             /\ soFar(j, Len(v[j])) = IF j = Len(v) THEN Values(m, i) ELSE soFar(j + 1, 0)
             /\ Len(soFar(j, d)) <= Len(Values(m, i))
             /\ \A n \in 0 .. Len(v[j]) - d :
                  soFar(j, d) \o Between(v[j], d, d + n) = soFar(j, d + n)
<1>. DEFINE v == m.lines[i].values
            x == v[j]
            b == Flat(v, j - 1)
<1>0. /\ v \in Seq(Seq(Char)) /\ Len(v) \in Nat /\ x \in Seq(Char) /\ Len(x) \in Nat
      /\ d \in Nat /\ d <= Len(x) /\ j - 1 \in 0 .. Len(v)
  <2>1. v \in Seq(Seq(Char))
    BY LineTypes
  <2>. HIDE DEF v
  <2>2. x \in Seq(Char) /\ Len(v) \in Nat
    BY <2>1, ElementOfSeq, LenProperties DEF v
  <2>. QED
    BY <2>1, <2>2, LenProperties DEF v
<1>1. \A k, c : ValueSoFar(m, i, k, c) = Flat(v, k - 1) \o Between(v[k], 0, c)
  BY DEF ValueSoFar, Between, Flat, First
<1>. HIDE DEF v
<1>2. b \in Seq(Char) /\ Flat(v, j) = b \o x
  BY <1>0, FlatType, FlatNext DEF v
<1>3. \A t : Between(t, 0, 0) = << >>
  BY SubSeqEmpty DEF Between
<1>4. ValueSoFar(m, i, 1, 0) = << >>
  <2>1. Flat(v, 1 - 1) = << >>
    BY FlatNone
  <2>2. << >> \o << >> = << >>
    OBVIOUS
  <2>. QED
    BY <1>1, <1>3, <2>1, <2>2
<1>. HIDE DEF x, b
<1>5. ASSUME NEW k \in 0 .. Len(x) PROVE Between(x, 0, k) \in Seq(Char) /\ Len(Between(x, 0, k)) = k
  <2>1. 0 \in 0 .. Len(x) /\ k \in 0 .. Len(x) /\ k - 0 = k
    BY <1>0
  <2>. QED
    BY <1>0, <2>1, BetweenIs
<1>6. \A c : ValueSoFar(m, i, j, c) = b \o Between(x, 0, c)
  BY <1>1 DEF x, b
<1>7. ValueSoFar(m, i, j, d) \in Seq(Char) /\ Len(ValueSoFar(m, i, j, d)) = Len(b) + d
  <2>. DEFINE y == Between(x, 0, d)
  <2>1. y \in Seq(Char) /\ Len(y) = d
    BY <1>0, <1>5
  <2>. HIDE DEF y
  <2>2. b \o y \in Seq(Char) /\ Len(b \o y) = Len(b) + d
    BY <1>2, <2>1, ConcatProperties
  <2>. QED
    BY <1>6, <2>2 DEF y
<1>8. ValueSoFar(m, i, j, Len(x)) = Flat(v, j)
  <2>1. Between(x, 0, Len(x)) = x
    BY <1>0, SubSeqFull DEF Between
  <2>. QED
    BY <1>2, <1>6, <2>1
<1>9. Flat(v, j) = IF j = Len(v) THEN Values(m, i) ELSE ValueSoFar(m, i, j + 1, 0)
  <2>1. CASE j = Len(v)
    BY <1>0, <2>1, FlattenAll DEF Values, v
  <2>2. CASE j # Len(v)
    <3>1. j \in 0 .. Len(v) /\ j + 1 - 1 = j
      BY <1>0 DEF v
    <3>2. Flat(v, j) \in Seq(Char)
      BY <1>0, <3>1, FlatType
    <3>3. ValueSoFar(m, i, j + 1, 0) = Flat(v, j) \o << >>
      <4>. DEFINE k == j + 1
      <4>1. k - 1 = j
        BY <3>1
      <4>. HIDE DEF k
      <4>2. ValueSoFar(m, i, k, 0) = Flat(v, k - 1) \o Between(v[k], 0, 0)
        BY <1>1
      <4>3. Between(v[k], 0, 0) = << >>
        BY <1>3
      <4>. QED
        BY <4>1, <4>2, <4>3 DEF k
    <3>. QED
      BY <2>2, <3>2, <3>3, ConcatEmptySeq
  <2>. QED
    BY <2>1, <2>2
<1>10. Len(ValueSoFar(m, i, j, d)) <= Len(Values(m, i))
  <2>1. Len(v) \in j .. Len(v) /\ j \in 0 .. Len(v)
    BY <1>0 DEF v
  <2>2. PICK r \in Seq(Char) : Flat(v, Len(v)) = Flat(v, j) \o r
    BY <1>0, <2>1, FlatPrefix
  <2>3. Values(m, i) = Flat(v, Len(v)) /\ Flat(v, j) \in Seq(Char)
    BY <1>0, <2>1, FlattenAll, FlatType DEF Values, v
  <2>4. Len(Flat(v, Len(v))) = Len(Flat(v, j)) + Len(r) /\ Len(r) \in Nat
    BY <2>2, <2>3, ConcatProperties, LenProperties
  <2>5. Len(Flat(v, j)) = Len(b) + Len(x) /\ Len(b) \in Nat
    BY <1>0, <1>2, ConcatProperties, LenProperties
  <2>. QED
    BY <1>0, <1>7, <2>3, <2>4, <2>5
<1>11. ASSUME NEW n \in 0 .. Len(x) - d
       PROVE  ValueSoFar(m, i, j, d) \o Between(x, d, d + n) = ValueSoFar(m, i, j, d + n)
  <2>. DEFINE e == d + n
  <2>1. 0 \in 0 .. Len(x) /\ e \in d .. Len(x) /\ d \in 0 .. Len(x)
    BY <1>0
  <2>. HIDE DEF e
  <2>2. Between(x, 0, d) \o Between(x, d, e) = Between(x, 0, e)
    BY <1>0, <2>1, BetweenJoin
  <2>3. Between(x, 0, d) \in Seq(Char) /\ Between(x, d, e) \in Seq(Char)
    BY <1>0, <1>5, <2>1, BetweenIs
  <2>4. (b \o Between(x, 0, d)) \o Between(x, d, e) = b \o (Between(x, 0, d) \o Between(x, d, e))
    BY <1>2, <2>3, Assoc
  <2>. QED
    BY <1>6, <2>2, <2>4 DEF e
<1>. QED
  BY <1>4, <1>7, <1>8, <1>9, <1>10, <1>11 DEF x, v

(* A text that fits is written whole, and one that does not is beyond the   *)
(* limit.                                                                   *)
LEMMA WriteWhole ==
  ASSUME NEW b \in Buffer, NEW t \in Text,
         Len(b.text) <= b.limit, b.size <= b.limit + 1
  PROVE  IF Overflows(b, t) THEN Len(b.text) + Len(t) > b.limit
         ELSE write2buf(b, t).text = b.text \o t
<1>1. /\ Taken(b, t) \in 0 .. Len(t)
      /\ Len(b.text) + Len(t) <= b.limit => Taken(b, t) = Len(t)
  BY TakenBounds
<1>2. Len(b.text) \in Nat /\ Len(t) \in Nat /\ b.limit \in Nat
  BY LenOfText DEF Buffer
<1>3. CASE Overflows(b, t)
  BY <1>1, <1>2, <1>3 DEF Overflows
<1>4. CASE ~ Overflows(b, t)
  <2>1. Taken(b, t) = Len(t)
    BY <1>1, <1>2, <1>4 DEF Overflows
  <2>2. SubSeq(t, 1, Len(t)) = t
    BY SubSeqFull DEF Text
  <2>3. write2buf(b, t).text = b.text \o SubSeq(t, 1, Taken(b, t))
    BY DEF write2buf
  <2>. QED
    BY <1>4, <2>1, <2>2, <2>3
<1>. QED
  BY <1>3, <1>4

(* The separator of joined values is a text.                                *)
LEMMA SeparatorIs == Separator \in Seq(Char) /\ << >> \in Seq(Char)
BY DEF Separator, Char

(* Keys and values of a message's headers.                                  *)
LEMMA HeaderIs ==
  ASSUME NEW m \in Messages, NEW s \in Starts(m)
  PROVE  /\ s \in 1 .. Len(m.lines) /\ Stop(m, s) \in 1 .. Len(m.lines)
         /\ InGroup(m, s, Stop(m, s))
         /\ KeyOf(m, s) = KeyFrom(Names(m, s, Stop(m, s)))
         /\ ValueOf(m, s) = Values(m, Stop(m, s))
         /\ KeyOf(m, s) \in Seq(Char) /\ ValueOf(m, s) \in Seq(Char)
         /\ \A i \in 1 .. 5 : KeyOf(m, s)[i] = Prefix[i]
         /\ 5 <= Len(KeyOf(m, s))
<1>. DEFINE e == Stop(m, s)
<1>1. s \in 1 .. Len(m.lines) /\ InGroup(m, s, s)
  BY StartsAre, GroupStart
<1>2. InGroup(m, s, e) /\ e \in s .. Len(m.lines) /\ e \in 1 .. Len(m.lines)
  <2>1. InGroup(m, s, e)
    BY <1>1, GroupStop
  <2>. HIDE DEF e
  <2>. QED
    BY <2>1, GroupStop
<1>3. KeyOf(m, s) = KeyFrom(Names(m, s, e)) /\ ValueOf(m, s) = Values(m, e)
  BY DEF KeyOf, KeyFrom, Names, ValueOf, Values
<1>. HIDE DEF e
<1>4. Names(m, s, e) \in Seq(Char)
  BY <1>1, <1>2, NamesAre
<1>5. /\ KeyOf(m, s) \in Seq(Char) /\ Len(KeyOf(m, s)) = 5 + Len(Names(m, s, e))
      /\ \A i \in 1 .. 5 : KeyOf(m, s)[i] = Prefix[i]
  BY <1>3, <1>4, KeyFromIs
<1>6. Len(Names(m, s, e)) \in Nat
  BY <1>4, LenProperties
<1>7. ValueOf(m, s) \in Seq(Char)
  BY <1>2, <1>3, LineTypes, FlattenAll DEF Values
<1>8. 5 <= Len(KeyOf(m, s))
  BY <1>5, <1>6
<1>. QED
  BY <1>1, <1>2, <1>3, <1>5, <1>7, <1>8 DEF e

(* The headers among S that have this key, and what is joined for it.       *)
OfKey(m, S, key) == {i \in S : KeyOf(m, i) = key}
(* What add_header joins for one key: the values, with a separator before   *)
(* each but the first.                                                      *)
Pieces(m, S, key) ==
  LET is == Ascending(OfKey(m, S, key))
  IN  [j \in DOMAIN is |-> (IF j = 1 THEN << >> ELSE Separator) \o ValueOf(m, is[j])]

(* The value of a key is its pieces in a row.                               *)
LEMMA JointIs == \A m, S, key : Joint(m, S, key) = FlattenSeq(Pieces(m, S, key))
BY DEF Joint, Pieces, OfKey

(* There is one piece for each header of the key.                           *)
LEMMA PiecesAre ==
  ASSUME NEW m \in Messages, NEW S \in SUBSET Starts(m), NEW key
  PROVE  LET K == OfKey(m, S, key)
             is == Ascending(K)
             ps == Pieces(m, S, key)
         IN  /\ K \in SUBSET Nat /\ is \in Seq(Nat) /\ Len(is) = Cardinality(K)
             /\ Cardinality(K) \in Nat /\ (Cardinality(K) = 0 <=> K = {})
             /\ ps \in Seq(Seq(Char)) /\ Len(ps) = Cardinality(K) /\ DOMAIN is = 1 .. Cardinality(K)
             /\ \A j \in 1 .. Cardinality(K) :
                  ps[j] = (IF j = 1 THEN << >> ELSE Separator) \o ValueOf(m, is[j])
<1>. DEFINE K == OfKey(m, S, key)
            is == Ascending(K)
            ps == Pieces(m, S, key)
            n == Len(m.lines) + 1
            k == Cardinality(K)
<1>1. n \in Nat /\ K \in SUBSET Nat /\ \A x \in K : x < n /\ x \in Starts(m)
  BY LineTypes, StartsAre DEF OfKey
<1>2. ps = [j \in DOMAIN is |-> (IF j = 1 THEN << >> ELSE Separator) \o ValueOf(m, is[j])]
  BY DEF Pieces
<1>. HIDE DEF K, n
<1>3. /\ IsFiniteSet(K) /\ k \in Nat /\ is \in Seq(Nat) /\ Len(is) = k /\ DOMAIN is = 1 .. k
      /\ \A j \in 1 .. k : is[j] \in K
  BY <1>1, AscendingIs DEF Rank
<1>4. k = 0 <=> K = {}
  BY <1>3, FS_EmptySet
<1>. HIDE DEF is, ps, k
<1>5. ASSUME NEW j \in 1 .. k
      PROVE  (IF j = 1 THEN << >> ELSE Separator) \o ValueOf(m, is[j]) \in Seq(Char)
  <2>1. ValueOf(m, is[j]) \in Seq(Char)
    BY <1>1, <1>3, HeaderIs
  <2>2. (IF j = 1 THEN << >> ELSE Separator) \in Seq(Char)
    BY SeparatorIs
  <2>. QED
    BY <2>1, <2>2, ConcatProperties
<1>6. ps \in Seq(Seq(Char)) /\ Len(ps) = k
  <2>1. ps \in [1 .. k -> Seq(Char)]
    BY <1>2, <1>3, <1>5
  <2>2. \A A : [1 .. k -> A] \subseteq Seq(A)
    BY <1>3
  <2>3. ps \in Seq(Seq(Char)) /\ DOMAIN ps = 1 .. k
    BY <2>1, <2>2
  <2>. QED
    BY <1>3, <2>3, LenProperties
<1>7. \A j \in 1 .. k : ps[j] = (IF j = 1 THEN << >> ELSE Separator) \o ValueOf(m, is[j])
  BY <1>2, <1>3
<1>. QED
  BY <1>1, <1>3, <1>4, <1>6, <1>7 DEF K, is, ps, k

(* A line of the same name is joined to those before it.                    *)
LEMMA JointAdd ==
  ASSUME NEW m \in Messages, NEW S \in SUBSET Starts(m), NEW s \in Starts(m), \A i \in S : i < s
  PROVE  LET key == KeyOf(m, s)
         IN  /\ \A k : k # key => Joint(m, S \union {s}, k) = Joint(m, S, k)
             /\ Joint(m, S \union {s}, key) =
                  IF OfKey(m, S, key) # {}
                  THEN Joint(m, S, key) \o Separator \o ValueOf(m, s) ELSE ValueOf(m, s)
<1>. DEFINE key == KeyOf(m, s)
            A == S \union {s}
            K == OfKey(m, S, key)
            L == OfKey(m, A, key)
            is == Ascending(K)
            js == Ascending(L)
            ps == Pieces(m, S, key)
            qs == Pieces(m, A, key)
            c == Cardinality(K)
            v == ValueOf(m, s)
            w == (IF K = {} THEN << >> ELSE Separator) \o v
<1>1. ASSUME NEW k, k # key PROVE Joint(m, A, k) = Joint(m, S, k)
  <2>1. OfKey(m, A, k) = OfKey(m, S, k)
    BY <1>1 DEF OfKey
  <2>. QED
    BY <2>1, JointIs DEF Pieces
<1>2. A \in SUBSET Starts(m) /\ L = K \union {s} /\ (\A y \in K : y < s)
  BY DEF OfKey
<1>3. s \in Nat /\ v \in Seq(Char)
  BY HeaderIs
<1>. HIDE DEF key
<1>4. /\ K \in SUBSET Nat /\ is \in Seq(Nat) /\ Len(is) = c
      /\ c \in Nat /\ (c = 0 <=> K = {})
      /\ ps \in Seq(Seq(Char)) /\ Len(ps) = c
      /\ \A j \in 1 .. c : ps[j] = (IF j = 1 THEN << >> ELSE Separator) \o ValueOf(m, is[j])
  BY PiecesAre
<1>. HIDE DEF A
<1>5. /\ js \in Seq(Nat) /\ Len(js) = Cardinality(L)
      /\ qs \in Seq(Seq(Char)) /\ Len(qs) = Cardinality(L)
      /\ \A j \in 1 .. Cardinality(L) : qs[j]
           = (IF j = 1 THEN << >> ELSE Separator) \o ValueOf(m, js[j])
  BY <1>2, PiecesAre
<1>. HIDE DEF K, L
<1>6. js = Append(is, s)
  BY <1>2, <1>3, <1>4, AscendingAdd
<1>. HIDE DEF is, js, ps, qs, key, v
<1>7. Cardinality(L) = c + 1 /\ js[c + 1] = s /\ \A j \in 1 .. c : js[j] = is[j]
  <2>. HIDE DEF c
  <2>. QED
    BY <1>3, <1>4, <1>5, <1>6
<1>. HIDE DEF c
<1>8. w \in Seq(Char)
  <2>1. (IF K = {} THEN << >> ELSE Separator) \in Seq(Char)
    BY SeparatorIs
  <2>. QED
    BY <1>3, <2>1, ConcatProperties
<1>9. qs[c + 1] = w
  <2>1. c + 1 \in 1 .. Cardinality(L) /\ (c + 1 = 1 <=> K = {})
    BY <1>4, <1>7
  <2>. DEFINE n == c + 1
  <2>. HIDE DEF n
  <2>2. qs[n] = (IF n = 1 THEN << >> ELSE Separator) \o ValueOf(m, js[n])
    BY <1>5, <2>1 DEF n
  <2>. QED
    BY <1>7, <2>1, <2>2 DEF n, v
<1>10. \A j \in 1 .. c : qs[j] = ps[j]
  <2>. TAKE j \in 1 .. c
  <2>1. j \in 1 .. Cardinality(L)
    BY <1>4, <1>7
  <2>. QED
    BY <1>4, <1>5, <1>7, <2>1
<1>. HIDE DEF w
<1>11. qs = Append(ps, w)
  <2>. DEFINE rs == Append(ps, w)
  <2>1. /\ rs \in Seq(Seq(Char)) /\ Len(rs) = c + 1 /\ rs[c + 1] = w
        /\ \A j \in 1 .. c : rs[j] = ps[j]
    BY <1>4, <1>8
  <2>. HIDE DEF rs
  <2>2. ASSUME NEW j \in 1 .. c + 1 PROVE qs[j] = rs[j]
    <3>1. j = c + 1 \/ j \in 1 .. c
      BY <1>4
    <3>. QED
      BY <1>9, <1>10, <2>1, <3>1
  <2>3. qs = rs
    BY <1>5, <1>7, <2>1, <2>2, SeqEqual
  <2>. QED
    BY <2>3 DEF rs
<1>12. FlattenSeq(qs) = FlattenSeq(ps) \o w
  BY <1>4, <1>8, <1>11, FlattenLast
<1>13. FlattenSeq(ps) \in Seq(Char) /\ Separator \in Seq(Char)
  BY <1>4, FlattenAll DEF Separator, Char
<1>14. Joint(m, A, key) = FlattenSeq(ps) \o w /\ Joint(m, S, key) = FlattenSeq(ps)
  BY <1>12, JointIs DEF qs, ps
<1>16. CASE K = {}
  <2>1. ps = << >>
    BY <1>4, <1>16, EmptySeq
  <2>2. FlattenSeq(ps) = << >>
    BY <2>1, FlattenEmpty
  <2>3. w = << >> \o v
    BY <1>16 DEF w
  <2>4. << >> \o (<< >> \o v) = v
    BY <1>3, ConcatEmptySeq
  <2>5. Joint(m, A, key) = v
    BY <1>14, <2>2, <2>3, <2>4
  <2>. QED
    BY <1>1, <1>16, <2>5 DEF A, key, v, K
<1>17. CASE K # {}
  <2>1. w = Separator \o v
    BY <1>17 DEF w
  <2>2. (FlattenSeq(ps) \o Separator) \o v = FlattenSeq(ps) \o (Separator \o v)
    BY <1>3, <1>13, Assoc
  <2>3. Joint(m, A, key) = Joint(m, S, key) \o Separator \o v
    BY <1>14, <2>1, <2>2
  <2>. QED
    BY <1>1, <1>17, <2>3 DEF A, key, v, K
<1>. QED
  BY <1>16, <1>17

(* add_header with the next header gives the headers with it.               *)
LEMMA HeadersAdd ==
  ASSUME NEW m \in Messages, NEW S \in SUBSET Starts(m), NEW s \in Starts(m), \A i \in S : i < s
  PROVE  HeadersFrom(m, S \union {s}) = WithHeader(HeadersFrom(m, S), KeyOf(m, s), ValueOf(m, s))
<1>. DEFINE key == KeyOf(m, s)
            v == ValueOf(m, s)
            A == S \union {s}
            D == {KeyOf(m, i) : i \in S}
            E == {KeyOf(m, i) : i \in A}
            h == HeadersFrom(m, S)
            g == HeadersFrom(m, A)
            x == WithHeader(h, key, v)
<1>1. E = D \union {key}
  OBVIOUS
<1>2. key \in D <=> OfKey(m, S, key) # {}
  BY DEF OfKey
<1>3. h = [k \in D |-> Joint(m, S, k)] /\ g = [k \in E |-> Joint(m, A, k)]
  BY DEF HeadersFrom
<1>4. /\ \A k : k # key => Joint(m, A, k) = Joint(m, S, k)
      /\ Joint(m, A, key) =
           IF OfKey(m, S, key) # {} THEN Joint(m, S, key) \o Separator \o v ELSE v
  BY JointAdd
<1>. HIDE DEF h, g, D, E, A, key, v
<1>5. DOMAIN h = D /\ \A k \in D : h[k] = Joint(m, S, k)
  BY <1>3
<1>6. x = [k \in E |-> IF k # key THEN h[k]
                       ELSE IF key \in D THEN h[key] \o Separator \o v ELSE v]
  BY <1>1, <1>5 DEF WithHeader
<1>7. ASSUME NEW k \in E
      PROVE  Joint(m, A, k) = IF k # key THEN h[k]
                              ELSE IF key \in D THEN h[key] \o Separator \o v ELSE v
  <2>1. CASE k # key
    <3>1. k \in D
      BY <1>1, <2>1
    <3>. QED
      BY <1>4, <1>5, <2>1, <3>1
  <2>2. CASE k = key /\ key \in D
    BY <1>2, <1>4, <1>5, <2>2
  <2>3. CASE k = key /\ key \notin D
    BY <1>2, <1>4, <2>3
  <2>. QED
    BY <2>1, <2>2, <2>3
<1>. HIDE DEF x
<1>8. g = x
  BY <1>3, <1>6, <1>7
<1>. QED
  BY <1>8 DEF g, x, h, A, key, v

(* Without a header there is no key.                                        *)
LEMMA HeadersNone == \A m : HeadersFrom(m, {}) = << >>
<1>1. \A f : [k \in {} |-> f[k]] = << >>
  OBVIOUS
<1>. QED
  BY DEF HeadersFrom

(* The headers that start before a line, and how many there are.            *)
ValuedBefore(m, s) == {j \in Valued(m) : j < s}
Counted(m, s) == Cardinality(Starts(m) \intersect (2 .. s))

(* Behind a value the next header starts: it counts one more, and the one   *)
(* before it is stored.                                                     *)
LEMMA NextStart ==
  ASSUME NEW m \in Messages, NEW s, NEW i, InGroup(m, s, i)
  PROVE  /\ ValuedBefore(m, s) \in SUBSET Starts(m) /\ s \in Starts(m)
         /\ \A j \in ValuedBefore(m, s) : j < s
         /\ Counted(m, s) \in Nat
         /\ i < Len(m.lines) /\ m.lines[i].values # << >> =>
              /\ ValuedBefore(m, i + 1) = ValuedBefore(m, s) \union {s}
              /\ Counted(m, i + 1) = Counted(m, s) + 1
              /\ Counted(m, i + 1) + 1 <= Cardinality(Starts(m))
         /\ i = Len(m.lines) =>
              /\ Valued(m) = IF m.lines[i].values = << >> THEN ValuedBefore(m, s)
                             ELSE ValuedBefore(m, s) \union {s}
              /\ Cardinality(Starts(m)) = Counted(m, s) + 1
<1>. DEFINE V(k) == {j \in Valued(m) : j < k}
            n(k) == Cardinality(Starts(m) \intersect (2 .. k))
            N == Len(m.lines)
<1>0. /\ N \in Nat /\ s \in Starts(m) /\ s \in 1 .. N /\ i \in s .. N /\ i \in 1 .. N
      /\ Starts(m) \in SUBSET (1 .. N) /\ 1 \in Starts(m)
      /\ \A j \in s .. i - 1 : m.lines[j].values = << >>
  BY LineTypes, StartsAre, GroupStop DEF InGroup
<1>1. Valued(m) \in SUBSET Starts(m)
  BY DEF Valued
<1>2. ASSUME NEW j \in s + 1 .. i PROVE j \notin Starts(m)
  <2>. DEFINE k == j - 1
  <2>1. k \in 1 .. N - 1 /\ k + 1 = j /\ k \in s .. i - 1
    BY <1>0
  <2>. HIDE DEF k
  <2>2. j \in Starts(m) <=> m.lines[k].values # << >>
    BY <2>1, StartsAre
  <2>. QED
    BY <1>0, <2>1, <2>2
<1>3. m.lines[i].values # << >> \/ i = N => (s \in Valued(m) <=> m.lines[i].values # << >>)
  <2>1. m.lines[i].values # << >> \/ i = N => Stop(m, s) = i
    BY GroupStop
  <2>. QED
    BY <1>0, <2>1 DEF Valued
<1>4. \A k \in Nat : IsFiniteSet(Starts(m) \intersect (2 .. k)) /\ n(k) \in Nat
  <2>. TAKE k \in Nat
  <2>1. IsFiniteSet(2 .. k)
    BY FS_Interval
  <2>2. IsFiniteSet(Starts(m) \intersect (2 .. k))
    <3>1. Starts(m) \intersect (2 .. k) \subseteq 2 .. k
      OBVIOUS
    <3>. QED
      BY <2>1, <3>1, FS_Subset
  <2>. QED
    BY <2>2, FS_CardinalityType
<1>5. /\ IsFiniteSet(Starts(m)) /\ Cardinality(Starts(m)) \in Nat
      /\ \A k \in Nat : n(k) + 1 <= Cardinality(Starts(m))
      /\ \A k \in 1 .. N : (\A j \in k + 1 .. N : j \notin Starts(m))
           => Cardinality(Starts(m)) = n(k) + 1
  <2>1. IsFiniteSet(1 .. N)
    <3>1. 1 \in Int /\ N \in Int
      BY <1>0
    <3>. HIDE DEF N
    <3>. QED
      BY <3>1, FS_Interval
  <2>2. IsFiniteSet(Starts(m))
    BY <1>0, <2>1, FS_Subset
  <2>3. Cardinality(Starts(m)) \in Nat
    BY <2>2, FS_CardinalityType
  <2>4. ASSUME NEW k \in Nat
        PROVE  /\ n(k) + 1 <= Cardinality(Starts(m))
               /\ (\A j \in k + 1 .. N : j \notin Starts(m)) /\ k \in 1 .. N
                    => Cardinality(Starts(m)) = n(k) + 1
    <3>. DEFINE T == Starts(m) \intersect (2 .. k)
                U == T \union {1}
    <3>1. 1 \notin T /\ U \in SUBSET Starts(m)
      BY <1>0
    <3>2. IsFiniteSet(T) /\ n(k) = Cardinality(T) /\ n(k) \in Nat
      BY <1>4
    <3>3. (\A j \in k + 1 .. N : j \notin Starts(m)) /\ k \in 1 .. N => U = Starts(m)
      <4>1. ASSUME \A j \in k + 1 .. N : j \notin Starts(m), k \in 1 .. N, NEW x \in Starts(m)
            PROVE  x \in U
        <5>1. x \in 1 .. N /\ ~ x \in k + 1 .. N
          BY <1>0, <4>1
        <5>. QED
          BY <1>0, <5>1
      <4>. QED
        BY <3>1, <4>1
    <3>. HIDE DEF T
    <3>4. IsFiniteSet(U) /\ Cardinality(U) = Cardinality(T) + 1
      BY <3>1, <3>2, FS_AddElement
    <3>. HIDE DEF U, n
    <3>5. Cardinality(U) <= Cardinality(Starts(m))
      BY <2>2, <3>1, FS_Subset
    <3>. QED
      BY <3>2, <3>3, <3>4, <3>5
  <2>5. \A k \in 1 .. N : k \in Nat
    OBVIOUS
  <2>. HIDE DEF n
  <2>. QED
    BY <2>2, <2>3, <2>4, <2>5
<1>6. ASSUME i < N, m.lines[i].values # << >>
      PROVE  V(i + 1) = V(s) \union {s} /\ n(i + 1) = n(s) + 1
  <2>1. i + 1 \in Starts(m)
    BY <1>0, <1>6, StartsAre
  <2>2. \A x : x \in V(i + 1) <=> x \in V(s) \union {s}
    <3>. TAKE x
    <3>1. x \in Valued(m) => x \in 1 .. N /\ ~ x \in s + 1 .. i
      BY <1>0, <1>1, <1>2
    <3>2. s \in Valued(m)
      BY <1>3, <1>6
    <3>. QED
      BY <1>0, <3>1, <3>2
  <2>. DEFINE T == Starts(m) \intersect (2 .. s)
              U == Starts(m) \intersect (2 .. i + 1)
  <2>3. U = T \union {i + 1} /\ i + 1 \notin T
    <3>1. \A x : x \in U <=> x \in T \union {i + 1}
      <4>. TAKE x
      <4>1. x \in Starts(m) => x \in 1 .. N /\ ~ x \in s + 1 .. i
        BY <1>0, <1>2
      <4>. QED
        BY <1>0, <2>1, <4>1
    <3>2. i + 1 \notin T
      BY <1>0
    <3>. HIDE DEF U, T
    <3>. QED
      BY <3>1, <3>2
  <2>4. IsFiniteSet(T)
    BY <1>0, <1>4
  <2>5. n(s) = Cardinality(T) /\ n(i + 1) = Cardinality(U)
    OBVIOUS
  <2>. HIDE DEF T, U, n
  <2>6. n(i + 1) = n(s) + 1
    BY <2>3, <2>4, <2>5, FS_AddElement
  <2>. QED
    BY <2>2, <2>6
<1>7. ASSUME i = N
      PROVE  /\ Valued(m) = IF m.lines[i].values = << >> THEN V(s) ELSE V(s) \union {s}
             /\ Cardinality(Starts(m)) = n(s) + 1
  <2>1. \A x : x \in Valued(m) => x \in 1 .. N /\ ~ x \in s + 1 .. N
    BY <1>0, <1>1, <1>2, <1>7
  <2>2. s \in Valued(m) <=> m.lines[i].values # << >>
    BY <1>3, <1>7
  <2>3. \A x : x \in Valued(m)
               <=> x \in (IF m.lines[i].values = << >> THEN V(s) ELSE V(s) \union {s})
    <3>. TAKE x
    <3>1. x \in Valued(m) => x \in Nat /\ (x = s \/ x < s)
      BY <1>0, <2>1
    <3>. QED
      BY <2>2, <3>1
  <2>4. Cardinality(Starts(m)) = n(s) + 1
    <3>. HIDE DEF n
    <3>. QED
      BY <1>0, <1>2, <1>5, <1>7
  <2>. HIDE DEF V, n
  <2>. QED
    BY <2>3, <2>4
<1>8. /\ V(s) \in SUBSET Starts(m) /\ \A j \in V(s) : j < s
  BY <1>1
<1>9. n(s) \in Nat /\ i + 1 \in Nat
  <2>1. s \in Nat /\ i + 1 \in Nat
    BY <1>0
  <2>. HIDE DEF n
  <2>. QED
    BY <1>4, <2>1
<1>10. n(i + 1) + 1 <= Cardinality(Starts(m))
  <2>. HIDE DEF n
  <2>. QED
    BY <1>5, <1>9
<1>11. \A k : ValuedBefore(m, k) = V(k) /\ Counted(m, k) = n(k)
  BY DEF ValuedBefore, Counted
<1>. HIDE DEF V, n
<1>. QED
  BY <1>0, <1>6, <1>7, <1>8, <1>9, <1>10, <1>11

(* Before the first line ends there are none.                               *)
LEMMA FirstStart ==
  ASSUME NEW m \in Messages, Len(m.lines) > 0
  PROVE  InGroup(m, 1, 1) /\ ValuedBefore(m, 1) = {} /\ Counted(m, 1) = 0
<1>1. 1 \in Starts(m) /\ Valued(m) \in SUBSET (1 .. Len(m.lines))
  BY StartsAre DEF Valued
<1>2. ValuedBefore(m, 1) = {}
  BY <1>1 DEF ValuedBefore
<1>3. Starts(m) \intersect (2 .. 1) = {}
  OBVIOUS
<1>. QED
  BY <1>1, <1>2, <1>3, GroupStart, FS_EmptySet DEF Counted

----------------------------------------------------------------------------
(* The head, while it is collected.  Nothing is known of headers before     *)
(* the first name; then the line the tokenizer is at belongs to the header  *)
(* that starts at s, those before it are in headers, and field and value    *)
(* have what was passed on of its names and values.                         *)

Untouched ==
  field = None /\ value = None /\ last = "FIELD" /\ num_headers = 0 /\ headers = << >>

Added(s) ==
  /\ num_headers = Counted(msg, s)
  /\ headers = HeadersFrom(msg, ValuedBefore(msg, s))

AtName(s) ==
  /\ at[2] = 0 /\ done > 0 /\ InGroup(msg, s, Line) /\ Added(s)
  /\ field = KeyFrom(NameSoFar(msg, s, Line, done)) /\ value = None /\ last = "FIELD"
AtValue(s) ==
  /\ at[2] > 0 /\ InGroup(msg, s, Line) /\ Added(s)
  /\ field = KeyFrom(Names(msg, s, Line))
  /\ IF at[2] = 1 /\ done = 0
     THEN last = "FIELD" /\ value = None
     ELSE last = "VALUE" /\ value = ValueSoFar(msg, Line, at[2], done)
AfterLine(s) ==
  /\ at[2] = 0 /\ done = 0 /\ InGroup(msg, s, Line - 1) /\ Added(s)
  /\ field = KeyFrom(Names(msg, s, Line - 1))
  /\ IF msg.lines[Line - 1].values = << >>
     THEN last = "FIELD" /\ value = None
     ELSE last = "VALUE" /\ value = Values(msg, Line - 1)

PathSoFar ==
  IF Line = 0 /\ done = 0 THEN path = None
  ELSE path # None /\ path.text = IF Line = 0 THEN SubSeq(msg.url, 1, done) ELSE msg.url
LinesSoFar ==
  \/ (Line = 0 \/ (Line = 1 /\ at[2] = 0 /\ done = 0)) /\ Untouched
  \/ Line > 0 /\ \E s \in Starts(msg) : AtName(s) \/ AtValue(s) \/ AfterLine(s)

(* Nothing passed on so far is beyond a limit.                              *)
LineFitsIn(m, i) ==
  /\ \A s \in Starts(m) : InGroup(m, s, i) => Len(KeyFrom(Names(m, s, i))) <= FieldSizeLimit
  /\ Len(Values(m, i)) <= FieldSizeLimit
Fits ==
  /\ num_headers <= FieldLimit
  /\ field # None => Len(field) <= FieldSizeLimit
  /\ value # None => Len(value) <= FieldSizeLimit
  /\ \A i \in DOMAIN msg.lines : i < Line => LineFitsIn(msg, i)

HeadFits(m) ==
  /\ Len(m.url) <= PathLimit
  /\ Cardinality(Starts(m)) <= FieldLimit + 1
  /\ \A i \in Starts(m) : Len(KeyOf(m, i)) <= FieldSizeLimit /\ Len(ValueOf(m, i)) <= FieldSizeLimit

HeadInv ==
  /\ phase = "head" => environ = None /\ PathSoFar /\ LinesSoFar /\ Fits
  /\ phase \in {"body", "complete", "calling"} => HeadFits(msg) /\ body_length = DeclaredLength
  /\ OutcomeOfMessage
  /\ environ # None => environ.target = set_path(msg.url) /\ headers = HeadersOf(msg)

(* The name the tokenizer is in, and its next piece.                        *)
LEMMA NameIs ==
  ASSUME DataInv, InName, NEW n \in 0 .. Left
  PROVE  LET name == msg.lines[Line].name
         IN  /\ msg \in Messages /\ Line \in 1 .. Len(msg.lines) /\ ~InEnd
             /\ name \in Seq(Char) /\ Len(name) \in Nat \ {0}
             /\ done \in 0 .. Len(name) /\ n \in 0 .. Len(name) - done
             /\ done + n \in 0 .. Len(name) /\ Left = Len(name) - done
             /\ Piece(n) = Between(name, done, done + n) /\ Piece(n) \in Seq(Char)
<1>1. msg \in Messages /\ Line \in 1 .. Len(msg.lines) /\ at[2] = 0 /\ phase = "head"
  BY DEF DataInv, Cursor, InName
<1>2. Len(msg.lines) \in Nat /\ Line \in Nat
  BY <1>1, LineTypes
<1>3. ~InEnd
  BY <1>1, <1>2 DEF InEnd
<1>. DEFINE name == msg.lines[Line].name
<1>4. name \in Seq(Char) /\ Len(name) \in Nat \ {0}
  BY <1>1, LineTypes
<1>5. Part = name
  BY <1>1, <1>2 DEF Part
<1>6. done \in 0 .. Len(name)
  BY <1>1, <1>3, <1>5, PartIsText DEF DataInv
<1>7. Left = Len(name) - done /\ Piece(n) = Between(name, done, done + n)
  BY <1>5 DEF Left, Piece, Between
<1>. HIDE DEF name
<1>8. /\ n \in 0 .. Len(name) - done /\ done + n \in 0 .. Len(name)
  BY <1>4, <1>6, <1>7
<1>9. Piece(n) \in Seq(Char)
  BY <1>1, <1>3, PieceIsText, TextIs DEF DataInv
<1>. QED
  BY <1>1, <1>3, <1>4, <1>6, <1>7, <1>8, <1>9 DEF name

(* Where the tokenizer gets to with a piece of a name.                      *)
LEMMA NamePass ==
  ASSUME DataInv, InName, NEW n \in 0 .. Left, NEW ends \in BOOLEAN, Cut(n, ends), Pass(n, ends)
  PROVE  /\ UNCHANGED <<msg, phase, code>>
         /\ IF ends
            THEN /\ done + n = Len(msg.lines[Line].name) /\ done' = 0
                 /\ IF msg.lines[Line].values = << >>
                    THEN Line' = Line + 1 /\ at'[2] = 0
                    ELSE Line' = Line /\ at'[2] = 1
            ELSE Line' = Line /\ at'[2] = 0 /\ done' = done + n
         /\ done + n > 0
<1>1. /\ msg \in Messages /\ Line \in 1 .. Len(msg.lines) /\ at[2] = 0
      /\ Len(msg.lines[Line].name) \in Nat \ {0}
      /\ done \in 0 .. Len(msg.lines[Line].name)
      /\ Left = Len(msg.lines[Line].name) - done
  BY NameIs DEF InName
<1>2. UNCHANGED <<msg, phase, code>>
  BY DEF Pass
<1>3. Line \in Nat /\ Line > 0 /\ Len(msg.lines) \in Nat
  BY <1>1, LineTypes
<1>4. msg.lines[Line].values \in Seq(Seq(Char))
  BY <1>1, LineTypes
<1>5. Len(msg.lines[Line].values) \in Nat
      /\ (Len(msg.lines[Line].values) = 0 <=> msg.lines[Line].values = << >>)
  BY <1>4, LenProperties, EmptySeq
<1>6. NextPart = IF msg.lines[Line].values = << >> THEN <<Line + 1, 0>> ELSE <<Line, 1>>
  BY <1>1, <1>3, <1>5 DEF NextPart
<1>7. CASE ends
  <2>1. n = Left /\ at' = NextPart /\ done' = 0
    BY <1>7 DEF Cut, Pass
  <2>2. done + n = Len(msg.lines[Line].name)
    BY <1>1, <2>1
  <2>3. IF msg.lines[Line].values = << >>
        THEN Line' = Line + 1 /\ at'[2] = 0
        ELSE Line' = Line /\ at'[2] = 1
    BY <1>6, <2>1 DEF Line
  <2>. QED
    BY <1>1, <1>2, <1>7, <2>1, <2>2, <2>3
<1>8. CASE ~ends
  <2>1. n \in 1 .. Left /\ at' = at /\ done' = done + n
    BY <1>8 DEF Cut, Pass
  <2>. QED
    BY <1>1, <1>2, <1>8, <2>1 DEF Line
<1>. QED
  BY <1>7, <1>8

(* A piece of a name that is passed on: the header has it, and the line     *)
(* fits if the name does.                                                   *)
LEMMA NameKept ==
  ASSUME DataInv, PathSoFar, Fits, InName, NEW n \in 0 .. Left, NEW ends \in BOOLEAN,
         Cut(n, ends), Pass(n, ends), path' = path,
         NEW s, InGroup(msg, s, Line),
         num_headers' = Counted(msg, s), headers' = HeadersFrom(msg, ValuedBefore(msg, s)),
         field' = KeyFrom(NameSoFar(msg, s, Line, done + n)), value' = None, last' = "FIELD",
         num_headers' <= FieldLimit, Len(field') <= FieldSizeLimit
  PROVE  PathSoFar' /\ LinesSoFar' /\ Fits'
<1>. DEFINE name == msg.lines[Line].name
            d == done + n
<1>1. /\ msg \in Messages /\ Line \in 1 .. Len(msg.lines) /\ Len(msg.lines) \in Nat
      /\ Len(name) \in Nat /\ d \in 0 .. Len(name) /\ Line \in Nat
  BY NameIs, LineTypes
<1>2. /\ msg' = msg /\ d > 0
      /\ IF ends
         THEN /\ d = Len(name) /\ done' = 0
              /\ IF msg.lines[Line].values = << >>
                 THEN Line' = Line + 1 /\ at'[2] = 0
                 ELSE Line' = Line /\ at'[2] = 1
         ELSE Line' = Line /\ at'[2] = 0 /\ done' = d
  BY NamePass
<1>3. s \in Starts(msg) /\ s \in 1 .. Len(msg.lines) /\ Line \in s .. Len(msg.lines)
  BY <1>1, GroupStop
<1>4. Line' # 0 /\ Line' > 0 /\ Line # 0
  BY <1>1, <1>2
<1>5. PathSoFar'
  BY <1>2, <1>4 DEF PathSoFar
<1>6. Added(s)'
  BY <1>2 DEF Added
<1>7. ends => field' = KeyFrom(Names(msg, s, Line))
  <2>1. NameSoFar(msg, s, Line, Len(msg.lines[Line].name)) = Names(msg, s, Line)
    BY <1>1, <1>3, NameSoFarIs
  <2>. QED
    BY <1>2, <2>1
<1>. HIDE DEF d
<1>8. LinesSoFar' /\ \A i \in 1 .. Len(msg.lines) : i < Line' => LineFitsIn(msg, i)
  <2>0. \A i \in 1 .. Len(msg.lines) : i < Line => LineFitsIn(msg, i)
    BY <1>1, LineTypes DEF Fits
  <2>1. CASE ~ends
    <3>1. AtName(s)'
      BY <1>2, <1>6, <2>1 DEF AtName, d
    <3>. QED
      BY <1>2, <1>3, <1>4, <2>0, <2>1, <3>1 DEF LinesSoFar
  <2>2. CASE ends /\ msg.lines[Line].values # << >>
    <3>1. AtValue(s)'
      BY <1>2, <1>6, <1>7, <2>2 DEF AtValue
    <3>. QED
      BY <1>2, <1>3, <1>4, <2>0, <2>2, <3>1 DEF LinesSoFar
  <2>3. CASE ends /\ msg.lines[Line].values = << >>
    <3>1. Line' = Line + 1 /\ Line' - 1 = Line /\ at'[2] = 0 /\ done' = 0
      BY <1>1, <1>2, <2>3
    <3>2. AfterLine(s)'
      BY <1>2, <1>6, <1>7, <2>3, <3>1 DEF AfterLine
    <3>3. LineFitsIn(msg, Line)
      <4>1. \A r \in Starts(msg) : InGroup(msg, r, Line) => r = s
        BY <1>1, GroupOne
      <4>2. Len(KeyFrom(Names(msg, s, Line))) <= FieldSizeLimit
        BY <1>7, <2>3
      <4>3. Values(msg, Line) = << >>
        BY <2>3, FlattenEmpty DEF Values
      <4>4. Len(<< >>) <= FieldSizeLimit
        BY RequestAssumption
      <4>. QED
        BY <4>1, <4>2, <4>3, <4>4 DEF LineFitsIn
    <3>4. \A i \in 1 .. Len(msg.lines) : i < Line' => i < Line \/ i = Line
      BY <1>1, <3>1
    <3>. QED
      BY <1>2, <1>3, <1>4, <2>0, <3>2, <3>3, <3>4 DEF LinesSoFar
  <2>. QED
    BY <2>1, <2>2, <2>3
<1>9. Fits'
  <2>1. DOMAIN msg.lines = 1 .. Len(msg.lines)
    BY <1>1, LineTypes
  <2>. QED
    BY <1>2, <1>8, <2>1 DEF Fits
<1>. QED
  BY <1>5, <1>8, <1>9

(* A name or a value that is too long is too long in the message; lines     *)
(* that are too many are so there.                                          *)
LEMMA NameTooLong ==
  ASSUME NEW m \in Messages, NEW s, NEW i, InGroup(m, s, i),
         NEW d \in 0 .. Len(m.lines[i].name),
         Len(KeyFrom(NameSoFar(m, s, i, d))) > FieldSizeLimit
  PROVE  Verdict(m) = 400
<1>1. /\ s \in Starts(m) /\ s \in 1 .. Len(m.lines) /\ i \in s .. Len(m.lines)
      /\ InGroup(m, s, Stop(m, s)) /\ i <= Stop(m, s)
  BY GroupStop
<1>. DEFINE e == Stop(m, s)
<1>2. e \in s .. Len(m.lines)
  BY <1>1, GroupStop
<1>3. e \in i .. Len(m.lines) /\ Len(m.lines) \in Nat
  BY <1>1, <1>2, LineTypes
<1>. HIDE DEF e
<1>4. /\ NameSoFar(m, s, i, d) \in Seq(Char)
      /\ Len(NameSoFar(m, s, i, d)) <= Len(Names(m, s, i))
  BY <1>1, NameSoFarIs
<1>5. Len(Names(m, s, i)) <= Len(Names(m, s, e))
  BY <1>1, <1>3, NamesGrow
<1>6. Names(m, s, i) \in Seq(Char) /\ Names(m, s, e) \in Seq(Char)
  BY <1>1, <1>2, NamesAre
<1>7. /\ Len(KeyFrom(NameSoFar(m, s, i, d))) = 5 + Len(NameSoFar(m, s, i, d))
      /\ Len(KeyFrom(Names(m, s, e))) = 5 + Len(Names(m, s, e))
  BY <1>4, <1>6, KeyFromIs
<1>8. /\ Len(NameSoFar(m, s, i, d)) \in Nat /\ Len(Names(m, s, e)) \in Nat
      /\ Len(Names(m, s, i)) \in Nat /\ FieldSizeLimit \in Nat
  BY <1>4, <1>6, LenProperties, RequestAssumption
<1>9. Len(KeyFrom(Names(m, s, e))) > FieldSizeLimit
  BY <1>4, <1>5, <1>7, <1>8
<1>10. KeyOf(m, s) = KeyFrom(Names(m, s, e))
  BY <1>1, HeaderIs DEF e
<1>. QED
  BY <1>1, <1>9, <1>10 DEF Verdict

(* A value beyond the limit is one the message is refused for.              *)
LEMMA ValueTooLong ==
  ASSUME NEW m \in Messages, NEW s, NEW i, InGroup(m, s, i),
         NEW j \in 1 .. Len(m.lines[i].values), NEW d \in 0 .. Len(m.lines[i].values[j]),
         Len(ValueSoFar(m, i, j, d)) > FieldSizeLimit
  PROVE  Verdict(m) = 400
<1>1. s \in Starts(m) /\ i \in 1 .. Len(m.lines)
  BY GroupStop
<1>2. m.lines[i].values # << >>
  BY EmptySeq
<1>3. Stop(m, s) = i
  BY <1>2, GroupStop
<1>4. /\ ValueSoFar(m, i, j, d) \in Seq(Char)
      /\ Len(ValueSoFar(m, i, j, d)) <= Len(Values(m, i))
  BY <1>1, ValueSoFarIs
<1>5. ValueOf(m, s) = Values(m, i) /\ ValueOf(m, s) \in Seq(Char)
  BY <1>1, <1>3, HeaderIs
<1>6. Len(ValueSoFar(m, i, j, d)) \in Nat /\ Len(ValueOf(m, s)) \in Nat /\ FieldSizeLimit \in Nat
  BY <1>4, <1>5, LenProperties, RequestAssumption
<1>7. Len(ValueOf(m, s)) > FieldSizeLimit
  BY <1>4, <1>5, <1>6
<1>. QED
  BY <1>1, <1>7 DEF Verdict

(* A header beyond the limit of their number is one the message is refused  *)
(* for.                                                                     *)
LEMMA TooMany ==
  ASSUME NEW m \in Messages, NEW s, NEW i, InGroup(m, s, i), i < Len(m.lines),
         m.lines[i].values # << >>, FieldLimit <= Counted(m, s)
  PROVE  Verdict(m) = 400
<1>1. /\ Counted(m, s) \in Nat /\ Counted(m, i + 1) = Counted(m, s) + 1
      /\ Counted(m, i + 1) + 1 <= Cardinality(Starts(m))
  BY NextStart
<1>2. Cardinality(Starts(m)) \in Nat
  <2>1. Starts(m) \in SUBSET (1 .. Len(m.lines)) /\ Len(m.lines) \in Nat
    BY StartsAre, LineTypes
  <2>2. Starts(m) \in SUBSET Nat /\ \A x \in Starts(m) : x < Len(m.lines) + 1
    BY <2>1
  <2>3. Len(m.lines) + 1 \in Nat
    BY <2>1
  <2>. QED
    BY <2>2, <2>3, RankExists
<1>3. Cardinality(Starts(m)) > FieldLimit + 1
  BY <1>1, <1>2, RequestAssumption
<1>. QED
  BY <1>3 DEF Verdict

(* What a step of the head has to show.                                     *)
LEMMA HeadGoesOn ==
  ASSUME HeadInv, phase = "head", UNCHANGED <<msg, environ>>,
         \/ phase' = "head" /\ PathSoFar' /\ LinesSoFar' /\ Fits'
         \/ phase' = "refused" /\ code' = Verdict(msg)
  PROVE  HeadInv'
BY DEF HeadInv, OutcomeOfMessage

(* The name of the next header: the one before is added whole.              *)
LEMMA NewNameHead ==
  ASSUME DataInv, HeadInv, NEW n \in 0 .. Left, NEW ends \in BOOLEAN, header_field_cb(n, ends)
  PROVE  HeadInv'
<1>. DEFINE i == Line - 1
<1>1. /\ InName /\ phase = "head" /\ at[2] = 0 /\ last = "VALUE" /\ Cut(n, ends)
      /\ UNCHANGED <<path, environ>>
  BY DEF header_field_cb, InName
<1>2. /\ msg \in Messages /\ Line \in 1 .. Len(msg.lines) /\ Line \in Nat /\ Len(msg.lines) \in Nat
      /\ i + 1 = Line /\ i < Len(msg.lines)
  BY <1>1, NameIs, LineTypes
<1>3. PathSoFar /\ LinesSoFar /\ Fits
  BY <1>1 DEF HeadInv
<1>4. PICK s \in Starts(msg) : AfterLine(s)
  BY <1>1, <1>3 DEF LinesSoFar, Untouched, AtName, AtValue
<1>5. /\ done = 0 /\ InGroup(msg, s, i) /\ Added(s)
      /\ field = KeyFrom(Names(msg, s, i))
      /\ msg.lines[i].values # << >> /\ value = Values(msg, i)
  BY <1>1, <1>4 DEF AfterLine
<1>. HIDE DEF i
<1>6. /\ ValuedBefore(msg, s) \in SUBSET Starts(msg)
      /\ \A j \in ValuedBefore(msg, s) : j < s
      /\ ValuedBefore(msg, i + 1) = ValuedBefore(msg, s) \union {s}
      /\ Counted(msg, i + 1) = Counted(msg, s) + 1 /\ Counted(msg, s) \in Nat
  BY <1>2, <1>5, NextStart
<1>7. InGroup(msg, Line, Line)
  BY <1>2, <1>5, GroupNext
<1>8. field = KeyOf(msg, s) /\ value = ValueOf(msg, s)
  <2>1. Stop(msg, s) = i
    BY <1>2, <1>5, GroupStop
  <2>. QED
    BY <1>2, <1>5, <2>1, HeaderIs
<1>9. HeadersFrom(msg, ValuedBefore(msg, Line)) = WithHeader(headers, field, value)
      /\ Counted(msg, Line) = num_headers + 1 /\ num_headers \in Nat
  <2>1. HeadersFrom(msg, ValuedBefore(msg, s) \union {s})
          = WithHeader(HeadersFrom(msg, ValuedBefore(msg, s)), KeyOf(msg, s), ValueOf(msg, s))
    BY <1>2, <1>6, HeadersAdd
  <2>2. headers = HeadersFrom(msg, ValuedBefore(msg, s)) /\ num_headers = Counted(msg, s)
    BY <1>5 DEF Added
  <2>. QED
    BY <1>2, <1>6, <1>8, <2>1, <2>2
<1>. DEFINE name == Prefix \o key_upper(Piece(n))
<1>10. /\ name = KeyFrom(NameSoFar(msg, Line, Line, done + n))
       /\ done + n \in 0 .. Len(msg.lines[Line].name)
  <2>1. /\ Piece(n) = Between(msg.lines[Line].name, 0, n) /\ 0 + n = n /\ done + n = n
        /\ n \in 0 .. Len(msg.lines[Line].name) - 0
        /\ 0 \in 0 .. Len(msg.lines[Line].name) /\ n \in 0 .. Len(msg.lines[Line].name)
        /\ Piece(n) \in Seq(Char)
    BY <1>1, <1>5, NameIs
  <2>2. Line \in Line .. Len(msg.lines)
    BY <1>2
  <2>3. NameSoFar(msg, Line, Line, 0) = << >>
    BY <1>2, <2>1, <2>2, NameSoFarIs
  <2>4. NameSoFar(msg, Line, Line, 0) \o Between(msg.lines[Line].name, 0, 0 + n)
          = NameSoFar(msg, Line, Line, 0 + n)
    BY <1>2, <2>1, <2>2, NameSoFarIs
  <2>5. << >> \o Piece(n) = Piece(n)
    BY <2>1, ConcatEmptySeq
  <2>. QED
    BY <2>1, <2>3, <2>4, <2>5 DEF KeyFrom
<1>11. CASE FieldLimit <= num_headers
  <2>1. Refuse(400)
    BY <1>11 DEF header_field_cb
  <2>2. Verdict(msg) = 400
    BY <1>2, <1>5, <1>11, TooMany DEF Added
  <2>. QED
    BY <1>1, <2>1, <2>2, HeadGoesOn DEF Refuse, sent
<1>12. CASE ~ (FieldLimit <= num_headers)
  <2>1. /\ headers' = WithHeader(headers, field, value) /\ num_headers' = num_headers + 1
        /\ value' = None
        /\ IF Len(name) > FieldSizeLimit
           THEN Refuse(400) /\ field' = None /\ last' = last
           ELSE Pass(n, ends) /\ field' = name /\ last' = "FIELD"
    BY <1>12 DEF header_field_cb, add_header
  <2>2. CASE Len(name) > FieldSizeLimit
    <3>1. Verdict(msg) = 400
      BY <1>2, <1>7, <1>10, <2>2, NameTooLong
    <3>. QED
      BY <1>1, <2>1, <2>2, <3>1, HeadGoesOn DEF Refuse, sent
  <2>3. CASE ~ (Len(name) > FieldSizeLimit)
    <3>. HIDE DEF name
    <3>1. name \in Seq(Char)
      <4>1. Line \in Line .. Len(msg.lines)
        BY <1>2
      <4>2. NameSoFar(msg, Line, Line, done + n) \in Seq(Char)
        BY <1>2, <1>10, <4>1, NameSoFarIs
      <4>. QED
        BY <1>10, <4>2, KeyFromIs
    <3>2. Len(name) <= FieldSizeLimit
      BY <2>3, <3>1, LenProperties, RequestAssumption
    <3>3. num_headers + 1 <= FieldLimit
      BY <1>9, <1>12, RequestAssumption
    <3>4. /\ headers' = HeadersFrom(msg, ValuedBefore(msg, Line))
          /\ num_headers' = Counted(msg, Line) /\ num_headers' <= FieldLimit
          /\ field' = KeyFrom(NameSoFar(msg, Line, Line, done + n))
          /\ Len(field') <= FieldSizeLimit
          /\ value' = None /\ last' = "FIELD" /\ Pass(n, ends) /\ path' = path
      BY <1>1, <1>9, <1>10, <2>1, <2>3, <3>2, <3>3
    <3>5. PathSoFar' /\ LinesSoFar' /\ Fits'
      BY <1>1, <1>3, <1>7, <3>4, NameKept
    <3>. QED
      BY <1>1, <3>4, <3>5, HeadGoesOn DEF Pass
  <2>. QED
    BY <2>2, <2>3
<1>. QED
  BY <1>11, <1>12

(* Which header the next piece of a name goes to.                           *)
LEMMA NameOpen ==
  ASSUME DataInv, LinesSoFar, InName, last = "FIELD"
  PROVE  /\ value = None
         /\ \E s \in 1 .. Line :
              /\ InGroup(msg, s, Line) /\ Added(s)
              /\ (IF field = None THEN Prefix ELSE field) = KeyFrom(NameSoFar(msg, s, Line, done))
<1>1. /\ msg \in Messages /\ Line \in 1 .. Len(msg.lines) /\ Line \in Nat /\ Len(msg.lines) \in Nat
      /\ at[2] = 0 /\ Len(msg.lines[Line].name) \in Nat /\ 0 \in 0 .. Len(msg.lines[Line].name)
      /\ done \in 0 .. Len(msg.lines[Line].name)
  <2>1. 0 \in 0 .. Left
    <3>1. ~InEnd
      BY LineTypes DEF InEnd, InName, DataInv, Cursor
    <3>. QED
      BY <3>1, PartIsText DEF InName, DataInv, Left
  <2>. QED
    BY <2>1, NameIs, LineTypes DEF InName
<1>2. CASE Untouched /\ Line = 1 /\ done = 0
  <2>1. InGroup(msg, 1, 1) /\ ValuedBefore(msg, 1) = {} /\ Counted(msg, 1) = 0
    BY <1>1, FirstStart
  <2>2. Added(1)
    BY <1>2, <2>1, HeadersNone DEF Added, Untouched
  <2>3. 1 \in 1 .. Len(msg.lines) /\ 1 \in 1 .. 1
    BY <1>1
  <2>4. NameSoFar(msg, 1, 1, 0) = << >>
    BY <1>1, <1>2, <2>3, NameSoFarIs
  <2>. QED
    BY <1>2, <2>1, <2>2, <2>3, <2>4, KeyFromNone DEF Untouched
<1>3. CASE \E s \in Starts(msg) : AtName(s) \/ AtValue(s) \/ AfterLine(s)
  <2>1. PICK s \in Starts(msg) : AtName(s) \/ AfterLine(s)
    BY <1>1, <1>3 DEF AtValue
  <2>2. CASE AtName(s)
    <3>1. /\ InGroup(msg, s, Line) /\ Added(s) /\ value = None
          /\ field = KeyFrom(NameSoFar(msg, s, Line, done))
      BY <2>2 DEF AtName
    <3>2. s \in 1 .. Line /\ Line \in s .. Len(msg.lines) /\ s \in 1 .. Len(msg.lines)
      BY <1>1, <3>1, GroupStop
    <3>3. field \in Seq(Char)
      BY <1>1, <3>1, <3>2, NameSoFarIs, KeyFromIs
    <3>4. field # None
      BY <3>3, TextIs, RequestAssumption
    <3>. QED
      BY <3>1, <3>2, <3>4
  <2>3. CASE AfterLine(s)
    <3>. DEFINE i == Line - 1
    <3>1. /\ InGroup(msg, s, i) /\ Added(s) /\ done = 0
          /\ field = KeyFrom(Names(msg, s, i))
          /\ msg.lines[i].values = << >> /\ value = None
      BY <2>3 DEF AfterLine
    <3>2. i + 1 = Line /\ i < Len(msg.lines) /\ i = Line - 1 /\ i \in Int
      BY <1>1
    <3>. HIDE DEF i
    <3>3. InGroup(msg, s, Line)
      BY <1>1, <3>1, <3>2, GroupNext
    <3>4. s \in 1 .. i /\ i \in s .. Len(msg.lines) /\ s \in 1 .. Len(msg.lines)
      BY <1>1, <3>1, GroupStop
    <3>5. Line # s /\ Line \in s .. Len(msg.lines) /\ s \in 1 .. Line
      BY <1>1, <3>2, <3>4
    <3>6. NameSoFar(msg, s, Line, 0) = Names(msg, s, i)
      BY <1>1, <3>2, <3>4, <3>5, NameSoFarIs
    <3>7. field \in Seq(Char)
      BY <1>1, <3>1, <3>4, NamesAre, KeyFromIs
    <3>8. field # None
      BY <3>7, TextIs, RequestAssumption
    <3>. QED
      BY <3>1, <3>3, <3>5, <3>6, <3>8
  <2>. QED
    BY <2>1, <2>2, <2>3
<1>. QED
  BY <1>1, <1>2, <1>3 DEF LinesSoFar

(* header_field_cb with a later piece of a name, or a name that goes on     *)
(* after a line without a value.                                            *)
LEMMA MoreNameHead ==
  ASSUME DataInv, HeadInv, NEW n \in 0 .. Left, NEW ends \in BOOLEAN, MoreName(n, ends)
  PROVE  HeadInv'
<1>. DEFINE name == (IF field = None THEN Prefix ELSE field) \o key_upper(Piece(n))
<1>1. /\ InName /\ phase = "head" /\ at[2] = 0 /\ last = "FIELD" /\ Cut(n, ends)
      /\ UNCHANGED <<path, value, last, num_headers, headers, environ>>
      /\ IF Len(name) > FieldSizeLimit
         THEN Refuse(400) ELSE Pass(n, ends) /\ field' = name
  BY DEF MoreName, InName
<1>2. /\ msg \in Messages /\ Line \in 1 .. Len(msg.lines) /\ Line \in Nat
      /\ done \in 0 .. Len(msg.lines[Line].name) /\ n \in 0 .. Len(msg.lines[Line].name) - done
      /\ done + n \in 0 .. Len(msg.lines[Line].name)
      /\ Piece(n) = Between(msg.lines[Line].name, done, done + n) /\ Piece(n) \in Seq(Char)
  BY <1>1, NameIs, LineTypes
<1>3. PathSoFar /\ LinesSoFar /\ Fits
  BY <1>1 DEF HeadInv
<1>4. value = None
  BY <1>1, <1>3, NameOpen
<1>5. PICK s \in 1 .. Line :
        /\ InGroup(msg, s, Line) /\ Added(s)
        /\ (IF field = None THEN Prefix ELSE field) = KeyFrom(NameSoFar(msg, s, Line, done))
  BY <1>1, <1>3, NameOpen
<1>6. s \in 1 .. Len(msg.lines) /\ Line \in s .. Len(msg.lines)
  BY <1>2, <1>5, GroupStop
<1>7. /\ NameSoFar(msg, s, Line, done) \in Seq(Char)
      /\ NameSoFar(msg, s, Line, done + n) \in Seq(Char)
      /\ NameSoFar(msg, s, Line, done) \o Piece(n) = NameSoFar(msg, s, Line, done + n)
  <2>1. /\ NameSoFar(msg, s, Line, done) \in Seq(Char)
        /\ \A k \in 0 .. Len(msg.lines[Line].name) - done :
             NameSoFar(msg, s, Line, done) \o Between(msg.lines[Line].name, done, done + k)
               = NameSoFar(msg, s, Line, done + k)
    BY <1>2, <1>6, NameSoFarIs
  <2>2. NameSoFar(msg, s, Line, done + n) \in Seq(Char)
    BY <1>2, <1>6, NameSoFarIs
  <2>. QED
    BY <1>2, <2>1, <2>2
<1>8. KeyFrom(NameSoFar(msg, s, Line, done)) \o key_upper(Piece(n))
        = KeyFrom(NameSoFar(msg, s, Line, done) \o Piece(n))
  BY <1>2, <1>7, KeyFromMore
<1>9. name = KeyFrom(NameSoFar(msg, s, Line, done + n))
  BY <1>5, <1>7, <1>8
<1>10. name \in Seq(Char)
  BY <1>7, <1>9, KeyFromIs
<1>. HIDE DEF name
<1>11. CASE Len(name) > FieldSizeLimit
  <2>1. Verdict(msg) = 400
    BY <1>2, <1>5, <1>9, <1>11, NameTooLong
  <2>. QED
    BY <1>1, <1>11, <2>1, HeadGoesOn DEF Refuse, sent
<1>12. CASE ~ (Len(name) > FieldSizeLimit)
  <2>1. Len(name) <= FieldSizeLimit
    BY <1>10, <1>12, LenProperties, RequestAssumption
  <2>2. /\ num_headers' = Counted(msg, s) /\ headers' = HeadersFrom(msg, ValuedBefore(msg, s))
        /\ num_headers' <= FieldLimit
        /\ field' = KeyFrom(NameSoFar(msg, s, Line, done + n)) /\ Len(field') <= FieldSizeLimit
        /\ value' = None /\ last' = "FIELD" /\ Pass(n, ends) /\ path' = path
    BY <1>1, <1>3, <1>4, <1>5, <1>9, <1>12, <2>1 DEF Added, Fits
  <2>3. PathSoFar' /\ LinesSoFar' /\ Fits'
    BY <1>1, <1>3, <1>5, <2>2, NameKept
  <2>. QED
    BY <1>1, <2>2, <2>3, HeadGoesOn DEF Pass
<1>. QED
  BY <1>11, <1>12

(* The value the tokenizer is in, and its next piece.                       *)
LEMMA ValueIs ==
  ASSUME DataInv, phase = "head", ~InEnd, Line > 0, at[2] > 0, NEW n \in 0 .. Left
  PROVE  LET v == msg.lines[Line].values
             j == at[2]
         IN  /\ msg \in Messages /\ Line \in 1 .. Len(msg.lines) /\ Line \in Nat
             /\ j \in 1 .. Len(v) /\ Len(v) \in Nat /\ Len(v[j]) \in Nat
             /\ done \in 0 .. Len(v[j]) /\ n \in 0 .. Len(v[j]) - done
             /\ done + n \in 0 .. Len(v[j]) /\ Left = Len(v[j]) - done
             /\ Piece(n) = Between(v[j], done, done + n) /\ Piece(n) \in Seq(Char)
<1>. DEFINE v == msg.lines[Line].values
            j == at[2]
<1>1. msg \in Messages /\ Line \in 1 .. Len(msg.lines) /\ Line \in Nat /\ j \in Nat
  BY LineParts DEF DataInv, TypeOK, Cursor, InEnd, Line
<1>2. j <= Len(v)
  BY <1>1 DEF DataInv, Cursor
<1>3. v \in Seq(Seq(Char))
  BY <1>1, LineTypes
<1>4. Len(v) \in Nat
  BY <1>3, LenProperties
<1>5. j \in 1 .. Len(v)
  BY <1>1, <1>2, <1>4
<1>6. Part = v[j]
  BY <1>1, <1>5 DEF Part
<1>7. Left = Len(v[j]) - done /\ Piece(n) = Between(v[j], done, done + n)
  BY <1>6 DEF Left, Piece, Between
<1>8. done \in 0 .. Len(v[j]) /\ Len(v[j]) \in Nat
  BY <1>6, PartIsText DEF DataInv
<1>9. Piece(n) \in Seq(Char)
  BY PieceIsText, TextIs DEF DataInv
<1>. HIDE DEF v, j
<1>10. n \in 0 .. Len(v[j]) - done /\ done + n \in 0 .. Len(v[j])
  BY <1>7, <1>8
<1>. QED
  BY <1>1, <1>4, <1>5, <1>7, <1>8, <1>9, <1>10 DEF v, j

(* Where the tokenizer gets to with a piece of a value.                     *)
LEMMA ValuePass ==
  ASSUME DataInv, phase = "head", ~InEnd, Line > 0, at[2] > 0,
         NEW n \in 0 .. Left, NEW ends \in BOOLEAN, Cut(n, ends), Pass(n, ends)
  PROVE  LET v == msg.lines[Line].values
             j == at[2]
         IN  /\ UNCHANGED <<msg, phase, code>>
             /\ IF ends
                THEN /\ done + n = Len(v[j]) /\ done' = 0
                     /\ IF j = Len(v)
                        THEN Line' = Line + 1 /\ at'[2] = 0
                        ELSE Line' = Line /\ at'[2] = j + 1
                ELSE Line' = Line /\ at'[2] = j /\ done' = done + n /\ done + n > 0
<1>. DEFINE v == msg.lines[Line].values
            j == at[2]
<1>1. /\ Line \in Nat /\ j \in 1 .. Len(v) /\ Len(v) \in Nat /\ Len(v[j]) \in Nat
      /\ done \in 0 .. Len(v[j]) /\ Left = Len(v[j]) - done
  BY ValueIs
<1>2. UNCHANGED <<msg, phase, code>>
  BY DEF Pass
<1>3. NextPart = IF j = Len(v) THEN <<Line + 1, 0>> ELSE <<Line, j + 1>>
  BY <1>1 DEF NextPart
<1>4. CASE ends
  <2>1. n = Left /\ at' = NextPart /\ done' = 0
    BY <1>4 DEF Cut, Pass
  <2>2. done + n = Len(v[j])
    BY <1>1, <2>1
  <2>3. IF j = Len(v) THEN Line' = Line + 1 /\ at'[2] = 0 ELSE Line' = Line /\ at'[2] = j + 1
    BY <1>3, <2>1 DEF Line
  <2>. QED
    BY <1>2, <1>4, <2>1, <2>2, <2>3
<1>5. CASE ~ends
  <2>1. n \in 1 .. Left /\ at' = at /\ done' = done + n
    BY <1>5 DEF Cut, Pass
  <2>2. done + n > 0
    BY <1>1, <2>1
  <2>. QED
    BY <1>2, <1>5, <2>1, <2>2 DEF Line
<1>. QED
  BY <1>4, <1>5

(* header_value_cb with any piece of a value.                               *)
LEMMA ValueHead ==
  ASSUME DataInv, HeadInv, ~InEnd, NEW n \in 0 .. Left, NEW ends \in BOOLEAN,
         header_value_cb(n, ends)
  PROVE  HeadInv'
<1>. DEFINE v == msg.lines[Line].values
            j == at[2]
            val == (IF value = None THEN << >> ELSE value) \o Piece(n)
            d == done + n
<1>1. /\ phase = "head" /\ Line > 0 /\ at[2] > 0 /\ Cut(n, ends)
      /\ UNCHANGED <<path, field, num_headers, headers, environ>>
      /\ IF Len(val) > FieldSizeLimit
         THEN Refuse(400) ELSE Pass(n, ends) /\ value' = val /\ last' = "VALUE"
  BY DEF header_value_cb
<1>2. PathSoFar /\ LinesSoFar /\ Fits
  BY <1>1 DEF HeadInv
<1>3. /\ msg \in Messages /\ Line \in 1 .. Len(msg.lines) /\ Line \in Nat
      /\ j \in 1 .. Len(v) /\ Len(v) \in Nat /\ Len(v[j]) \in Nat
      /\ done \in 0 .. Len(v[j]) /\ n \in 0 .. Len(v[j]) - done
      /\ d \in 0 .. Len(v[j])
      /\ Piece(n) = Between(v[j], done, d) /\ Piece(n) \in Seq(Char)
  BY <1>1, ValueIs
<1>4. PICK s \in Starts(msg) : AtValue(s)
  <2>1. Line > 0 /\ at[2] > 0 /\ at[2] # 0
    BY <1>1, <1>3
  <2>. QED
    BY <1>2, <2>1 DEF LinesSoFar, AtName, AfterLine
<1>5. /\ InGroup(msg, s, Line) /\ Added(s) /\ field = KeyFrom(Names(msg, s, Line))
      /\ IF j = 1 /\ done = 0 THEN value = None ELSE value = ValueSoFar(msg, Line, j, done)
  BY <1>4 DEF AtValue
<1>6. /\ ValueSoFar(msg, Line, j, done) \in Seq(Char)
      /\ ValueSoFar(msg, Line, 1, 0) = << >>
      /\ ValueSoFar(msg, Line, j, done) \o Between(v[j], done, d) = ValueSoFar(msg, Line, j, d)
  <2>1. /\ ValueSoFar(msg, Line, j, done) \in Seq(Char)
        /\ ValueSoFar(msg, Line, 1, 0) = << >>
        /\ \A k \in 0 .. Len(v[j]) - done :
             ValueSoFar(msg, Line, j, done) \o Between(v[j], done, done + k)
               = ValueSoFar(msg, Line, j, done + k)
    BY <1>3, ValueSoFarIs
  <2>. QED
    BY <1>3, <2>1
<1>7. /\ ValueSoFar(msg, Line, j, d) \in Seq(Char)
      /\ ValueSoFar(msg, Line, j, Len(v[j])) =
           IF j = Len(v) THEN Values(msg, Line) ELSE ValueSoFar(msg, Line, j + 1, 0)
  BY <1>3, ValueSoFarIs
<1>8. val = ValueSoFar(msg, Line, j, d)
  <2>1. CASE j = 1 /\ done = 0
    BY <1>3, <1>5, <1>6, <2>1
  <2>2. CASE ~ (j = 1 /\ done = 0)
    <3>1. value # None
      BY <1>5, <1>6, <2>2, TextIs, RequestAssumption
    <3>. QED
      BY <1>3, <1>5, <1>6, <2>2, <3>1
  <2>. QED
    BY <2>1, <2>2
<1>. HIDE DEF val
<1>9. CASE Len(val) > FieldSizeLimit
  <2>1. Verdict(msg) = 400
    BY <1>3, <1>5, <1>8, <1>9, ValueTooLong
  <2>. QED
    BY <1>1, <1>9, <2>1, HeadGoesOn DEF Refuse, sent
<1>10. CASE ~ (Len(val) > FieldSizeLimit)
  <2>1. Pass(n, ends) /\ value' = val /\ last' = "VALUE" /\ Len(val) <= FieldSizeLimit
    BY <1>1, <1>7, <1>8, <1>10, LenProperties, RequestAssumption
  <2>2. /\ msg' = msg /\ phase' = phase
        /\ IF ends
           THEN /\ d = Len(v[j]) /\ done' = 0
                /\ IF j = Len(v)
                   THEN Line' = Line + 1 /\ at'[2] = 0
                   ELSE Line' = Line /\ at'[2] = j + 1
           ELSE Line' = Line /\ at'[2] = j /\ done' = d /\ d > 0
    BY <1>1, <2>1, ValuePass
  <2>. HIDE DEF v, j, d
  <2>3. Line' # 0 /\ Line' > 0 /\ Line # 0
    BY <1>3, <2>2
  <2>4. PathSoFar'
    BY <1>1, <1>2, <2>2, <2>3 DEF PathSoFar
  <2>5. Added(s)'
    BY <1>1, <1>5, <2>2 DEF Added
  <2>6. \A i \in 1 .. Len(msg.lines) : i < Line => LineFitsIn(msg, i)
    BY <1>2, <1>3, LineTypes DEF Fits
  <2>7. v # << >>
    BY <1>3
  <2>8. LinesSoFar' /\ \A i \in 1 .. Len(msg.lines) : i < Line' => LineFitsIn(msg, i)
    <3>1. CASE ~ends
      <4>1. AtValue(s)'
        BY <1>1, <1>3, <1>5, <1>8, <2>1, <2>2, <2>5, <3>1 DEF AtValue
      <4>. QED
        BY <2>2, <2>3, <2>6, <3>1, <4>1 DEF LinesSoFar
    <3>2. CASE ends /\ j # Len(v)
      <4>1. val = ValueSoFar(msg, Line, j + 1, 0) /\ j + 1 > 0 /\ j + 1 # 1
        BY <1>3, <1>7, <1>8, <2>2, <3>2
      <4>2. AtValue(s)'
        BY <1>1, <1>5, <2>1, <2>2, <2>5, <3>2, <4>1 DEF AtValue
      <4>. QED
        BY <2>2, <2>3, <2>6, <3>2, <4>2 DEF LinesSoFar
    <3>3. CASE ends /\ j = Len(v)
      <4>1. val = Values(msg, Line) /\ Line' - 1 = Line /\ Line' = Line + 1
        BY <1>3, <1>7, <1>8, <2>2, <3>3
      <4>2. AfterLine(s)'
        BY <1>1, <1>5, <2>1, <2>2, <2>5, <2>7, <3>3, <4>1 DEF AfterLine, v
      <4>3. LineFitsIn(msg, Line)
        <5>1. \A r \in Starts(msg) : InGroup(msg, r, Line) => r = s
          BY <1>3, <1>5, GroupOne
        <5>2. Len(KeyFrom(Names(msg, s, Line))) <= FieldSizeLimit
          <6>1. field # None
            <7>1. s \in 1 .. Len(msg.lines) /\ Line \in s .. Len(msg.lines)
              BY <1>3, <1>5, GroupStop
            <7>2. field \in Seq(Char)
              BY <1>3, <1>5, <7>1, NamesAre, KeyFromIs
            <7>. QED
              BY <7>2, TextIs, RequestAssumption
          <6>. QED
            BY <1>2, <1>5, <6>1 DEF Fits
        <5>. QED
          BY <2>1, <4>1, <5>1, <5>2 DEF LineFitsIn
      <4>4. \A i \in 1 .. Len(msg.lines) : i < Line' => i < Line \/ i = Line
        BY <1>3, <4>1
      <4>. QED
        BY <2>2, <2>3, <2>6, <4>2, <4>3, <4>4 DEF LinesSoFar
    <3>. QED
      BY <3>1, <3>2, <3>3
  <2>9. Fits'
    <3>1. DOMAIN msg.lines = 1 .. Len(msg.lines)
      BY <1>3, LineTypes
    <3>. QED
      BY <1>1, <1>2, <2>1, <2>2, <2>8, <3>1 DEF Fits
  <2>. QED
    BY <1>1, <2>2, <2>4, <2>8, <2>9, HeadGoesOn DEF Pass
<1>. QED
  BY <1>9, <1>10

(* The target.                                                              *)
LEMMA UrlHead ==
  ASSUME DataInv, HeadInv, ~InEnd, NEW n \in 0 .. Left, NEW ends \in BOOLEAN, url_cb(n, ends)
  PROVE  HeadInv'
<1>. DEFINE buf == IF path = None THEN new_buffer(PathSize, PathLimit) ELSE path
            w == write2buf(buf, Piece(n))
            l == Len(msg.url)
<1>1. /\ phase = "head" /\ Line = 0 /\ Cut(n, ends) /\ path' = w
      /\ IF Overflows(buf, Piece(n)) THEN Refuse(400) ELSE Pass(n, ends)
      /\ UNCHANGED <<field, value, last, num_headers, headers, environ>>
  BY DEF url_cb
<1>2. PathSoFar /\ LinesSoFar /\ Fits /\ Untouched
  BY <1>1 DEF HeadInv, LinesSoFar
<1>3. msg \in Messages /\ msg.url \in Seq(Char) /\ l \in Nat \ {0}
  <2>1. msg \in Messages
    BY DEF DataInv, Cursor
  <2>2. msg.url \in Seq(Char) /\ msg.url # << >>
    BY <2>1, LineTypes
  <2>. QED
    BY <2>1, <2>2, LenProperties, EmptySeq
<1>4. Part = msg.url
  BY <1>1 DEF Part
<1>5. done \in 0 .. l /\ Left = l - done /\ Piece(n) = Between(msg.url, done, done + n)
  BY <1>1, <1>4, PartIsText DEF DataInv, Left, Piece, Between
<1>6. Piece(n) \in Text
  BY <1>1, PieceIsText DEF DataInv
<1>. HIDE DEF l
<1>7. n \in Nat /\ done + n \in done .. l /\ done \in 0 .. l /\ done + n \in 0 .. l
  BY <1>3, <1>5
<1>8. /\ buf \in Buffer /\ buf.limit = PathLimit
      /\ Len(buf.text) <= buf.limit /\ buf.size <= buf.limit + 1
      /\ buf.text = Between(msg.url, 0, done)
  <2>1. CASE path = None
    <3>1. buf = [text |-> << >>, size |-> PathSize, limit |-> PathLimit]
      BY <2>1 DEF new_buffer
    <3>2. Len(<< >>) = 0
      OBVIOUS
    <3>3. done = 0
      BY <1>1, <1>2, <2>1 DEF PathSoFar
    <3>4. Between(msg.url, 0, 0) = << >>
      BY DEF Between
    <3>. HIDE DEF buf
    <3>. QED
      BY <3>1, <3>2, <3>3, <3>4, PrefixIsText, RequestAssumption DEF Buffer
  <2>2. CASE path # None
    <3>1. /\ buf = path /\ path \in Buffer /\ path.limit = PathLimit
          /\ Len(path.text) < path.size /\ path.size <= PathLimit + 1
      BY <2>2 DEF DataInv, TypeOK, Stored, BufferHolds
    <3>2. path.size \in Nat /\ Len(path.text) \in Nat /\ PathLimit \in Nat
      BY <3>1, LenOfText, RequestAssumption DEF Buffer
    <3>3. path.text = SubSeq(msg.url, 1, done)
      BY <1>1, <1>2, <2>2 DEF PathSoFar
    <3>4. Between(msg.url, 0, done) = SubSeq(msg.url, 1, done)
      BY DEF Between
    <3>. HIDE DEF buf
    <3>5. Len(path.text) <= PathLimit
      BY <3>1, <3>2
    <3>. QED
      BY <3>1, <3>3, <3>4, <3>5
  <2>. QED
    BY <2>1, <2>2
<1>9. w \in Buffer /\ w # None
  <2>. HIDE DEF buf
  <2>. QED
    BY <1>6, <1>8, WriteResult, RequestAssumption
<1>10. /\ Len(Between(msg.url, 0, done)) = done /\ Len(Piece(n)) = n
  <2>1. 0 \in 0 .. Len(msg.url) /\ done \in 0 .. Len(msg.url) /\ done + n \in done .. Len(msg.url)
        /\ done - 0 = done /\ done + n - done = n
    BY <1>3, <1>7 DEF l
  <2>. QED
    BY <1>3, <1>5, <2>1, BetweenIs
<1>11. CASE Overflows(buf, Piece(n))
  <2>1. Len(buf.text) + Len(Piece(n)) > PathLimit
    <3>. HIDE DEF buf
    <3>. QED
      BY <1>6, <1>8, <1>11, WriteWhole
  <2>2. l > PathLimit
    BY <1>3, <1>7, <1>8, <1>10, <2>1, RequestAssumption
  <2>3. Verdict(msg) = 400
    BY <2>2 DEF Verdict, l
  <2>. QED
    BY <1>1, <1>11, <2>3, HeadGoesOn DEF Refuse, sent
<1>12. CASE ~ Overflows(buf, Piece(n))
  <2>1. Pass(n, ends)
    BY <1>1, <1>12
  <2>2. w.text = buf.text \o Piece(n)
    <3>. HIDE DEF buf
    <3>. QED
      BY <1>6, <1>8, <1>12, WriteWhole
  <2>. HIDE DEF buf, w
  <2>3. w.text = SubSeq(msg.url, 1, done + n)
    <3>1. 0 \in 0 .. Len(msg.url) /\ done \in 0 .. Len(msg.url) /\ done + n \in done .. Len(msg.url)
      BY <1>3, <1>7 DEF l
    <3>2. Between(msg.url, 0, done) \o Between(msg.url, done, done + n)
          = Between(msg.url, 0, done + n)
      BY <1>3, <3>1, BetweenJoin
    <3>3. Between(msg.url, 0, done + n) = SubSeq(msg.url, 1, done + n)
      BY DEF Between
    <3>. QED
      BY <1>5, <1>8, <2>2, <3>2, <3>3
  <2>4. SubSeq(msg.url, 1, l) = msg.url
    BY <1>3, SubSeqFull DEF l
  <2>5. msg' = msg /\ phase' = "head"
    BY <1>1, <2>1 DEF Pass
  <2>6. PathSoFar' /\ (Line' = 0 \/ (Line' = 1 /\ at'[2] = 0 /\ done' = 0))
    <3>1. CASE ends
      <4>1. n = Left /\ done' = 0 /\ at' = <<1, 0>>
        BY <1>1, <2>1, <3>1 DEF Cut, Pass, NextPart
      <4>2. done + n = l /\ Line' = 1 /\ at'[2] = 0
        BY <1>3, <1>5, <4>1 DEF Line
      <4>3. Line' # 0
        BY <4>2
      <4>. QED
        BY <1>1, <1>9, <2>3, <2>4, <2>5, <4>1, <4>2, <4>3 DEF PathSoFar
    <3>2. CASE ~ends
      <4>1. n \in 1 .. Left /\ done' = done + n /\ at' = at
        BY <2>1, <1>1, <3>2 DEF Cut, Pass
      <4>2. Line' = 0 /\ done' # 0
        BY <1>1, <1>7, <4>1 DEF Line
      <4>. QED
        BY <1>1, <1>9, <2>3, <2>5, <4>1, <4>2 DEF PathSoFar
    <3>. QED
      BY <3>1, <3>2
  <2>7. LinesSoFar'
    BY <1>1, <1>2, <2>6 DEF LinesSoFar, Untouched
  <2>8. Fits'
    <3>1. \A i \in DOMAIN msg.lines : ~ (i < Line')
      <4>1. DOMAIN msg.lines = 1 .. Len(msg.lines) /\ Len(msg.lines) \in Nat
        BY <1>3, LineTypes
      <4>2. Line' \in {0, 1}
        BY <2>6
      <4>. QED
        BY <4>1, <4>2
    <3>. QED
      BY <1>1, <1>2, <2>5, <3>1 DEF Fits
  <2>. QED
    BY <1>1, <2>5, <2>6, <2>7, <2>8, HeadGoesOn DEF Pass
<1>. QED
  BY <1>11, <1>12

----------------------------------------------------------------------------
(* The keys of the environ.                                                 *)

NamedKey(k) ==
  IF k = Prefix \o ContentType THEN ContentType
  ELSE IF k = Prefix \o ContentLength THEN ContentLength ELSE k
KeysOf(m) == {KeyOf(m, i) : i \in Valued(m)}

(* A text that begins as Prefix does.                                       *)
LEMMA BeginsIs ==
  ASSUME NEW t \in Seq(Char), 5 <= Len(t), \A i \in 1 .. 5 : t[i] = Prefix[i]
  PROVE  IsPrefix(Prefix, t)
<1>. DEFINE c == SubSeq(t, 1, 5)
<1>1. Len(t) \in Nat /\ 5 \in 0 .. Len(t)
  BY LenProperties
<1>2. c \in Seq(Char) /\ Len(c) = 5 /\ \A i \in 1 .. 5 : c[i] = t[i]
  BY <1>1, FirstIs DEF First
<1>3. Prefix \in Seq(Char) /\ Len(Prefix) = 5
  BY DEF Prefix, Char
<1>4. SubSeq(Prefix, 1, 5) = Prefix
  BY <1>3, SubSeqFull
<1>. HIDE DEF c
<1>5. c = Prefix
  BY <1>2, <1>3, SeqEqual
<1>. QED
  BY <1>3, <1>4, <1>5 DEF IsPrefix, c

(* A key with the prefix is none without it, and two keys stay two.         *)
LEMMA PrefixedIs ==
  ASSUME NEW t \in Seq(Char)
  PROVE  /\ Prefix \o t \in Seq(Char) /\ Len(Prefix \o t) = 5 + Len(t)
         /\ \A i \in 1 .. 5 : (Prefix \o t)[i] = Prefix[i]
         /\ \A i \in 1 .. Len(t) : (Prefix \o t)[5 + i] = t[i]
<1>1. Prefix \in Seq(Char) /\ Len(Prefix) = 5
  BY DEF Prefix, Char
<1>. HIDE DEF Prefix
<1>. DEFINE k == Prefix \o t
<1>2. /\ k \in Seq(Char) /\ Len(k) = 5 + Len(t)
      /\ \A i \in 1 .. 5 + Len(t) : k[i] = IF i <= 5 THEN Prefix[i] ELSE t[i - 5]
  <2>1. Prefix \in Seq(Char) /\ t \in Seq(Char)
    BY <1>1
  <2>2. /\ k \in Seq(Char) /\ Len(k) = Len(Prefix) + Len(t)
        /\ \A i \in 1 .. Len(Prefix) + Len(t) :
             k[i] = IF i <= Len(Prefix) THEN Prefix[i] ELSE t[i - Len(Prefix)]
    BY <2>1, ConcatProperties
  <2>. HIDE DEF k
  <2>. QED
    BY <1>1, <2>2
<1>3. Len(t) \in Nat
  BY LenProperties
<1>. HIDE DEF k
<1>4. \A i \in 1 .. 5 : k[i] = Prefix[i]
  BY <1>2, <1>3
<1>5. ASSUME NEW i \in 1 .. Len(t) PROVE k[5 + i] = t[i]
  <2>1. 5 + i \in 1 .. 5 + Len(t) /\ ~ (5 + i <= 5) /\ 5 + i - 5 = i
    BY <1>3
  <2>. QED
    BY <1>2, <2>1
<1>. QED
  BY <1>2, <1>4, <1>5 DEF k

(* The two keys that headers_complete_cb renames cannot meet another.       *)
LEMMA KeysApart ==
  ASSUME NEW m \in Messages
  PROVE  /\ ContentType \notin KeysOf(m) /\ ContentLength \notin KeysOf(m)
         /\ Prefix \o ContentType \notin {ContentType, ContentLength}
         /\ Prefix \o ContentLength \notin {ContentType, ContentLength}
         /\ Prefix \o ContentType # Prefix \o ContentLength
         /\ ContentType # ContentLength
<1>. DEFINE T == ContentType
            L == ContentLength
            a == Prefix \o T
            b == Prefix \o L
<1>1. /\ T \in Seq(Char) /\ L \in Seq(Char) /\ T # L
      /\ ~ IsPrefix(Prefix, T) /\ ~ IsPrefix(Prefix, L)
  BY RequestAssumption, TextIs
<1>. HIDE DEF T, L
<1>2. /\ a \in Seq(Char) /\ Len(a) = 5 + Len(T)
      /\ \A i \in 1 .. 5 : a[i] = Prefix[i]
      /\ \A i \in 1 .. Len(T) : a[5 + i] = T[i]
  BY <1>1, PrefixedIs
<1>3. /\ b \in Seq(Char) /\ Len(b) = 5 + Len(L)
      /\ \A i \in 1 .. 5 : b[i] = Prefix[i]
      /\ \A i \in 1 .. Len(L) : b[5 + i] = L[i]
  BY <1>1, PrefixedIs
<1>4. Len(T) \in Nat /\ Len(L) \in Nat
  BY <1>1, LenProperties
<1>. HIDE DEF a, b
<1>5. IsPrefix(Prefix, a) /\ IsPrefix(Prefix, b)
  <2>1. 5 <= Len(a) /\ 5 <= Len(b)
    BY <1>2, <1>3, <1>4
  <2>. QED
    BY <1>2, <1>3, <2>1, BeginsIs
<1>6. a # b
  <2>1. SUFFICES ASSUME a = b PROVE FALSE
    OBVIOUS
  <2>2. Len(T) = Len(L)
    BY <1>2, <1>3, <1>4, <2>1
  <2>3. \A i \in 1 .. Len(T) : T[i] = L[i]
    BY <1>2, <1>3, <2>1, <2>2
  <2>4. T = L
    BY <1>1, <2>2, <2>3, SeqEqual
  <2>. QED
    BY <1>1, <2>4
<1>7. \A k \in KeysOf(m) : IsPrefix(Prefix, k)
  <2>1. ASSUME NEW i \in Valued(m) PROVE IsPrefix(Prefix, KeyOf(m, i))
    <3>1. i \in Starts(m)
      BY DEF Valued
    <3>. HIDE DEF Prefix
    <3>. QED
      BY <3>1, HeaderIs, BeginsIs
  <2>. QED
    BY <2>1 DEF KeysOf
<1>. QED
  BY <1>1, <1>5, <1>6, <1>7 DEF T, L, a, b

(* Two keys renamed, one after the other.                                   *)
IsOn(f, D) == f = [k \in D |-> f[k]]
Instead(k, a, b) == IF k = a THEN b ELSE k
Renamed(D, a, b) == {Instead(k, a, b) : k \in D}

(* Renaming a key moves its value.                                          *)
LEMMA RenameIs ==
  ASSUME NEW D, NEW f, IsOn(f, D), NEW a, NEW b, b \notin D, a # b
  PROVE  LET g == replace_env_key(f, a, b)
         IN  /\ IsOn(g, Renamed(D, a, b)) /\ DOMAIN g = Renamed(D, a, b)
             /\ \A k \in D : g[Instead(k, a, b)] = f[k]
<1>. DEFINE g == replace_env_key(f, a, b)
<1>1. DOMAIN f = D
  BY DEF IsOn
<1>2. CASE a \notin D
  <2>1. g = f
    BY <1>1, <1>2 DEF replace_env_key
  <2>2. Renamed(D, a, b) = D /\ \A k \in D : Instead(k, a, b) = k
    BY <1>2 DEF Renamed, Instead
  <2>. HIDE DEF g
  <2>. QED
    BY <1>1, <2>1, <2>2 DEF g
<1>3. CASE a \in D
  <2>1. g = [k \in (D \ {a}) \union {b} |-> IF k = b THEN f[a] ELSE f[k]]
    BY <1>1, <1>3 DEF replace_env_key
  <2>. HIDE DEF g
  <2>2. DOMAIN g = (D \ {a}) \union {b} /\ g = [x \in DOMAIN g |-> g[x]]
    BY <2>1
  <2>3. \A k \in D : g[Instead(k, a, b)] = f[k]
    BY <1>3, <2>1 DEF Instead
  <2>4. (D \ {a}) \union {b} = Renamed(D, a, b)
    BY <1>3 DEF Renamed, Instead
  <2>. QED
    BY <2>2, <2>3, <2>4 DEF g, IsOn
<1>. QED
  BY <1>2, <1>3

(* The headers of all lines, the content keys renamed, are the message's.   *)
LEMMA MovedIs ==
  ASSUME NEW m \in Messages
  PROVE  Moved(HeadersFrom(m, Valued(m))) = HeadersOf(m)
<1>. DEFINE keys == KeysOf(m)
            f == HeadersFrom(m, Valued(m))
            T == ContentType
            L == ContentLength
            a == Prefix \o T
            b == Prefix \o L
            g == replace_env_key(f, a, T)
            h == replace_env_key(g, b, L)
            R == HeadersOf(m)
            N(k) == NamedKey(k)
<1>1. /\ T \notin keys /\ L \notin keys /\ a \notin {T, L} /\ b \notin {T, L}
      /\ a # b /\ T # L
  BY KeysApart
<1>2. f = [k \in keys |-> f[k]] /\ \A k \in keys : f[k] = ValuesOf(m, k)
  BY DEF HeadersFrom, KeysOf, ValuesOf, Joint
<1>3. R = [n \in {N(k) : k \in keys} |-> ValuesOf(m, CHOOSE k \in keys : N(k) = n)]
  BY DEF HeadersOf, KeysOf, NamedKey
<1>4. \A k : N(k) = IF k = a THEN T ELSE IF k = b THEN L ELSE k
  BY DEF NamedKey
<1>5. Moved(f) = h
  BY DEF Moved
<1>. HIDE DEF f, keys, T, L, a, b, g, h, R, N
<1>. DEFINE G == Renamed(keys, a, T)
            H == Renamed(G, b, L)
<1>6. /\ DOMAIN g = G /\ IsOn(g, G)
      /\ \A k \in keys : g[Instead(k, a, T)] = f[k]
  <2>1. IsOn(f, keys)
    BY <1>2 DEF IsOn
  <2>. QED
    BY <1>1, <2>1, RenameIs DEF g
<1>7. L \notin G
  BY <1>1 DEF Renamed, Instead
<1>. HIDE DEF G
<1>8. /\ DOMAIN h = H /\ IsOn(h, H)
      /\ \A k \in G : h[Instead(k, b, L)] = g[k]
  BY <1>1, <1>6, <1>7, RenameIs DEF h
<1>9. \A k \in keys : N(k) \in DOMAIN h /\ h[N(k)] = f[k]
  <2>1. ASSUME NEW k \in keys PROVE N(k) \in H /\ h[N(k)] = f[k]
    <3>1. Instead(k, a, T) \in G
      BY DEF G, Renamed
    <3>2. N(k) = Instead(Instead(k, a, T), b, L)
      BY <1>1, <1>4 DEF Instead
    <3>3. N(k) \in H
      BY <3>1, <3>2 DEF Renamed
    <3>. QED
      BY <1>6, <1>8, <3>1, <3>2, <3>3
  <2>. QED
    BY <1>8, <2>1
<1>10. \A x \in DOMAIN h : \E k \in keys : x = N(k)
  <2>1. \A x \in H : \E k \in keys : x = Instead(Instead(k, a, T), b, L)
    BY DEF G, Renamed
  <2>2. \A k \in keys : N(k) = Instead(Instead(k, a, T), b, L)
    BY <1>1, <1>4 DEF Instead
  <2>. QED
    BY <1>8, <2>1, <2>2
<1>11. DOMAIN h = {N(k) : k \in keys}
  BY <1>9, <1>10
<1>12. \A k, l \in keys : N(k) = N(l) => k = l
  BY <1>1, <1>4
<1>13. ASSUME NEW x \in {N(k) : k \in keys}
       PROVE  h[x] = ValuesOf(m, CHOOSE k \in keys : N(k) = x)
  <2>1. PICK l \in keys : x = N(l)
    OBVIOUS
  <2>. DEFINE c == CHOOSE k \in keys : N(k) = x
  <2>2. c \in keys /\ N(c) = x
    BY <2>1
  <2>. HIDE DEF c
  <2>3. c = l
    BY <1>12, <2>1, <2>2
  <2>4. h[x] = f[l] /\ f[l] = ValuesOf(m, l)
    BY <1>2, <1>9, <2>1
  <2>5. h[x] = ValuesOf(m, c)
    BY <2>3, <2>4
  <2>. QED
    BY <2>5 DEF c
<1>14. h = [x \in {N(k) : k \in keys} |-> ValuesOf(m, CHOOSE k \in keys : N(k) = x)]
  <2>1. h = [x \in DOMAIN h |-> h[x]]
    BY <1>8 DEF IsOn
  <2>. QED
    BY <1>11, <1>13, <2>1
<1>. QED
  BY <1>3, <1>5, <1>14 DEF f, R

(* What the head has come to behind its last line.                          *)
LEMMA HeadEnd ==
  ASSUME DataInv, HeadInv, InEnd
  PROVE  /\ msg \in Messages /\ HeadFits(msg)
         /\ path # None /\ path.text = msg.url
         /\ HeadersFrom(msg, Valued(msg)) =
              IF field # None /\ value # None THEN WithHeader(headers, field, value) ELSE headers
<1>. DEFINE N == Len(msg.lines)
<1>1. /\ phase = "head" /\ msg \in Messages /\ N \in Nat /\ Line \in Nat /\ Line = N + 1
      /\ PathSoFar /\ LinesSoFar /\ Fits
  <2>1. phase = "head" /\ Line > N /\ msg \in Messages /\ Line <= N + 1
    BY DEF InEnd, DataInv, Cursor
  <2>2. Line \in Nat
    BY DEF DataInv, TypeOK, Line
  <2>. QED
    BY <2>1, <2>2, LineTypes DEF HeadInv
<1>2. Line # 0 /\ Line > 0
  BY <1>1
<1>3. path # None /\ path.text = msg.url
  BY <1>1, <1>2 DEF PathSoFar
<1>4. Len(msg.url) <= PathLimit
  <2>1. /\ path \in Buffer /\ Len(path.text) < path.size /\ path.size <= PathLimit + 1
    BY <1>3 DEF DataInv, TypeOK, BufferHolds
  <2>2. path.size \in Nat /\ Len(path.text) \in Nat /\ PathLimit \in Nat
    BY <2>1, LenOfText, RequestAssumption DEF Buffer
  <2>3. Len(path.text) <= PathLimit
    BY <2>1, <2>2
  <2>. QED
    BY <1>3, <2>3
<1>5. ASSUME NEW i \in Starts(msg)
      PROVE  Len(KeyOf(msg, i)) <= FieldSizeLimit /\ Len(ValueOf(msg, i)) <= FieldSizeLimit
  <2>1. /\ Stop(msg, i) \in 1 .. N /\ InGroup(msg, i, Stop(msg, i))
        /\ KeyOf(msg, i) = KeyFrom(Names(msg, i, Stop(msg, i)))
        /\ ValueOf(msg, i) = Values(msg, Stop(msg, i))
    BY <1>1, HeaderIs
  <2>2. Stop(msg, i) < Line
    BY <1>1, <2>1
  <2>3. LineFitsIn(msg, Stop(msg, i))
    BY <1>1, <2>1, <2>2, LineTypes DEF Fits
  <2>. QED
    BY <2>1, <2>3 DEF LineFitsIn
<1>6. /\ Cardinality(Starts(msg)) <= FieldLimit + 1
      /\ HeadersFrom(msg, Valued(msg)) =
           IF field # None /\ value # None THEN WithHeader(headers, field, value) ELSE headers
  <2>1. CASE Line = 1 /\ Untouched
    <3>1. N = 0
      BY <1>1, <2>1
    <3>2. Starts(msg) = {} /\ Valued(msg) = {}
      BY <1>1, <3>1, StartsAre DEF Valued
    <3>3. Cardinality(Starts(msg)) = 0
      BY <3>2, FS_EmptySet
    <3>4. HeadersFrom(msg, Valued(msg)) = << >>
      BY <3>2, HeadersNone
    <3>. QED
      BY <2>1, <3>3, <3>4, RequestAssumption DEF Untouched
  <2>2. CASE \E s \in Starts(msg) : AtName(s) \/ AtValue(s) \/ AfterLine(s)
    <3>1. PICK s \in Starts(msg) : AtName(s) \/ AtValue(s) \/ AfterLine(s)
      BY <2>2
    <3>2. ~ InGroup(msg, s, Line)
      <4>1. ~ (Line \in s .. N)
        BY <1>1
      <4>. QED
        BY <4>1 DEF InGroup
    <3>3. AfterLine(s) /\ Line - 1 = N
      BY <1>1, <3>1, <3>2 DEF AtName, AtValue
    <3>4. /\ InGroup(msg, s, N) /\ Added(s) /\ field = KeyFrom(Names(msg, s, N))
          /\ IF msg.lines[N].values = << >> THEN value = None ELSE value = Values(msg, N)
      BY <3>3 DEF AfterLine
    <3>. HIDE DEF N
    <3>5. /\ ValuedBefore(msg, s) \in SUBSET Starts(msg) /\ s \in Starts(msg)
          /\ \A j \in ValuedBefore(msg, s) : j < s
          /\ Counted(msg, s) \in Nat
          /\ Valued(msg) = IF msg.lines[N].values = << >> THEN ValuedBefore(msg, s)
                           ELSE ValuedBefore(msg, s) \union {s}
          /\ Cardinality(Starts(msg)) = Counted(msg, s) + 1
      BY <1>1, <3>4, NextStart DEF N
    <3>6. Cardinality(Starts(msg)) <= FieldLimit + 1
      <4>1. num_headers <= FieldLimit /\ num_headers = Counted(msg, s) /\ FieldLimit \in Nat
        BY <1>1, <3>4, RequestAssumption DEF Fits, Added
      <4>. QED
        BY <3>5, <4>1
    <3>7. s \in 1 .. N /\ N \in s .. N /\ N \in 1 .. N
      BY <1>1, <3>4, GroupStop DEF N
    <3>8. CASE msg.lines[N].values = << >>
      BY <3>4, <3>5, <3>6, <3>8 DEF Added
    <3>9. CASE msg.lines[N].values # << >>
      <4>1. Stop(msg, s) = N
        BY <1>1, <3>4, GroupStop DEF N
      <4>2. field = KeyOf(msg, s) /\ value = ValueOf(msg, s)
            /\ KeyOf(msg, s) \in Seq(Char) /\ ValueOf(msg, s) \in Seq(Char)
        BY <1>1, <3>4, <3>9, <4>1, HeaderIs
      <4>3. field # None /\ value # None
        BY <4>2, TextIs, RequestAssumption
      <4>4. HeadersFrom(msg, ValuedBefore(msg, s) \union {s})
              = WithHeader(HeadersFrom(msg, ValuedBefore(msg, s)), KeyOf(msg, s), ValueOf(msg, s))
        BY <1>1, <3>5, HeadersAdd
      <4>. QED
        BY <3>4, <3>5, <3>6, <3>9, <4>2, <4>3, <4>4 DEF Added
    <3>. QED
      BY <3>8, <3>9
  <2>. QED
    BY <1>1, <1>2, <2>1, <2>2 DEF LinesSoFar
<1>. QED
  BY <1>1, <1>3, <1>4, <1>5, <1>6 DEF HeadFits

(* A head within its limits is refused only for the declared length.        *)
LEMMA VerdictIs ==
  ASSUME NEW m \in Messages, HeadFits(m)
  PROVE  /\ Len(m.body) \in Nat
         /\ Verdict(m) = IF Len(m.body) > MaxContent THEN 413 ELSE 0
<1>1. Len(m.body) \in Nat /\ Len(m.url) \in Nat
  BY MessageParts, LenOfText
<1>2. \A i \in Starts(m) : Len(KeyOf(m, i)) \in Nat /\ Len(ValueOf(m, i)) \in Nat
  BY HeaderIs, LenProperties
<1>3. Cardinality(Starts(m)) \in Nat
  <2>1. Starts(m) \in SUBSET (1 .. Len(m.lines)) /\ Len(m.lines) \in Nat
    BY StartsAre, LineTypes
  <2>2. Starts(m) \in SUBSET Nat /\ (\A x \in Starts(m) : x < Len(m.lines) + 1)
        /\ Len(m.lines) + 1 \in Nat
    BY <2>1
  <2>. QED
    BY <2>2, RankExists
<1>4. PathLimit \in Nat /\ FieldLimit \in Nat /\ FieldSizeLimit \in Nat
  BY RequestAssumption
<1>5. ~ (Len(m.url) > PathLimit) /\ ~ (Cardinality(Starts(m)) > FieldLimit + 1)
  BY <1>1, <1>3, <1>4 DEF HeadFits
<1>6. ~ \E i \in Starts(m) :
           Len(KeyOf(m, i)) > FieldSizeLimit \/ Len(ValueOf(m, i)) > FieldSizeLimit
  BY <1>2, <1>4 DEF HeadFits
<1>. QED
  BY <1>1, <1>5, <1>6 DEF Verdict

(* The end of the head: what is taken, and what is refused for its length.  *)
LEMMA HeadersDoneHead ==
  ASSUME DataInv, HeadInv, headers_complete_cb
  PROVE  HeadInv'
<1>1. /\ InEnd /\ phase = "head" /\ phase' = "body" /\ body_length' = DeclaredLength
      /\ environ' = [target |-> set_path(path.text),
                     method |-> IF msg.method \in SwitchMethods THEN msg.method ELSE "GET"]
      /\ headers' = Moved(IF field # None /\ value # None
                          THEN WithHeader(headers, field, value) ELSE headers)
      /\ msg' = msg
  BY DEF headers_complete_cb, InEnd, sent
<1>2. /\ msg \in Messages /\ HeadFits(msg) /\ path.text = msg.url
      /\ HeadersFrom(msg, Valued(msg)) =
           IF field # None /\ value # None THEN WithHeader(headers, field, value) ELSE headers
  BY <1>1, HeadEnd
<1>3. headers' = HeadersOf(msg)
  BY <1>1, <1>2, MovedIs
<1>4. environ'.target = set_path(msg.url)
  BY <1>1, <1>2
<1>5. DeclaredLength' = DeclaredLength /\ HeadFits(msg')
  BY <1>1, <1>2 DEF DeclaredLength
<1>. QED
  BY <1>1, <1>3, <1>4, <1>5 DEF HeadInv, OutcomeOfMessage

(* headers_complete_cb refuses a length that is too large.                  *)
LEMMA LengthRefusedHead ==
  ASSUME DataInv, HeadInv, RefuseLength
  PROVE  HeadInv'
<1>1. InEnd /\ phase = "head" /\ TooLong /\ Refuse(413) /\ UNCHANGED environ
  BY DEF RefuseLength, InEnd
<1>2. msg \in Messages /\ HeadFits(msg)
  BY <1>1, HeadEnd
<1>3. Len(msg.body) = msg.declared
  BY <1>1, <1>2, RequestAssumption DEF TooLong
<1>4. Verdict(msg) = 413
  BY <1>1, <1>2, <1>3, VerdictIs, RequestAssumption DEF TooLong
<1>. QED
  BY <1>1, <1>4, HeadGoesOn DEF Refuse, sent

(* Behind the head nothing of it changes.                                   *)
LEMMA AfterHead ==
  ASSUME HeadInv, phase \in {"body", "complete", "calling"},
         UNCHANGED <<msg, environ, headers, body_length>>,
         phase' \in {"body", "complete", "calling", "refused"},
         phase' = "refused" => code' = Verdict(msg),
         phase' \in {"complete", "calling"} => Verdict(msg) = 0
  PROVE  HeadInv'
<1>1. DeclaredLength' = DeclaredLength
  BY DEF DeclaredLength
<1>. QED
  BY <1>1 DEF HeadInv, OutcomeOfMessage

(* body_cb leaves the head alone, and refuses what is too large.            *)
LEMMA BodyHead ==
  ASSUME DataInv, HeadInv, NEW n \in 1 .. Len(msg.body), body_cb(n)
  PROVE  HeadInv'
<1>1. /\ phase = "body" /\ n \in 1 .. Len(msg.body) - body_readed
      /\ UNCHANGED <<environ, headers>>
  BY DEF body_cb, InBody, headVars
<1>2. msg \in Messages /\ body_readed \in Nat /\ HeadFits(msg) /\ body_length = DeclaredLength
  BY <1>1 DEF DataInv, Cursor, TypeOK, HeadInv
<1>3. /\ Len(msg.body) \in Nat
      /\ Verdict(msg) = IF Len(msg.body) > MaxContent THEN 413 ELSE 0
  BY <1>2, VerdictIs
<1>4. n \in Nat /\ body_readed + n <= Len(msg.body) /\ Len(msg.body) > 0
  BY <1>1, <1>2, <1>3
<1>5. CASE BodyCode(n) = 0
  <2>1. UNCHANGED <<sent, phase, code, body_length>>
    BY <1>5 DEF body_cb
  <2>. QED
    BY <1>1, <2>1, AfterHead DEF sent
<1>6. CASE BodyCode(n) # 0
  <2>1. Refuse(BodyCode(n)) /\ UNCHANGED bodyVars
    BY <1>6 DEF body_cb
  <2>2. ~ (body_length = 0 /\ ~msg.chunked)
    <3>1. SUFFICES ASSUME body_length = 0, ~msg.chunked PROVE FALSE
      OBVIOUS
    <3>2. Len(msg.body) = IF msg.declared = None THEN 0 ELSE msg.declared
      BY <1>2, <3>1, RequestAssumption
    <3>. QED
      BY <1>2, <1>4, <3>1, <3>2 DEF DeclaredLength
  <2>3. BodyCode(n) = 413 /\ MaxContent < body_readed + n
    BY <1>6, <2>2 DEF BodyCode
  <2>4. Verdict(msg) = 413
    BY <1>2, <1>3, <1>4, <2>3, RequestAssumption
  <2>. QED
    BY <1>1, <2>1, <2>3, <2>4, AfterHead DEF Refuse, sent, bodyVars
<1>. QED
  BY <1>5, <1>6

(* message_complete_cb leaves the head alone.                               *)
LEMMA CompleteHead ==
  ASSUME DataInv, HeadInv, message_complete_cb
  PROVE  HeadInv'
<1>1. /\ phase = "body" /\ body_readed = Len(msg.body) /\ phase' = "complete"
      /\ UNCHANGED <<msg, environ, headers, body_length>>
  BY DEF message_complete_cb, sent, headVars, bodyVars
<1>2. msg \in Messages /\ HeadFits(msg)
  BY <1>1 DEF DataInv, Cursor, HeadInv
<1>3. body_readed <= MaxContent
  BY <1>1, RequestAssumption DEF DataInv, Stored
<1>4. Verdict(msg) = 0
  BY <1>1, <1>2, <1>3, VerdictIs, RequestAssumption
<1>. QED
  BY <1>1, <1>4, AfterHead

(* The input and the calls on it.                                           *)
LEMMA CallHead ==
  ASSUME HeadInv, phase \in {"complete", "calling"}, phase' = "calling",
         UNCHANGED <<sent, headers, body_length, environ>>
  PROVE  HeadInv'
<1>1. Verdict(msg) = 0
  BY DEF HeadInv, OutcomeOfMessage
<1>. QED
  BY <1>1, AfterHead DEF sent

(* Nothing is collected when message_begin_cb is done.                      *)
LEMMA HeadInitially == Init => HeadInv
<1>1. SUFFICES ASSUME Init PROVE HeadInv
  OBVIOUS
<1>2. Line = 0 /\ done = 0
  BY <1>1 DEF Init, Line
<1>3. \A i \in DOMAIN msg.lines : ~ (i < Line)
  <2>1. DOMAIN msg.lines = 1 .. Len(msg.lines) /\ Len(msg.lines) \in Nat
    BY <1>1, LineTypes DEF Init
  <2>. QED
    BY <1>2, <2>1
<1>. QED
  BY <1>1, <1>2, <1>3, RequestAssumption
     DEF Init, HeadInv, PathSoFar, LinesSoFar, Untouched, Fits, OutcomeOfMessage

(* Every callback and every call of the input keeps the invariant.          *)
LEMMA HeadStepKeeps == DataInv /\ HeadInv /\ [Next]_vars => HeadInv'
<1>1. SUFFICES ASSUME DataInv, HeadInv, [Next]_vars PROVE HeadInv'
  OBVIOUS
<1>2. ASSUME phase = "head", ~InEnd, NEW ends \in BOOLEAN, NEW n \in 0 .. Left,
             \/ url_cb(n, ends) \/ header_field_cb(n, ends)
             \/ MoreName(n, ends) \/ header_value_cb(n, ends)
      PROVE  HeadInv'
  BY <1>1, <1>2, UrlHead, NewNameHead, MoreNameHead, ValueHead
<1>3. CASE headers_complete_cb
  BY <1>1, <1>3, HeadersDoneHead
<1>4. CASE RefuseLength
  BY <1>1, <1>4, LengthRefusedHead
<1>5. ASSUME NEW n \in 1 .. Len(msg.body), body_cb(n)
      PROVE  HeadInv'
  BY <1>1, <1>5, BodyHead
<1>6. CASE message_complete_cb
  BY <1>1, <1>6, CompleteHead
<1>7. CASE prepare_call_wsgi
  BY <1>1, <1>7, CallHead DEF prepare_call_wsgi, headVars
<1>8. ASSUME NEW n \in Sizes,
             InputObject_read(n) \/ InputObject_readline(n) \/ InputObject_readlines(n)
      PROVE  HeadInv'
  <2>1. phase = "calling" /\ UNCHANGED <<sent, phase, headers, body_length, environ>>
    BY <1>8 DEF InputObject_read, InputObject_readline, InputObject_readlines, Reading, Give,
                headVars, bodyVars
  <2>. QED
    BY <1>1, <2>1, CallHead
<1>9. CASE InputObject_iternext
  <2>1. phase = "calling" /\ UNCHANGED <<sent, phase, headers, body_length, environ>>
    BY <1>9 DEF InputObject_iternext, Reading, Give, headVars, bodyVars
  <2>. QED
    BY <1>1, <2>1, CallHead
<1>10. CASE UNCHANGED vars
  BY <1>1, <1>10 DEF vars, sent, headVars, bodyVars, callVars, HeadInv, OutcomeOfMessage,
       PathSoFar, LinesSoFar, Untouched, Added, AtName, AtValue, AfterLine, Line, Fits,
       DeclaredLength
<1>. QED
  BY <1>1, <1>2, <1>3, <1>4, <1>5, <1>6, <1>7, <1>8, <1>9, <1>10 DEF Next

(* Where collection of the head stands, for every message and however its   *)
(* lines are cut: what url_cb, header_field_cb and header_value_cb have     *)
(* stored is what the tokenizer has passed on, and nothing of it is beyond  *)
(* a limit.                                                                 *)
THEOREM HeadInductive == Spec => [](DataInv /\ HeadInv)
BY HeadInitially, HeadStepKeeps, DataInductive, PTL DEF Spec

(* A request is refused, with 400 or 413, exactly if its message is beyond  *)
(* a limit, and never for the way the reads cut it (url_cb,                 *)
(* header_field_cb, header_value_cb, headers_complete_cb and body_cb).      *)
THEOREM OutcomeFollows == Spec => []OutcomeOfMessage
<1>1. HeadInv => OutcomeOfMessage
  BY DEF HeadInv
<1>. QED
  BY <1>1, HeadInductive, PTL

(* The environ of a request is what its message says: each header under its *)
(* key, upper-cased, repeated ones joined in their order, and the two keys  *)
(* that have no prefix renamed (add_header, replace_env_key,                *)
(* headers_complete_cb).                                                    *)
THEOREM EnvironFollows == Spec => []EnvironOfMessage
<1>1. HeadInv => EnvironOfMessage
  BY DEF HeadInv, EnvironOfMessage
<1>. QED
  BY <1>1, HeadInductive, PTL

----------------------------------------------------------------------------
(* The target of a request.  A function that is defined at each place by    *)
(* its value at a later one exists.                                         *)
Forward(V, n, base, jump, step) ==
  /\ n \in Nat /\ base \in V
  /\ jump \in [1 .. n -> 1 .. n + 1] /\ \A i \in 1 .. n : i < jump[i]
  /\ step \in [1 .. n -> [V -> V]]
Follows(f, V, n, base, jump, step) ==
  /\ f \in [1 .. n + 1 -> V]
  /\ \A i \in 1 .. n + 1 : f[i] = IF i > n THEN base ELSE step[i][f[jump[i]]]

(* Such a function exists, whatever the steps: by the least number of       *)
(* places for which none does.                                              *)
LEMMA ForwardExists ==
  ASSUME NEW V, NEW n, NEW base, NEW jump, NEW step, Forward(V, n, base, jump, step)
  PROVE  \E f : Follows(f, V, n, base, jump, step)
<1>0. /\ n \in Nat /\ base \in V
      /\ jump \in [1 .. n -> 1 .. n + 1] /\ \A i \in 1 .. n : i < jump[i]
      /\ step \in [1 .. n -> [V -> V]]
  BY DEF Forward
<1>. DEFINE Good(f, i) == f[i] = IF i > n THEN base ELSE step[i][f[jump[i]]]
            S == {k \in Nat : k <= n => \E f \in [1 .. n + 1 -> V] :
                                          \A i \in n + 1 - k .. n + 1 : Good(f, i)}
<1>1. 0 \in S
  <2>. DEFINE f == [i \in 1 .. n + 1 |-> base]
  <2>1. f \in [1 .. n + 1 -> V] /\ \A i \in n + 1 - 0 .. n + 1 : Good(f, i)
    BY <1>0
  <2>. QED
    BY <2>1
<1>2. ASSUME NEW k \in Nat, k \in S PROVE k + 1 \in S
  <2>1. SUFFICES ASSUME k + 1 <= n
                 PROVE  \E f \in [1 .. n + 1 -> V] : \A i \in n + 1 - (k + 1) .. n + 1 : Good(f, i)
    OBVIOUS
  <2>2. PICK f \in [1 .. n + 1 -> V] : \A i \in n + 1 - k .. n + 1 : Good(f, i)
    BY <1>0, <1>2, <2>1
  <2>. DEFINE j == n - k
              g == [f EXCEPT ![j] = step[j][f[jump[j]]]]
  <2>3. j \in 1 .. n /\ n + 1 - (k + 1) = j /\ n + 1 - k = j + 1 /\ j \in 1 .. n + 1
    BY <1>0, <2>1
  <2>. HIDE DEF j
  <2>4. step[j][f[jump[j]]] \in V
    BY <1>0, <2>3
  <2>5. g \in [1 .. n + 1 -> V]
    BY <2>4
  <2>6. g[j] = step[j][f[jump[j]]] /\ \A i \in 1 .. n + 1 : i # j => g[i] = f[i]
    BY <1>0, <2>3
  <2>. HIDE DEF g
  <2>7. ASSUME NEW i \in j .. n + 1 PROVE Good(g, i)
    <3>1. i > n => i # j
      BY <1>0, <2>3
    <3>2. i \in 1 .. n => jump[i] \in 1 .. n + 1 /\ jump[i] # j
      <4>1. SUFFICES ASSUME i \in 1 .. n PROVE jump[i] \in 1 .. n + 1 /\ jump[i] # j
        OBVIOUS
      <4>2. jump[i] \in 1 .. n + 1 /\ i < jump[i]
        BY <1>0, <4>1
      <4>. QED
        BY <1>0, <2>3, <4>2
    <3>3. i # j => i \in n + 1 - k .. n + 1 /\ i \in 1 .. n + 1
      BY <1>0, <2>3
    <3>4. i \in 1 .. n \/ i > n
      BY <1>0, <2>3
    <3>5. i \in 1 .. n => ~ (i > n)
      BY <1>0, <2>3
    <3>6. CASE i = j
      BY <2>3, <2>6, <3>2, <3>5, <3>6
    <3>7. CASE i # j
      BY <2>2, <2>6, <3>2, <3>3, <3>4, <3>5, <3>7
    <3>. QED
      BY <3>6, <3>7
  <2>. QED
    BY <2>3, <2>5, <2>7
<1>3. n \in S
  <2>. HIDE DEF S
  <2>. QED
    BY <1>0, <1>1, <1>2, Induct
<1>4. PICK f \in [1 .. n + 1 -> V] : \A i \in n + 1 - n .. n + 1 : Good(f, i)
  BY <1>0, <1>3
<1>5. n + 1 - n = 1
  BY <1>0
<1>. QED
  BY <1>4, <1>5 DEF Follows

(* One character of a text, before others.                                  *)
LEMMA BetweenNext ==
  ASSUME NEW t \in Seq(Char), NEW i \in 1 .. Len(t), NEW e \in i .. Len(t)
  PROVE  /\ t[i] \in Char /\ <<t[i]>> \in Seq(Char)
         /\ <<t[i]>> \o Between(t, i, e) = Between(t, i - 1, e)
         /\ Between(t, i, e) \in Seq(Char)
<1>1. /\ Len(t) \in Nat /\ i - 1 \in 0 .. Len(t) /\ i \in i - 1 .. Len(t) /\ i \in 0 .. Len(t)
      /\ i - (i - 1) = 1 /\ i - 1 + 1 = i
  BY LenProperties
<1>. DEFINE b == Between(t, i - 1, i)
<1>2. b \in Seq(Char) /\ Len(b) = i - (i - 1) /\ \A j \in 1 .. i - (i - 1) : b[j] = t[i - 1 + j]
  BY <1>1, BetweenIs
<1>3. t[i] \in Char
  BY ElementOfSeq
<1>4. <<t[i]>> \in Seq(Char) /\ Len(<<t[i]>>) = 1 /\ <<t[i]>>[1] = t[i]
  BY <1>3
<1>5. b \o Between(t, i, e) = Between(t, i - 1, e)
  BY <1>1, BetweenJoin
<1>6. Between(t, i, e) \in Seq(Char)
  BY <1>1, BetweenIs
<1>. DEFINE c == <<t[i]>>
<1>. HIDE DEF b, c
<1>7. b = c
  <2>1. Len(b) = 1 /\ b[1] = t[i]
    BY <1>1, <1>2
  <2>2. c \in Seq(Char) /\ Len(c) = 1 /\ c[1] = t[i]
    BY <1>4 DEF c
  <2>3. \A j \in 1 .. 1 : b[j] = c[j]
    BY <2>1, <2>2
  <2>. QED
    BY <1>2, <2>1, <2>2, <2>3, SeqEqual
<1>. QED
  BY <1>3, <1>4, <1>5, <1>6, <1>7 DEF c

(* Without a percent sign nothing is decoded.                               *)
LEMMA DecodePlain ==
  ASSUME NEW t \in Seq(Char), \A i \in 1 .. Len(t) : t[i] # Percent
  PROVE  urldecode(t) = t
<1>. DEFINE n == Len(t)
            f == CHOOSE g : g = [i \in 1 .. Len(t) + 1 |->
                                   IF i > Len(t) THEN << >>
                                   ELSE IF Escape(t, i) THEN <<Escaped(t, i)>> \o g[i + 3]
                                   ELSE <<t[i]>> \o g[i + 1]]
            b == [i \in 1 .. n + 1 |-> Between(t, i - 1, n)]
<1>1. n \in Nat
  BY LenProperties
<1>2. \A i \in 1 .. Len(t) : ~ Escape(t, i)
  BY DEF Escape
<1>3. urldecode(t) = f[1]
  BY DEF urldecode
<1>4. b[n + 1] = << >>
  <2>1. Between(t, n + 1 - 1, n) = << >>
    <3>1. n + 1 - 1 + 1 > n
      BY <1>1
    <3>. HIDE DEF n
    <3>. QED
      BY <1>1, <3>1, SubSeqEmpty DEF Between
  <2>2. n + 1 \in 1 .. n + 1
    BY <1>1
  <2>. QED
    BY <2>1, <2>2
<1>5. \A i \in 1 .. n : b[i] = <<t[i]>> \o b[i + 1]
  <2>. TAKE i \in 1 .. n
  <2>1. i \in 1 .. n + 1 /\ i + 1 \in 1 .. n + 1 /\ n \in i .. n /\ i + 1 - 1 = i
    BY <1>1
  <2>2. <<t[i]>> \o Between(t, i, n) = Between(t, i - 1, n)
    BY <2>1, BetweenNext
  <2>3. b[i] = Between(t, i - 1, n) /\ b[i + 1] = Between(t, i + 1 - 1, n)
    BY <2>1
  <2>. QED
    BY <2>1, <2>2, <2>3
<1>6. \A i \in 1 .. n + 1 : b[i] = IF i > Len(t) THEN << >>
                                   ELSE IF Escape(t, i) THEN <<Escaped(t, i)>> \o b[i + 3]
                                   ELSE <<t[i]>> \o b[i + 1]
  <2>. TAKE i \in 1 .. n + 1
  <2>. HIDE DEF b
  <2>1. CASE i = n + 1
    BY <1>1, <1>4, <2>1
  <2>2. CASE i # n + 1
    <3>1. i \in 1 .. n /\ ~ (i > Len(t))
      BY <1>1, <2>2
    <3>. QED
      BY <1>2, <1>5, <3>1
  <2>. QED
    BY <2>1, <2>2
<1>7. b = [i \in 1 .. Len(t) + 1 |-> IF i > Len(t) THEN << >>
                                   ELSE IF Escape(t, i) THEN <<Escaped(t, i)>> \o b[i + 3]
                                   ELSE <<t[i]>> \o b[i + 1]]
  BY <1>6
<1>. HIDE DEF b
<1>8. f = [i \in 1 .. Len(t) + 1 |-> IF i > Len(t) THEN << >>
                                   ELSE IF Escape(t, i) THEN <<Escaped(t, i)>> \o f[i + 3]
                                   ELSE <<t[i]>> \o f[i + 1]]
  BY <1>7, Zenon
<1>. HIDE DEF f
<1>9. f[n + 1] = << >> /\ \A i \in 1 .. n : f[i] = <<t[i]>> \o f[i + 1]
  <2>1. n + 1 \in 1 .. Len(t) + 1 /\ n + 1 > Len(t)
        /\ \A i \in 1 .. n : i \in 1 .. Len(t) + 1 /\ ~ (i > Len(t))
    BY <1>1
  <2>. QED
    BY <1>2, <1>8, <2>1
<1>. DEFINE S == {k \in Nat : k <= n => f[n + 1 - k] = b[n + 1 - k]}
<1>. HIDE DEF n
<1>10. 0 \in S
  <2>1. n + 1 - 0 = n + 1
    BY <1>1
  <2>. QED
    BY <1>4, <1>9, <2>1
<1>11. ASSUME NEW k \in Nat, k \in S PROVE k + 1 \in S
  <2>1. SUFFICES ASSUME k + 1 <= n PROVE f[n + 1 - (k + 1)] = b[n + 1 - (k + 1)]
    OBVIOUS
  <2>. DEFINE i == n + 1 - (k + 1)
  <2>2. i \in 1 .. n /\ i + 1 = n + 1 - k /\ k <= n
    BY <1>1, <2>1
  <2>3. f[n + 1 - k] = b[n + 1 - k]
    BY <1>11, <2>2
  <2>. HIDE DEF i
  <2>4. f[i] = <<t[i]>> \o f[i + 1] /\ b[i] = <<t[i]>> \o b[i + 1] /\ f[i + 1] = b[i + 1]
    BY <1>5, <1>9, <2>2, <2>3
  <2>5. f[i] = b[i]
    BY <2>4
  <2>. QED
    BY <2>5 DEF i
<1>12. n \in S
  <2>. HIDE DEF S
  <2>. QED
    BY <1>1, <1>10, <1>11, Induct
<1>13. f[1] = b[1]
  <2>1. n + 1 - n = 1
    BY <1>1
  <2>. QED
    BY <1>12, <2>1
<1>14. b[1] = t
  <2>1. 1 \in 1 .. n + 1 /\ 1 - 1 + 1 = 1
    BY <1>1
  <2>2. b[1] = SubSeq(t, 1 - 1 + 1, n)
    BY <2>1 DEF b, Between
  <2>. QED
    BY <2>1, <2>2, SubSeqFull DEF n
<1>. QED
  BY <1>3, <1>13, <1>14

(* A query ends at the first hash sign, or with the target.                 *)
HashAt(t) == {i \in 1 .. Len(t) : t[i] = Hash} \union {Len(t) + 1}

(* set_query gives the text before the first hash sign.                     *)
LEMMA QueryIs ==
  ASSUME NEW t \in Seq(Char)
  PROVE  /\ Min(HashAt(t)) \in 1 .. Len(t) + 1
         /\ set_query(t) = Between(t, 0, Min(HashAt(t)) - 1) /\ set_query(t) \in Seq(Char)
<1>. DEFINE n == Len(t)
            h == Min(HashAt(t))
            f == CHOOSE g : g = [i \in 1 .. Len(t) + 1 |->
                                   IF i > Len(t) THEN << >>
                                   ELSE IF t[i] = Hash THEN << >> ELSE <<t[i]>> \o g[i + 1]]
<1>1. n \in Nat
  BY LenProperties
<1>2. h \in HashAt(t) /\ \A i \in HashAt(t) : h <= i
  <2>1. HashAt(t) \in SUBSET Nat /\ HashAt(t) # {}
    BY <1>1 DEF HashAt
  <2>. QED
    BY <2>1, MinIsIn
<1>3. set_query(t) = f[1]
  BY DEF set_query
<1>4. PICK g : g = [i \in 1 .. Len(t) + 1 |->
                     IF i > Len(t) THEN << >>
                     ELSE IF t[i] = Hash THEN << >> ELSE <<t[i]>> \o g[i + 1]]
  <2>. DEFINE V == Seq(Char)
              jump == [i \in 1 .. n |-> i + 1]
              step == [i \in 1 .. n |-> [v \in V |-> IF t[i] = Hash THEN << >> ELSE <<t[i]>> \o v]]
  <2>1. << >> \in V
    OBVIOUS
  <2>2. jump \in [1 .. n -> 1 .. n + 1] /\ \A i \in 1 .. n : i < jump[i]
    BY <1>1
  <2>3. \A i \in 1 .. n : \A v \in V : (IF t[i] = Hash THEN << >> ELSE <<t[i]>> \o v) \in V
    <3>. TAKE i \in 1 .. n
    <3>. TAKE v \in V
    <3>1. <<t[i]>> \in V
      BY ElementOfSeq
    <3>2. <<t[i]>> \o v \in V
      BY <3>1, ConcatProperties
    <3>. QED
      BY <2>1, <3>2
  <2>4. step \in [1 .. n -> [V -> V]]
    BY <2>3
  <2>. HIDE DEF n, V
  <2>5. PICK g \in [1 .. n + 1 -> V] :
          \A i \in 1 .. n + 1 : g[i] = IF i > n THEN << >> ELSE step[i][g[jump[i]]]
    <3>. DEFINE base == << >>
    <3>1. base \in V
      BY <2>1
    <3>. HIDE DEF jump, step, base
    <3>2. Forward(V, n, base, jump, step)
      BY <1>1, <2>2, <2>4, <3>1 DEF Forward
    <3>3. PICK g : Follows(g, V, n, base, jump, step)
      BY <3>2, ForwardExists
    <3>. QED
      BY <3>3 DEF Follows, base
  <2>6. ASSUME NEW i \in 1 .. n + 1
        PROVE  g[i] = IF i > n THEN << >>
                      ELSE IF t[i] = Hash THEN << >> ELSE <<t[i]>> \o g[i + 1]
    <3>1. CASE i > n
      BY <2>5, <3>1
    <3>2. CASE ~ (i > n)
      <4>1. i \in 1 .. n /\ i + 1 \in 1 .. n + 1
        BY <1>1, <3>2
      <4>2. g[i + 1] \in V /\ jump[i] = i + 1
        BY <2>5, <4>1
      <4>. QED
        BY <2>5, <3>2, <4>1, <4>2
    <3>. QED
      BY <3>1, <3>2
  <2>7. g = [i \in 1 .. n + 1 |-> IF i > n THEN << >>
                      ELSE IF t[i] = Hash THEN << >> ELSE <<t[i]>> \o g[i + 1]]
    BY <2>5, <2>6
  <2>. QED
    BY <2>7 DEF n
<1>5. f = [i \in 1 .. Len(t) + 1 |->
             IF i > Len(t) THEN << >> ELSE IF t[i] = Hash THEN << >> ELSE <<t[i]>> \o f[i + 1]]
  BY <1>4, Zenon
<1>. HIDE DEF f, h
<1>6. h \in 1 .. n + 1 /\ h \in Nat /\ h - 1 \in 0 .. n
  BY <1>1, <1>2 DEF HashAt
<1>7. f[h] = << >>
  BY <1>1, <1>2, <1>5, <1>6 DEF HashAt
<1>8. \A i \in 1 .. n : i < h => f[i] = <<t[i]>> \o f[i + 1]
  <2>. TAKE i \in 1 .. n
  <2>1. SUFFICES ASSUME i < h PROVE f[i] = <<t[i]>> \o f[i + 1]
    OBVIOUS
  <2>2. t[i] # Hash
    BY <1>2, <1>6, <2>1 DEF HashAt
  <2>3. i \in 1 .. Len(t) + 1 /\ ~ (i > Len(t))
    BY <1>1
  <2>. QED
    BY <1>5, <2>2, <2>3
<1>. DEFINE B(i) == Between(t, i - 1, h - 1)
            S == {k \in Nat : k < h => f[h - k] = B(h - k)}
<1>9. 0 \in S
  <2>1. B(h) = << >>
    <3>1. h - 1 + 1 > h - 1 /\ h - 1 + 1 \in Int /\ h - 1 \in Int
      BY <1>6
    <3>. QED
      BY <3>1, SubSeqEmpty DEF Between
  <2>2. h - 0 = h
    BY <1>6
  <2>. QED
    BY <1>7, <2>1, <2>2
<1>10. ASSUME NEW k \in Nat, k \in S PROVE k + 1 \in S
  <2>1. SUFFICES ASSUME k + 1 < h PROVE f[h - (k + 1)] = B(h - (k + 1))
    OBVIOUS
  <2>. DEFINE i == h - (k + 1)
  <2>2. i \in 1 .. n /\ i < h /\ i + 1 = h - k /\ k < h /\ h - 1 \in i .. Len(t) /\ i + 1 - 1 = i
    BY <1>1, <1>6, <2>1
  <2>3. f[h - k] = B(h - k)
    BY <1>10, <2>2
  <2>. HIDE DEF i
  <2>4. f[i] = <<t[i]>> \o Between(t, i, h - 1)
    BY <1>8, <2>2, <2>3
  <2>5. <<t[i]>> \o Between(t, i, h - 1) = Between(t, i - 1, h - 1)
    BY <2>2, BetweenNext
  <2>6. f[i] = B(i)
    BY <2>4, <2>5
  <2>. QED
    BY <2>6 DEF i
<1>11. \A k \in Nat : k \in S
  <2>. HIDE DEF S
  <2>. QED
    BY <1>9, <1>10, Induct
<1>12. f[1] = Between(t, 0, h - 1)
  <2>1. h - 1 \in Nat /\ h - 1 < h /\ h - (h - 1) = 1 /\ 1 - 1 = 0
    BY <1>6
  <2>2. f[h - (h - 1)] = B(h - (h - 1))
    BY <1>11, <2>1
  <2>. QED
    BY <2>1, <2>2
<1>13. Between(t, 0, h - 1) \in Seq(Char)
  <2>1. 0 \in 0 .. Len(t) /\ h - 1 \in 0 .. Len(t)
    BY <1>1, <1>6
  <2>. QED
    BY <2>1, BetweenIs
<1>. QED
  BY <1>3, <1>6, <1>12, <1>13 DEF h

(* What set_path finds behind each place of the target.                     *)
PathStep(u, g, i) ==
  IF i > Len(u) THEN [path |-> << >>, query |-> << >>]
  ELSE IF Escape(u, i) THEN [g[i + 3] EXCEPT !.path = <<Escaped(u, i)>> \o @]
  ELSE IF u[i] = Question
       THEN [path |-> << >>, query |-> set_query(SubSeq(u, i + 1, Len(u)))]
  ELSE IF u[i] = Hash THEN [path |-> << >>, query |-> << >>]
  ELSE [g[i + 1] EXCEPT !.path = <<u[i]>> \o @]
PathSteps(u, f) == \A i \in 1 .. Len(u) + 1 : f[i] = PathStep(u, f, i)

(* An escape in a target stands for a byte.                                 *)
LEMMA EscapedIs ==
  ASSUME NEW u \in Seq(Char), NEW i \in 1 .. Len(u), Escape(u, i)
  PROVE  /\ Escaped(u, i) \in Char
         /\ i + 1 \in 1 .. Len(u) /\ i + 2 \in 1 .. Len(u)
         /\ u[i + 1] \in Char /\ u[i + 2] \in Char
<1>1. Len(u) \in Nat /\ i \in Nat /\ i + 2 <= Len(u)
  BY LenProperties DEF Escape
<1>2. i + 1 \in 1 .. Len(u) /\ i + 2 \in 1 .. Len(u)
  BY <1>1
<1>3. u[i + 1] \in Char /\ u[i + 2] \in Char
  BY <1>2, ElementOfSeq
<1>4. \A c \in Char : hex2int(c) \in Int
  BY DEF hex2int, Upper, Char
<1>5. hex2int(u[i + 1]) \in Int /\ hex2int(u[i + 2]) \in Int
  BY <1>3, <1>4
<1>6. \A a, b \in Int : (a * 16 + b) % 256 \in Char
  BY DEF Char
<1>. QED
  BY <1>2, <1>3, <1>5, <1>6 DEF Escaped

(* The scan of set_path is a function that satisfies its equations.         *)
LEMMA SetPathIs ==
  ASSUME NEW u \in Seq(Char)
  PROVE  \E f : PathSteps(u, f) /\ set_path(u) = [f[1] EXCEPT !.path = urldecode(@)]
<1>. DEFINE n == Len(u)
            f == CHOOSE g : g = [i \in 1 .. Len(u) + 1 |->
                  IF i > Len(u) THEN [path |-> << >>, query |-> << >>]
                  ELSE IF Escape(u, i) THEN [g[i + 3] EXCEPT !.path = <<Escaped(u, i)>> \o @]
                  ELSE IF u[i] = Question
                       THEN [path |-> << >>, query |-> set_query(SubSeq(u, i + 1, Len(u)))]
                  ELSE IF u[i] = Hash THEN [path |-> << >>, query |-> << >>]
                  ELSE [g[i + 1] EXCEPT !.path = <<u[i]>> \o @]]
<1>1. n \in Nat
  BY LenProperties
<1>2. set_path(u) = [f[1] EXCEPT !.path = urldecode(@)]
  BY DEF set_path
<1>3. PICK g : g = [i \in 1 .. Len(u) + 1 |-> PathStep(u, g, i)]
  <2>. DEFINE V == [path: Seq(Char), query: Seq(Char)]
              base == [path |-> << >>, query |-> << >>]
              jump == [i \in 1 .. n |-> IF Escape(u, i) THEN i + 3 ELSE i + 1]
              Next1(i, v) ==
                IF Escape(u, i) THEN [v EXCEPT !.path = <<Escaped(u, i)>> \o @]
                ELSE IF u[i] = Question
                     THEN [path |-> << >>, query |-> set_query(SubSeq(u, i + 1, Len(u)))]
                ELSE IF u[i] = Hash THEN base
                ELSE [v EXCEPT !.path = <<u[i]>> \o @]
              step == [i \in 1 .. n |-> [v \in V |-> Next1(i, v)]]
  <2>1. base \in V
    OBVIOUS
  <2>2. jump \in [1 .. n -> 1 .. n + 1] /\ \A i \in 1 .. n : i < jump[i]
    <3>1. \A i \in 1 .. n : Escape(u, i) => i + 3 \in 1 .. n + 1
      BY <1>1 DEF Escape
    <3>2. \A i \in 1 .. n : i + 1 \in 1 .. n + 1 /\ i < i + 1 /\ i < i + 3
      BY <1>1
    <3>. HIDE DEF n
    <3>. QED
      BY <3>1, <3>2
  <2>3. \A i \in 1 .. n : \A v \in V : Next1(i, v) \in V
    <3>. TAKE i \in 1 .. n
    <3>. TAKE v \in V
    <3>1. \A c \in Char : [v EXCEPT !.path = <<c>> \o @] \in V
      <4>. TAKE c \in Char
      <4>1. v.path \in Seq(Char) /\ <<c>> \in Seq(Char)
        OBVIOUS
      <4>2. <<c>> \o v.path \in Seq(Char)
        BY <4>1, ConcatProperties
      <4>. QED
        BY <4>2
    <3>2. u[i] \in Char
      BY ElementOfSeq
    <3>3. Escape(u, i) => Escaped(u, i) \in Char
      BY EscapedIs
    <3>4. set_query(SubSeq(u, i + 1, Len(u))) \in Seq(Char)
      <4>1. SubSeq(u, i + 1, Len(u)) \in Seq(Char)
        <5>1. i \in 0 .. Len(u) /\ Len(u) \in i .. Len(u)
          BY <1>1
        <5>. QED
          BY <5>1, BetweenIs DEF Between
      <4>. QED
        BY <4>1, QueryIs
    <3>. QED
      BY <2>1, <3>1, <3>2, <3>3, <3>4
  <2>4. step \in [1 .. n -> [V -> V]]
    <3>. HIDE DEF Next1, V, n
    <3>. QED
      BY <2>3
  <2>5. \A i \in 1 .. n : \A v \in V : step[i][v] = Next1(i, v)
    <3>. HIDE DEF Next1, V, n
    <3>. QED
      OBVIOUS
  <2>6. \A i \in 1 .. n : jump[i] = IF Escape(u, i) THEN i + 3 ELSE i + 1
    OBVIOUS
  <2>. HIDE DEF n, V, jump, step, base
  <2>7. Forward(V, n, base, jump, step)
    BY <1>1, <2>1, <2>2, <2>4 DEF Forward
  <2>8. PICK g : Follows(g, V, n, base, jump, step)
    BY <2>7, ForwardExists
  <2>9. /\ g \in [1 .. n + 1 -> V]
        /\ \A i \in 1 .. n + 1 : g[i] = IF i > n THEN base ELSE step[i][g[jump[i]]]
    BY <2>8 DEF Follows
  <2>10. ASSUME NEW i \in 1 .. n + 1 PROVE g[i] = PathStep(u, g, i)
    <3>1. CASE i > n
      BY <2>9, <3>1 DEF PathStep, n, base
    <3>2. CASE ~ (i > n)
      <4>1. i \in 1 .. n /\ ~ (i > Len(u))
        BY <1>1, <3>2 DEF n
      <4>2. jump[i] \in 1 .. n + 1
        BY <2>2, <4>1
      <4>3. g[jump[i]] \in V
        BY <2>9, <4>2
      <4>4. g[i] = Next1(i, g[jump[i]])
        BY <2>5, <2>9, <3>2, <4>1, <4>3
      <4>5. Next1(i, g[jump[i]]) = PathStep(u, g, i)
        BY <2>6, <4>1 DEF PathStep, base
      <4>. QED
        BY <4>4, <4>5
    <3>. QED
      BY <3>1, <3>2
  <2>11. g = [i \in 1 .. n + 1 |-> PathStep(u, g, i)]
    BY <2>9, <2>10
  <2>. QED
    BY <2>11 DEF n
<1>4. f = [i \in 1 .. Len(u) + 1 |-> PathStep(u, f, i)]
  BY <1>3, Zenon DEF PathStep
<1>. HIDE DEF f
<1>5. PathSteps(u, f)
  BY <1>4, Zenon DEF PathSteps
<1>. QED
  BY <1>2, <1>5

(* A least member is the minimum.                                           *)
LEMMA MinIs ==
  ASSUME NEW S \in SUBSET Nat, NEW x \in S, \A y \in S : x <= y
  PROVE  Min(S) = x
<1>1. Min(S) \in S /\ Min(S) <= x /\ x <= Min(S)
  BY MinIsIn
<1>2. Min(S) \in Nat /\ x \in Nat
  BY <1>1
<1>. QED
  BY <1>1, <1>2

(* Where the path ends, and what comes then.                                *)
PathEnd(u) == Min(Ends(u) \union {Len(u) + 1})

(* The path has no question mark or hash sign, and one of them behind it    *)
(* unless it is the whole target.                                           *)
LEMMA PathEndIs ==
  ASSUME NEW u \in Seq(Char)
  PROVE  LET e == PathEnd(u)
             p == PathOf(u)
         IN  /\ e \in 1 .. Len(u) + 1
             /\ \A i \in 1 .. e - 1 : u[i] # Question /\ u[i] # Hash
             /\ IF e = Len(u) + 1 THEN Ends(u) = {}
                ELSE u[e] \in {Question, Hash} /\ Ends(u) # {} /\ Min(Ends(u)) = e
             /\ p \in Seq(Char) /\ Len(p) = e - 1
             /\ \A i \in 1 .. e - 1 : p[i] = u[i]
<1>. DEFINE n == Len(u)
            S == Ends(u) \union {n + 1}
            e == PathEnd(u)
            p == PathOf(u)
<1>1. n \in Nat /\ Ends(u) = {i \in 1 .. n : u[i] \in {Question, Hash}}
  BY LenProperties DEF Ends
<1>2. S \in SUBSET Nat /\ S # {} /\ Ends(u) \in SUBSET Nat
  BY <1>1
<1>3. e \in S /\ \A i \in S : e <= i
  BY <1>2, MinIsIn DEF PathEnd
<1>4. p = SubSeq(u, 1, e - 1)
  BY DEF PathOf, PathEnd
<1>. HIDE DEF e, p
<1>5. e \in 1 .. n + 1 /\ e - 1 \in 0 .. n
  BY <1>1, <1>3
<1>6. ASSUME NEW i \in 1 .. e - 1 PROVE u[i] # Question /\ u[i] # Hash
  <2>1. i \in 1 .. n /\ ~ (e <= i)
    BY <1>1, <1>5
  <2>2. i \notin Ends(u)
    BY <1>3, <2>1
  <2>. QED
    BY <1>1, <2>1, <2>2
<1>7. CASE e = n + 1
  <2>1. Ends(u) = {}
    BY <1>1, <1>3, <1>7
  <2>. QED
    BY <1>4, <1>5, <1>6, <1>7, <2>1, FirstIs DEF First, e, p
<1>8. CASE e # n + 1
  <2>1. e \in Ends(u) /\ \A i \in Ends(u) : e <= i
    BY <1>3, <1>8
  <2>2. Min(Ends(u)) = e
    BY <1>2, <2>1, MinIs
  <2>3. u[e] \in {Question, Hash}
    BY <1>1, <2>1
  <2>. QED
    BY <1>4, <1>5, <1>6, <1>8, <2>1, <2>2, <2>3, FirstIs DEF First, e, p
<1>. QED
  BY <1>7, <1>8

(* Behind a question mark the scan gives the query.                         *)
LEMMA QueryBehind ==
  ASSUME NEW u \in Seq(Char), NEW e \in 1 .. Len(u), u[e] = Question, Ends(u) # {}, Min(Ends(u)) = e
  PROVE  set_query(SubSeq(u, e + 1, Len(u))) = QueryOf(u)
<1>. DEFINE n == Len(u)
            t == Between(u, e, n)
            h == Min(HashAt(t))
            T == {i \in e .. n : u[i] = Hash} \union {n + 1}
<1>1. n \in Nat /\ e \in Nat /\ e \in 0 .. n /\ n \in e .. n /\ e <= n /\ u[e] # Hash
  BY LenProperties DEF Question, Hash
<1>2. t \in Seq(Char) /\ Len(t) = n - e /\ \A i \in 1 .. n - e : t[i] = u[e + i]
  BY <1>1, BetweenIs
<1>3. /\ h \in 1 .. Len(t) + 1
      /\ set_query(t) = Between(t, 0, h - 1)
  BY <1>2, QueryIs
<1>4. h \in HashAt(t) /\ \A i \in HashAt(t) : h <= i
  <2>1. HashAt(t) \in SUBSET Nat /\ HashAt(t) # {}
    BY <1>1, <1>2 DEF HashAt
  <2>. QED
    BY <2>1, MinIsIn
<1>5. SubSeq(u, e + 1, n) = t
  BY DEF Between
<1>. HIDE DEF t, h
<1>6. h \in 1 .. n - e + 1 /\ h \in Nat /\ e + h \in 1 .. n + 1
  BY <1>1, <1>2, <1>3
<1>7. e + h \in T
  <2>1. CASE h = n - e + 1
    BY <1>1, <2>1
  <2>2. CASE h # n - e + 1
    <3>1. h \in 1 .. n - e
      BY <1>1, <1>6, <2>2
    <3>2. t[h] = Hash
      BY <1>1, <1>2, <1>4, <3>1 DEF HashAt
    <3>. QED
      BY <1>1, <1>2, <1>6, <3>1, <3>2
  <2>. QED
    BY <2>1, <2>2
<1>8. ASSUME NEW i \in T PROVE e + h <= i
  <2>1. CASE i = n + 1
    BY <1>1, <1>6, <2>1
  <2>2. CASE i # n + 1
    <3>1. i \in e .. n /\ u[i] = Hash
      BY <2>2
    <3>2. i # e
      BY <1>1, <3>1
    <3>3. i - e \in 1 .. n - e /\ e + (i - e) = i
      BY <1>1, <3>1, <3>2
    <3>4. i - e \in HashAt(t)
      BY <1>2, <3>1, <3>3 DEF HashAt
    <3>5. h <= i - e
      BY <1>4, <3>4
    <3>. QED
      BY <1>1, <1>6, <3>1, <3>5
  <2>. QED
    BY <2>1, <2>2
<1>9. Min(T) = e + h
  <2>1. T \in SUBSET Nat
    BY <1>1
  <2>. HIDE DEF T
  <2>. QED
    BY <1>7, <1>8, <2>1, MinIs
<1>10. QueryOf(u) = SubSeq(u, e + 1, Min(T) - 1)
  BY <1>1 DEF QueryOf
<1>. DEFINE k == e + h - 1
<1>11. Between(t, 0, h - 1) = Between(u, e, k)
  <2>1. k \in e .. n /\ k - e = h - 1
    BY <1>1, <1>6
  <2>. HIDE DEF k
  <2>2. SubSeq(Between(u, e, n), 1, k - e) = Between(u, e, k)
    BY <1>1, <2>1, BetweenStart
  <2>3. Between(t, 0, h - 1) = SubSeq(t, 1, h - 1)
    BY DEF Between
  <2>. QED
    BY <2>1, <2>2, <2>3 DEF t
<1>. HIDE DEF T
<1>12. set_query(t) = SubSeq(u, e + 1, k)
  BY <1>3, <1>11 DEF Between
<1>13. Min(T) - 1 = k
  BY <1>1, <1>6, <1>9
<1>14. QueryOf(u) = SubSeq(u, e + 1, k)
  BY <1>10, <1>13, Zenon
<1>. QED
  BY <1>5, <1>12, <1>14

(* Where the path ends the scan gives the query, and no path.               *)
LEMMA BehindPath ==
  ASSUME NEW u \in Seq(Char), NEW f, PathSteps(u, f)
  PROVE  f[PathEnd(u)] = [path |-> << >>, query |-> QueryOf(u)]
<1>. DEFINE e == PathEnd(u)
<1>1. /\ e \in 1 .. Len(u) + 1
      /\ IF e = Len(u) + 1 THEN Ends(u) = {}
         ELSE u[e] \in {Question, Hash} /\ Ends(u) # {} /\ Min(Ends(u)) = e
  BY PathEndIs
<1>2. Len(u) \in Nat
  BY LenProperties
<1>. HIDE DEF e
<1>3. f[e] = PathStep(u, f, e)
  BY <1>1 DEF PathSteps
<1>4. CASE e = Len(u) + 1
  <2>1. e > Len(u) /\ QueryOf(u) = << >>
    BY <1>1, <1>2, <1>4 DEF QueryOf
  <2>. QED
    BY <1>3, <2>1 DEF PathStep, e
<1>5. CASE e # Len(u) + 1 /\ u[e] = Question
  <2>1. ~ (e > Len(u)) /\ e \in 1 .. Len(u)
    BY <1>1, <1>2, <1>5
  <2>2. ~ Escape(u, e)
    BY <1>5 DEF Escape, Percent, Question
  <2>3. set_query(SubSeq(u, e + 1, Len(u))) = QueryOf(u)
    BY <1>1, <1>5, <2>1, QueryBehind
  <2>4. f[e] = [path |-> << >>, query |-> set_query(SubSeq(u, e + 1, Len(u)))]
    BY <1>3, <1>5, <2>1, <2>2 DEF PathStep
  <2>. QED
    BY <2>3, <2>4 DEF e
<1>6. CASE e # Len(u) + 1 /\ u[e] = Hash
  <2>1. ~ (e > Len(u)) /\ ~ Escape(u, e) /\ u[e] # Question
    BY <1>1, <1>2, <1>6 DEF Escape, Percent, Question, Hash
  <2>2. QueryOf(u) = << >>
    BY <1>1, <1>6 DEF QueryOf
  <2>3. f[e] = [path |-> << >>, query |-> << >>]
    BY <1>3, <1>6, <2>1 DEF PathStep
  <2>. QED
    BY <2>2, <2>3 DEF e
<1>. QED
  BY <1>1, <1>4, <1>5, <1>6

(* The places of a path at which a character of the decoded path starts.    *)
Tokens(p) == {i \in DOMAIN p : \A j \in DOMAIN p \intersect {i - 1, i - 2} : p[j] # Percent}
Jump(p, i) == IF p[i] = Percent THEN i + 3 ELSE i + 1

(* The next token is behind the byte, or behind the escape.                 *)
LEMMA TokenNext ==
  ASSUME NEW p \in Seq(Char), WellEscaped(p), NEW i \in Tokens(p)
  PROVE  LET k == Jump(p, i)
         IN  /\ i \in 1 .. Len(p) /\ k \in Nat /\ i < k
             /\ k = Len(p) + 1 \/ k \in Tokens(p)
             /\ \A j \in Tokens(p) : j > i => j >= k
             /\ p[i] = Percent => /\ i + 1 \in 1 .. Len(p) /\ i + 2 \in 1 .. Len(p)
                                  /\ HexDigit(p[i + 1]) /\ HexDigit(p[i + 2])
<1>1. Len(p) \in Nat /\ DOMAIN p = 1 .. Len(p)
  BY LenProperties
<1>2. i \in 1 .. Len(p) /\ \A j \in 1 .. Len(p) : j = i - 1 \/ j = i - 2 => p[j] # Percent
  BY <1>1 DEF Tokens
<1>3. CASE p[i] # Percent
  <2>1. Jump(p, i) = i + 1
    BY <1>3 DEF Jump
  <2>2. i + 1 <= Len(p) => i + 1 \in Tokens(p)
    BY <1>1, <1>2, <1>3 DEF Tokens
  <2>3. \A j \in Tokens(p) : j > i => j >= i + 1
    BY <1>1, <1>2 DEF Tokens
  <2>4. i + 1 <= Len(p) \/ i + 1 = Len(p) + 1
    BY <1>1, <1>2
  <2>. QED
    BY <1>1, <1>2, <1>3, <2>1, <2>2, <2>3, <2>4
<1>4. CASE p[i] = Percent
  <2>1. Jump(p, i) = i + 3
    BY <1>4 DEF Jump
  <2>2. i + 2 <= Len(p) /\ HexDigit(p[i + 1]) /\ HexDigit(p[i + 2])
    BY <1>1, <1>2, <1>4 DEF WellEscaped
  <2>3. i + 1 \in 1 .. Len(p) /\ i + 2 \in 1 .. Len(p)
    BY <1>1, <1>2, <2>2
  <2>4. p[i + 1] # Percent /\ p[i + 2] # Percent
    <3>1. ~ HexDigit(37)
      BY DEF HexDigit, Upper
    <3>. QED
      BY <2>2, <3>1 DEF Percent
  <2>5. i + 3 <= Len(p) => i + 3 \in Tokens(p)
    <3>1. SUFFICES ASSUME i + 3 <= Len(p) PROVE i + 3 \in Tokens(p)
      OBVIOUS
    <3>2. i + 3 \in 1 .. Len(p) /\ i + 3 - 1 = i + 2 /\ i + 3 - 2 = i + 1
      BY <1>1, <1>2, <3>1
    <3>. QED
      BY <1>1, <2>4, <3>2 DEF Tokens
  <2>6. ASSUME NEW j \in Tokens(p), j > i PROVE j >= i + 3
    <3>1. j \in 1 .. Len(p) /\ ~ (j - 1 = i) /\ ~ (j - 2 = i)
      BY <1>1, <1>2, <1>4 DEF Tokens
    <3>. QED
      BY <1>1, <1>2, <2>6, <3>1
  <2>7. i + 3 <= Len(p) \/ i + 3 = Len(p) + 1
    BY <1>1, <1>2, <2>2
  <2>. QED
    BY <1>1, <1>2, <2>1, <2>2, <2>3, <2>5, <2>6, <2>7
<1>. QED
  BY <1>3, <1>4

(* One after the other, these places lead from the start to the end.        *)
LEMMA TokensInOrder ==
  ASSUME NEW p \in Seq(Char), WellEscaped(p)
  PROVE  LET es == Ascending(Tokens(p))
             n  == Cardinality(Tokens(p))
         IN  /\ n \in Nat /\ DOMAIN es = 1 .. n
             /\ \A k \in 1 .. n :
                  /\ es[k] \in Tokens(p)
                  /\ Jump(p, es[k]) = IF k = n THEN Len(p) + 1 ELSE es[k + 1]
             /\ IF n = 0 THEN Len(p) = 0 ELSE es[1] = 1
<1>. DEFINE T == Tokens(p)
            es == Ascending(T)
            n == Cardinality(T)
            l == Len(p)
<1>1. l \in Nat /\ DOMAIN p = 1 .. l
  BY LenProperties
<1>2. T \in SUBSET Nat /\ (\A x \in T : x < l + 1) /\ l + 1 \in Nat /\ \A x \in T : x \in 1 .. l
  BY <1>1 DEF Tokens
<1>3. \A i \in T : /\ Jump(p, i) \in Nat /\ i < Jump(p, i)
                   /\ Jump(p, i) = l + 1 \/ Jump(p, i) \in T
                   /\ \A j \in T : j > i => j >= Jump(p, i)
  BY TokenNext
<1>4. l > 0 => 1 \in T
  BY <1>1 DEF Tokens
<1>. HIDE DEF T, l
<1>5. /\ n \in Nat /\ es \in Seq(T) /\ Len(es) = n /\ DOMAIN es = 1 .. n
      /\ \A i, j \in 1 .. n : i < j => es[i] < es[j]
      /\ \A x \in T : \E i \in 1 .. n : es[i] = x
  BY <1>2, AscendingIs
<1>6. \A k \in 1 .. n : es[k] \in T /\ es[k] \in Nat
  BY <1>2, <1>5, ElementOfSeq
<1>. HIDE DEF es, n
<1>7. ASSUME NEW k \in 1 .. n
      PROVE  Jump(p, es[k]) = IF k = n THEN l + 1 ELSE es[k + 1]
  <2>. DEFINE x == Jump(p, es[k])
  <2>1. /\ x \in Nat /\ es[k] < x /\ (x = l + 1 \/ x \in T)
        /\ \A j \in T : j > es[k] => j >= x
    BY <1>3, <1>6
  <2>. HIDE DEF x
  <2>2. CASE k = n
    <3>1. x \notin T
      <4>1. SUFFICES ASSUME x \in T PROVE FALSE
        OBVIOUS
      <4>2. PICK j \in 1 .. n : es[j] = x
        BY <1>5, <4>1
      <4>3. j < k \/ j = k
        BY <1>5, <2>2
      <4>4. es[j] < es[k] \/ es[j] = es[k]
        BY <1>5, <4>3
      <4>. QED
        BY <1>6, <2>1, <4>2, <4>4
    <3>. QED
      BY <2>1, <2>2, <3>1 DEF x
  <2>3. CASE k # n
    <3>1. k + 1 \in 1 .. n /\ k < k + 1
      BY <1>5, <2>3
    <3>2. es[k] < es[k + 1] /\ es[k + 1] \in T /\ es[k + 1] \in Nat
      BY <1>5, <1>6, <3>1
    <3>3. es[k + 1] >= x
      BY <1>6, <2>1, <3>2
    <3>4. x \in T
      BY <1>2, <2>1, <3>2, <3>3
    <3>5. PICK j \in 1 .. n : es[j] = x
      BY <1>5, <3>4
    <3>6. ~ (j < k) /\ j # k
      <4>1. j < k => es[j] < es[k]
        BY <1>5
      <4>. QED
        BY <1>6, <2>1, <3>5, <4>1
    <3>7. j = k + 1 \/ k + 1 < j
      BY <1>5, <3>6
    <3>8. k + 1 < j => es[k + 1] < es[j]
      BY <1>5, <3>1
    <3>9. x = es[k + 1]
      BY <2>1, <3>2, <3>3, <3>5, <3>7, <3>8
    <3>. QED
      BY <2>3, <3>9 DEF x
  <2>. QED
    BY <2>2, <2>3
<1>8. IF n = 0 THEN l = 0 ELSE es[1] = 1
  <2>1. l = 0 \/ l > 0
    BY <1>2, <1>1
  <2>2. n = 0 => l = 0
    <3>1. n = 0 => 1 \notin T
      BY <1>5
    <3>. QED
      BY <1>4, <2>1, <3>1
  <2>3. n # 0 => es[1] = 1
    <3>1. SUFFICES ASSUME n # 0 PROVE es[1] = 1
      OBVIOUS
    <3>2. 1 \in 1 .. n
      BY <1>5, <3>1
    <3>3. es[1] \in 1 .. l
      BY <1>2, <1>6, <3>2
    <3>4. 1 \in T
      BY <1>1, <1>4, <3>3
    <3>5. PICK j \in 1 .. n : es[j] = 1
      BY <1>5, <3>4
    <3>6. j = 1 \/ 1 < j
      BY <1>5
    <3>7. 1 < j => es[1] < es[j]
      BY <1>5, <3>2
    <3>. QED
      BY <1>1, <3>3, <3>5, <3>6, <3>7
  <2>. QED
    BY <2>2, <2>3
<1>. QED
  BY <1>5, <1>6, <1>7, <1>8 DEF es, n, T, l

(* hex2int gives the value of a hexadecimal digit.                          *)
LEMMA HexIs ==
  ASSUME NEW c \in Char, HexDigit(c)
  PROVE  hex2int(c) = Hex(c) /\ Hex(c) \in 0 .. 15
<1>1. c \in Int
  BY DEF Char
<1>2. CASE c \in 48 .. 57
  BY <1>2 DEF hex2int, Hex, Upper
<1>3. CASE c \notin 48 .. 57
  <2>1. Upper(c) \in 65 .. 70
    BY <1>3 DEF HexDigit
  <2>2. c \in 65 .. 70 \/ c \in 97 .. 102
    BY <1>1, <2>1 DEF Upper
  <2>. QED
    BY <1>3, <2>2 DEF hex2int, Hex, Upper
<1>. QED
  BY <1>2, <1>3

(* A token of the path is one character of the decoded path, and what       *)
(* set_path finds for it.                                                   *)
LEMMA DecodedIs ==
  ASSUME NEW u \in Seq(Char), WellEscaped(PathOf(u))
  PROVE  LET p  == PathOf(u)
             d  == Decoded(p)
             es == Ascending(Tokens(p))
             n  == Cardinality(Tokens(p))
         IN  /\ d \in Seq(Char) /\ Len(d) = n
             /\ \A k \in 1 .. n :
                  /\ es[k] \in 1 .. Len(u) /\ u[es[k]] # Question /\ u[es[k]] # Hash
                  /\ IF p[es[k]] = Percent
                     THEN Escape(u, es[k]) /\ d[k] = Escaped(u, es[k])
                     ELSE ~ Escape(u, es[k]) /\ d[k] = u[es[k]]
<1>. DEFINE e  == PathEnd(u)
            p  == PathOf(u)
            d  == Decoded(p)
            es == Ascending(Tokens(p))
            n  == Cardinality(Tokens(p))
            Value(i) == IF p[i] = Percent THEN 16 * Hex(p[i + 1]) + Hex(p[i + 2]) ELSE p[i]
<1>1. /\ e \in 1 .. Len(u) + 1 /\ Len(u) \in Nat
      /\ \A i \in 1 .. e - 1 : u[i] # Question /\ u[i] # Hash
      /\ p \in Seq(Char) /\ Len(p) = e - 1
      /\ \A i \in 1 .. e - 1 : p[i] = u[i]
  BY PathEndIs, LenProperties
<1>2. /\ n \in Nat /\ DOMAIN es = 1 .. n /\ \A k \in 1 .. n : es[k] \in Tokens(p)
  BY <1>1, TokensInOrder
<1>3. d = [k \in DOMAIN es |-> Value(es[k])]
  BY DEF Decoded, Tokens
<1>4. WellEscaped(p)
  OBVIOUS
<1>. HIDE DEF e, p, d, es, n
<1>5. ASSUME NEW i \in Tokens(p)
      PROVE  /\ Value(i) \in Char /\ i \in 1 .. Len(u) /\ u[i] # Question /\ u[i] # Hash
             /\ IF p[i] = Percent THEN Escape(u, i) /\ Value(i) = Escaped(u, i)
                ELSE ~ Escape(u, i) /\ Value(i) = u[i]
  <2>1. /\ i \in 1 .. Len(p)
        /\ p[i] = Percent => /\ i + 1 \in 1 .. Len(p) /\ i + 2 \in 1 .. Len(p)
                             /\ HexDigit(p[i + 1]) /\ HexDigit(p[i + 2])
    BY <1>1, <1>4, TokenNext
  <2>2. i \in 1 .. Len(u) /\ i \in 1 .. e - 1 /\ u[i] # Question /\ u[i] # Hash /\ p[i] = u[i]
    BY <1>1, <2>1
  <2>3. CASE p[i] # Percent
    <3>1. ~ Escape(u, i) /\ Value(i) = p[i]
      BY <2>2, <2>3 DEF Escape
    <3>2. p[i] \in Char
      BY <1>1, <2>1, ElementOfSeq
    <3>. QED
      BY <2>2, <2>3, <3>1, <3>2
  <2>4. CASE p[i] = Percent
    <3>. DEFINE x == p[i + 1]
                y == p[i + 2]
    <3>1. i + 1 \in 1 .. Len(p) /\ i + 2 \in 1 .. Len(p) /\ HexDigit(x) /\ HexDigit(y)
      BY <2>1, <2>4
    <3>2. x \in Char /\ y \in Char
      BY <1>1, <3>1, ElementOfSeq
    <3>3. u[i + 1] = x /\ u[i + 2] = y
      BY <1>1, <3>1
    <3>4. Value(i) = 16 * Hex(x) + Hex(y)
      BY <2>4
    <3>5. Escape(u, i)
      BY <1>1, <2>2, <2>4, <3>1 DEF Escape
    <3>6. Escaped(u, i) = (hex2int(x) * 16 + hex2int(y)) % 256
      BY <3>3 DEF Escaped
    <3>. HIDE DEF x, y
    <3>7. hex2int(x) = Hex(x) /\ Hex(x) \in 0 .. 15 /\ hex2int(y) = Hex(y) /\ Hex(y) \in 0 .. 15
      BY <3>1, <3>2, HexIs
    <3>8. \A a, b \in 0 .. 15 : (a * 16 + b) % 256 = 16 * a + b /\ 16 * a + b \in 0 .. 255
      OBVIOUS
    <3>9. Value(i) = Escaped(u, i) /\ Value(i) \in Char
      <4>. DEFINE a == Hex(x)
                  b == Hex(y)
      <4>1. /\ a \in 0 .. 15 /\ b \in 0 .. 15
            /\ Value(i) = 16 * a + b /\ Escaped(u, i) = (a * 16 + b) % 256
        BY <3>4, <3>6, <3>7
      <4>. HIDE DEF a, b, Value
      <4>2. (a * 16 + b) % 256 = 16 * a + b /\ 16 * a + b \in 0 .. 255
        BY <3>8, <4>1
      <4>. QED
        BY <4>1, <4>2 DEF Char
    <3>. QED
      BY <2>2, <2>4, <3>5, <3>9
  <2>. QED
    BY <2>3, <2>4
<1>. HIDE DEF Value
<1>6. d \in [1 .. n -> Char] /\ \A k \in 1 .. n : d[k] = Value(es[k])
  BY <1>2, <1>3, <1>5
<1>7. d \in Seq(Char) /\ Len(d) = n
  BY <1>2, <1>6
<1>. QED
  BY <1>2, <1>5, <1>6, <1>7 DEF d, es, n, p

(* set_path gives the decoded path and the query: by the least token behind *)
(* which the scan does not give the rest of the path.                       *)
LEMMA TargetIs ==
  ASSUME NEW u \in Seq(Char), WellEscaped(PathOf(u)), Percent \notin ToSet(Decoded(PathOf(u)))
  PROVE  set_path(u) = [path |-> Decoded(PathOf(u)), query |-> QueryOf(u)]
<1>. DEFINE e  == PathEnd(u)
            p  == PathOf(u)
            d  == Decoded(p)
            es == Ascending(Tokens(p))
            n  == Cardinality(Tokens(p))
            q  == QueryOf(u)
            Pos(k) == IF k = n + 1 THEN e ELSE es[k]
            Tail1(k) == [path |-> Between(d, k - 1, n), query |-> q]
<1>1. PICK f : PathSteps(u, f) /\ set_path(u) = [f[1] EXCEPT !.path = urldecode(@)]
  BY SetPathIs
<1>2. f[e] = [path |-> << >>, query |-> q]
  BY <1>1, BehindPath
<1>3. e \in 1 .. Len(u) + 1 /\ p \in Seq(Char) /\ Len(p) = e - 1 /\ Len(u) \in Nat
  BY PathEndIs, LenProperties
<1>4. /\ n \in Nat
      /\ \A k \in 1 .. n : Jump(p, es[k]) = IF k = n THEN Len(p) + 1 ELSE es[k + 1]
      /\ IF n = 0 THEN Len(p) = 0 ELSE es[1] = 1
  BY <1>3, TokensInOrder
<1>5. /\ d \in Seq(Char) /\ Len(d) = n
      /\ \A k \in 1 .. n :
           /\ es[k] \in 1 .. Len(u) /\ u[es[k]] # Question /\ u[es[k]] # Hash
           /\ IF p[es[k]] = Percent
              THEN Escape(u, es[k]) /\ d[k] = Escaped(u, es[k])
              ELSE ~ Escape(u, es[k]) /\ d[k] = u[es[k]]
  BY DecodedIs
<1>6. Percent \notin ToSet(d)
  OBVIOUS
<1>. HIDE DEF e, p, d, es, n, q
<1>7. \A k \in 1 .. n : Jump(p, es[k]) = Pos(k + 1)
  <2>. TAKE k \in 1 .. n
  <2>1. k = n => Len(p) + 1 = e /\ k + 1 = n + 1
    BY <1>3, <1>4
  <2>2. k # n => k + 1 # n + 1
    BY <1>4
  <2>. QED
    BY <1>4, <2>1, <2>2
<1>8. ASSUME NEW k \in 1 .. n, f[Pos(k + 1)] = Tail1(k + 1)
      PROVE  f[Pos(k)] = Tail1(k)
  <2>. DEFINE i == es[k]
              b == Between(d, k, n)
  <2>1. Pos(k) = i /\ k + 1 - 1 = k
    BY <1>4
  <2>2. /\ i \in 1 .. Len(u) /\ i \in 1 .. Len(u) + 1 /\ ~ (i > Len(u))
        /\ u[i] # Question /\ u[i] # Hash
        /\ IF p[i] = Percent THEN Escape(u, i) /\ d[k] = Escaped(u, i)
           ELSE ~ Escape(u, i) /\ d[k] = u[i]
    BY <1>3, <1>5
  <2>3. f[Jump(p, i)] = [path |-> b, query |-> q]
    BY <1>7, <1>8, <2>1
  <2>4. f[i] = PathStep(u, f, i)
    BY <1>1, <2>2 DEF PathSteps
  <2>5. <<d[k]>> \o b = Between(d, k - 1, n)
    <3>1. k \in 1 .. Len(d) /\ n \in k .. Len(d)
      BY <1>4, <1>5
    <3>. QED
      BY <1>5, <3>1, BetweenNext
  <2>. HIDE DEF i, b
  <2>6. f[i] = [path |-> <<d[k]>> \o b, query |-> q]
    <3>. DEFINE c == <<d[k]>>
                g == f[Jump(p, i)]
    <3>1. f[i] = [g EXCEPT !.path = c \o @]
      <4>1. CASE p[i] = Percent
        BY <2>2, <2>4, <4>1 DEF PathStep, Jump
      <4>2. CASE p[i] # Percent
        BY <2>2, <2>4, <4>2 DEF PathStep, Jump
      <4>. QED
        BY <4>1, <4>2
    <3>. HIDE DEF c, g
    <3>2. g = [path |-> b, query |-> q]
      BY <2>3 DEF g
    <3>3. f[i] = [path |-> c \o b, query |-> q]
      BY <3>1, <3>2
    <3>. QED
      BY <3>3 DEF c
  <2>. QED
    BY <2>1, <2>5, <2>6
<1>. DEFINE S == {j \in Nat : j <= n => f[Pos(n + 1 - j)] = Tail1(n + 1 - j)}
<1>9. 0 \in S
  <2>1. n + 1 - 0 = n + 1 /\ n + 1 - 1 = n /\ n + 1 > n /\ n \in Int
    BY <1>4
  <2>2. Between(d, n, n) = << >>
    BY <2>1, SubSeqEmpty DEF Between
  <2>3. Tail1(n + 1) = [path |-> << >>, query |-> q] /\ Pos(n + 1) = e
    BY <2>1, <2>2
  <2>4. f[Pos(n + 1)] = Tail1(n + 1)
    BY <1>2, <2>3
  <2>. QED
    BY <2>1, <2>4
<1>10. ASSUME NEW j \in Nat, j \in S PROVE j + 1 \in S
  <2>1. SUFFICES ASSUME j + 1 <= n PROVE f[Pos(n + 1 - (j + 1))] = Tail1(n + 1 - (j + 1))
    OBVIOUS
  <2>. DEFINE k == n + 1 - (j + 1)
  <2>2. k \in 1 .. n /\ k + 1 = n + 1 - j /\ j <= n
    BY <1>4, <2>1
  <2>3. f[Pos(n + 1 - j)] = Tail1(n + 1 - j)
    BY <1>10, <2>2
  <2>. HIDE DEF k, Pos, Tail1
  <2>4. f[Pos(k)] = Tail1(k)
    BY <1>8, <2>2, <2>3
  <2>. QED
    BY <2>4 DEF k
<1>11. f[Pos(1)] = Tail1(1)
  <2>1. n + 1 - n = 1 /\ n \in Nat
    BY <1>4
  <2>2. n \in S
    <3>. HIDE DEF S
    <3>. QED
      BY <1>9, <1>10, <2>1, Induct
  <2>. HIDE DEF Pos, Tail1
  <2>. QED
    BY <2>1, <2>2
<1>12. Pos(1) = 1
  <2>1. CASE n = 0
    BY <1>3, <1>4, <2>1
  <2>2. CASE n # 0
    BY <1>4, <2>2
  <2>. QED
    BY <2>1, <2>2
<1>13. Between(d, 1 - 1, n) = d
  <2>1. 1 - 1 + 1 = 1
    OBVIOUS
  <2>. QED
    BY <1>5, <2>1, SubSeqFull DEF Between
<1>14. f[1] = [path |-> d, query |-> q]
  BY <1>11, <1>12, <1>13
<1>15. urldecode(d) = d
  <2>1. \A i \in 1 .. Len(d) : d[i] # Percent
    BY <1>5, <1>6, LenProperties DEF ToSet
  <2>. QED
    BY <1>5, <2>1, DecodePlain
<1>16. set_path(u) = [path |-> d, query |-> q]
  BY <1>1, <1>14, <1>15
<1>. QED
  BY <1>16 DEF d, p, q

\* Whatever the target and wherever the reads cut it, PATH_INFO is the
\* decoded path and QUERY_STRING the text between ? and #, if the escapes
\* are complete and none is of a percent sign.
THEOREM TargetFollows == Spec => []PathAndQuery
<1>1. DataInv /\ HeadInv => PathAndQuery
  <2>1. SUFFICES ASSUME DataInv, HeadInv, environ # None, WellEscaped(PathOf(msg.url)),
                        Percent \notin ToSet(Decoded(PathOf(msg.url)))
                 PROVE  environ.target =
                          [path |-> Decoded(PathOf(msg.url)), query |-> QueryOf(msg.url)]
    BY DEF PathAndQuery
  <2>2. msg.url \in Seq(Char)
    BY <2>1, LineTypes DEF DataInv, Cursor
  <2>3. environ.target = set_path(msg.url)
    BY <2>1 DEF HeadInv
  <2>. QED
    BY <2>1, <2>2, <2>3, TargetIs
<1>. QED
  BY <1>1, HeadInductive, PTL
=============================================================================
