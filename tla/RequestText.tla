---------------------------- MODULE RequestText ----------------------------
(***************************************************************************)
(* The text handling of a request as operators: the growing buffer of      *)
(* buffer.c, the decoding of the request's target and the naming of header *)
(* keys in http_request_parser.c, and the lines input.c finds in a body.   *)
(* Characters are their codes, a text is a sequence of codes 0 .. 255.     *)
(***************************************************************************)
EXTENDS Integers, Sequences, FiniteSetsExt

Percent  == 37
Question == 63
Hash     == 35
Newline  == 10
Prefix    == <<72, 84, 84, 80, 95>>     \* HTTP_
Separator == <<44, 32>>                 \* comma, space

Upper(c) == IF c \in 97 .. 122 THEN c - 32 ELSE c

\* the members of a finite set of numbers, from the least to the greatest
Ascending(S) ==
  [i \in 1 .. Cardinality(S) |-> CHOOSE x \in S : Cardinality({y \in S : y < x}) = i - 1]

----------------------------------------------------------------------------
(* buffer.c: a buffer is its text, the bytes it has and its limit.          *)

new_buffer(size, limit) == [text |-> << >>, size |-> size, limit |-> limit]

Grown(b, newl) ==
  LET twice == IF 2 * b.size <= newl THEN newl + 1 ELSE 2 * b.size
  IN  IF newl < b.size THEN b.size
      ELSE IF twice > b.limit THEN b.limit + 1 ELSE twice

TakenExact(b, text) ==         \* faulty: a full buffer is filled to its last byte
  LET newl == Len(b.text) + Len(text)
  IN  IF newl > Grown(b, newl) THEN Grown(b, newl) - Len(b.text) ELSE Len(text)

\* how much of a text is copied: a byte is always kept free behind it
Taken(b, text) ==
  LET newl == Len(b.text) + Len(text)
  IN  IF newl >= Grown(b, newl) THEN Grown(b, newl) - Len(b.text) - 1 ELSE Len(text)

Overflows(b, text) == Taken(b, text) < Len(text)

write2buf(b, text) ==
  [text  |-> b.text \o SubSeq(text, 1, Taken(b, text)),
   size  |-> Grown(b, Len(b.text) + Len(text)),
   limit |-> b.limit]

----------------------------------------------------------------------------
(* The target of a request.  Characters are signed in the code.             *)

hex2int(c) ==
  LET signed == IF c > 127 THEN c - 256 ELSE c
      digit  == Upper(signed) - 48
  IN  IF digit > 9 THEN digit - 7 ELSE digit

\* a percent sign counts only when two more characters are left
Escape(buf, i)  == buf[i] = Percent /\ i + 2 <= Len(buf)
Escaped(buf, i) == (hex2int(buf[i + 1]) * 16 + hex2int(buf[i + 2])) % 256

urldecode(buf) ==
  LET from[i \in 1 .. Len(buf) + 1] ==
        IF i > Len(buf) THEN << >>
        ELSE IF Escape(buf, i) THEN <<Escaped(buf, i)>> \o from[i + 3]
        ELSE <<buf[i]>> \o from[i + 1]
  IN  from[1]

set_query(buf) ==
  LET from[i \in 1 .. Len(buf) + 1] ==
        IF i > Len(buf) THEN << >>
        ELSE IF buf[i] = Hash THEN << >> ELSE <<buf[i]>> \o from[i + 1]
  IN  from[1]

set_pathNoFragment(buf) ==     \* faulty: a fragment is taken for the path
  LET from[i \in 1 .. Len(buf) + 1] ==
        IF i > Len(buf) THEN [path |-> << >>, query |-> << >>]
        ELSE IF Escape(buf, i)
             THEN [from[i + 3] EXCEPT !.path = <<Escaped(buf, i)>> \o @]
        ELSE IF buf[i] = Question
             THEN [path |-> << >>, query |-> set_query(SubSeq(buf, i + 1, Len(buf)))]
        ELSE [from[i + 1] EXCEPT !.path = <<buf[i]>> \o @]
  IN  [from[1] EXCEPT !.path = urldecode(@)]

\* the path is decoded up to the query or the fragment, and decoded again;
\* an empty query leaves no key behind
set_path(buf) ==
  LET from[i \in 1 .. Len(buf) + 1] ==
        IF i > Len(buf) THEN [path |-> << >>, query |-> << >>]
        ELSE IF Escape(buf, i)
             THEN [from[i + 3] EXCEPT !.path = <<Escaped(buf, i)>> \o @]
        ELSE IF buf[i] = Question
             THEN [path |-> << >>, query |-> set_query(SubSeq(buf, i + 1, Len(buf)))]
        ELSE IF buf[i] = Hash THEN [path |-> << >>, query |-> << >>]
        ELSE [from[i + 1] EXCEPT !.path = <<buf[i]>> \o @]
  IN  [from[1] EXCEPT !.path = urldecode(@)]

----------------------------------------------------------------------------
(* Header keys.                                                             *)

key_upper(name) ==
  [i \in 1 .. Len(name) |-> IF name[i] = 45 THEN 95 ELSE Upper(name[i])]

\* a key that is there already has the new value joined to its own
WithHeaderLast(env, key, val) ==   \* faulty: the last of two lines wins
  [k \in DOMAIN env \union {key} |-> IF k = key THEN val ELSE env[k]]

WithHeader(env, key, val) ==
  [k \in DOMAIN env \union {key} |->
     IF k # key THEN env[k]
     ELSE IF key \in DOMAIN env THEN env[key] \o Separator \o val ELSE val]

replace_env_key(env, old, new) ==
  IF old \notin DOMAIN env THEN env
  ELSE [k \in (DOMAIN env \ {old}) \union {new} |-> IF k = new THEN env[old] ELSE env[k]]

----------------------------------------------------------------------------
(* inner_readline: the end of the line that starts behind p characters.     *)

inner_readlineNoMark(text, p) ==   \* faulty: the newline is left for the next line
  Min({q \in p + 1 .. Len(text) - 1 : text[q + 1] = Newline} \union {Len(text)})

inner_readline(text, p) ==
  Min({q \in p + 1 .. Len(text) : text[q] = Newline} \union {Len(text)})
============================================================================
