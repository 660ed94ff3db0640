-------------------------- MODULE ConnectionProofs --------------------------
(* That a connection answers every request once, in order and before it is  *)
(* closed, and that it refuses a request, keeps itself open or closes in    *)
(* silence only with reason, for any number of requests of any kinds.       *)
EXTENDS Connection, SequenceTheorems, TLAPS

QueueEntry == [id : 1 .. MaxRequests, code : Codes]
Request    == [kind : Kinds, keep : BOOLEAN, done : BOOLEAN]
Answer     == [id : 1 .. MaxRequests, how : Hows]

Busy == IF at = "app" THEN 1 ELSE 0

(* Which requests the queue holds: those begun, but for the ones answered   *)
(* and the one the application has.                                         *)
QueueHolds ==
  /\ Len(requests) = Len(answers) + Busy + Len(queue)
  /\ \A k \in 1 .. Len(queue) : queue[k].id = Len(answers) + Busy + k
  /\ at = "app" => current = Len(answers) + 1

(* Where it holds any: while one is read it is the last of the queue, and   *)
(* there is one whenever the parser says that it is complete.               *)
QueueShape ==
  /\ at = "serve" => queue # <<>>
  /\ at = "closed" => queue = <<>>
  /\ at \in {"accepted", "idle", "parsing"} =>
       /\ parser \in {"headers", "body"} => queue # <<>>
       /\ queue # <<>> => current = Len(requests)
  /\ at = "parsing" /\ complete => queue # <<>>

QueueInv == TypeOK /\ QueueHolds /\ QueueShape

----------------------------------------------------------------------------
(* Sequences of records.                                                    *)

LEMMA RefuseKeeps ==
  ASSUME NEW q \in Seq(QueueEntry), q # <<>>, NEW code \in Codes,
         NEW r, r = [q EXCEPT ![Len(q)].code = code]
  PROVE  /\ r \in Seq(QueueEntry) /\ Len(r) = Len(q) /\ r # <<>>
         /\ \A k \in 1 .. Len(q) : r[k].id = q[k].id
<1>1. Len(q) \in 1 .. Len(q)
  BY EmptySeq
<1>. DEFINE e == [q[Len(q)] EXCEPT !.code = code]
<1>2. q[Len(q)] \in QueueEntry
  BY <1>1, ElementOfSeq
<1>3. e \in QueueEntry /\ e.id = q[Len(q)].id
  BY <1>2 DEF QueueEntry
<1>4. r = [q EXCEPT ![Len(q)] = e]
  OBVIOUS
<1>. HIDE DEF e
<1>5. /\ r \in Seq(QueueEntry) /\ Len(r) = Len(q)
      /\ \A k \in 1 .. Len(q) : r[k] = IF k = Len(q) THEN e ELSE q[k]
  BY <1>1, <1>3, <1>4, ExceptSeq
<1>. QED
  BY <1>1, <1>3, <1>5, EmptySeq

\* one element of a sequence replaced
LEMMA Replaced ==
  ASSUME NEW S, NEW s \in Seq(S), NEW i \in 1 .. Len(s), NEW e \in S,
         NEW t, t = [s EXCEPT ![i] = e]
  PROVE  t \in Seq(S) /\ Len(t) = Len(s)
BY ExceptSeq

LEMMA DoneKeeps ==
  ASSUME NEW s \in Seq(Request), NEW c,
         NEW t, t = [s EXCEPT ![c].done = TRUE]
  PROVE  t \in Seq(Request) /\ Len(t) = Len(s)
<1>1. CASE c \in 1 .. Len(s)
  <2>. DEFINE e == [s[c] EXCEPT !.done = TRUE]
  <2>1. s[c] \in Request
    BY <1>1, ElementOfSeq
  <2>2. e \in Request
    BY <2>1 DEF Request
  <2>3. t = [s EXCEPT ![c] = e]
    OBVIOUS
  <2>. HIDE DEF e
  <2>4. \A u : u = [s EXCEPT ![c] = e] => u \in Seq(Request) /\ Len(u) = Len(s)
    BY <1>1, <2>2, Replaced
  <2>. QED
    BY <2>3, <2>4
<1>2. CASE c \notin 1 .. Len(s)
  <2>1. s \in [1 .. Len(s) -> Request] /\ DOMAIN s = 1 .. Len(s)
    BY LenProperties
  <2>2. t = s
    BY <1>2, <2>1
  <2>. QED
    BY <2>2
<1>. QED
  BY <1>1, <1>2

----------------------------------------------------------------------------
(* What the steps do to the queue.                                          *)

(* The sequences of the specification and their types.                      *)
LEMMA Typed ==
  ASSUME TypeOK
  PROVE  /\ queue \in Seq(QueueEntry) /\ requests \in Seq(Request) /\ answers \in Seq(Answer)
         /\ Len(queue) \in Nat /\ Len(requests) \in Nat /\ Len(answers) \in Nat
         /\ (queue # <<>> <=> Len(queue) > 0) /\ MaxRequests \in Nat
<1>1. queue \in Seq(QueueEntry) /\ requests \in Seq(Request) /\ answers \in Seq(Answer)
  BY DEF TypeOK, QueueEntry, Request, Answer
<1>. QED
  BY <1>1, EmptySeq, LenProperties, ConnectionAssumption

(* A step that adds no request, takes none from the queue and answers none. *)
LEMMA HoldsKept ==
  ASSUME TypeOK, QueueHolds,
         Len(requests') = Len(requests), answers' = answers, Busy' = Busy,
         Len(queue') = Len(queue),
         \A k \in 1 .. Len(queue) : queue'[k].id = queue[k].id,
         at' = "app" => at = "app" /\ current' = current
  PROVE  QueueHolds'
  BY DEF QueueHolds

LEMMA InitQueue == Init => QueueInv
<1>. SUFFICES ASSUME Init PROVE QueueInv
  OBVIOUS
<1>1. TypeOK
  <2>1. /\ queue \in Seq([id : 1 .. MaxRequests, code : Codes])
        /\ requests \in Seq([kind : Kinds, keep : BOOLEAN, done : BOOLEAN])
        /\ answers \in Seq([id : 1 .. MaxRequests, how : Hows]) /\ Len(answers) <= Len(requests)
    BY EmptySeq DEF Init
  <2>2. /\ is_keep_alive \in BOOLEAN /\ at \in Places
        /\ {complete, keep_alive, upgrade, header_done} \subseteq BOOLEAN
    BY DEF Init, Places
  <2>3. /\ current \in 0 .. MaxRequests
        /\ parser \in {"start", "headers", "body", "dead", "error"}
        /\ stray \subseteq 0 .. MaxRequests /\ pages \in Nat
    BY ConnectionAssumption DEF Init
  <2>. QED
    BY <2>1, <2>2, <2>3 DEF TypeOK
<1>2. QueueHolds /\ QueueShape
  BY EmptySeq DEF Init, QueueHolds, QueueShape, Busy
<1>. QED
  BY <1>1, <1>2 DEF QueueInv

(* A request begins: it is the last of the queue.                           *)
LEMMA BeginStep ==
  ASSUME QueueInv, MessageBegin
  PROVE  QueueInv'
<1>1. /\ queue \in Seq(QueueEntry) /\ requests \in Seq(Request) /\ answers \in Seq(Answer)
      /\ Len(queue) \in Nat /\ Len(requests) \in Nat /\ Len(answers) \in Nat
      /\ MaxRequests \in Nat
  BY Typed DEF QueueInv
<1>2. PICK r \in Request : requests' = Append(requests, r)
  BY DEF MessageBegin, Request
<1>3. requests' \in Seq(Request) /\ Len(requests') = Len(requests) + 1
  BY <1>1, <1>2
<1>. DEFINE e == [id |-> current', code |-> 0]
<1>4. current' = Len(requests) + 1 /\ current' \in 1 .. MaxRequests
  BY <1>1, <1>3 DEF MessageBegin
<1>5. e \in QueueEntry /\ e.id = current'
  BY <1>4 DEF QueueEntry, Codes
<1>6. queue' = Append(queue, e)
  BY DEF MessageBegin, Push
<1>. HIDE DEF e
<1>7. /\ queue' \in Seq(QueueEntry) /\ Len(queue') = Len(queue) + 1 /\ queue' # <<>>
      /\ \A k \in 1 .. Len(queue) : queue'[k] = queue[k]
      /\ queue'[Len(queue) + 1] = e
  BY <1>1, <1>5, <1>6
<1>8. TypeOK'
  <2>1. /\ queue' \in Seq([id : 1 .. MaxRequests, code : Codes])
        /\ requests' \in Seq([kind : Kinds, keep : BOOLEAN, done : BOOLEAN])
    BY <1>3, <1>7 DEF QueueEntry, Request
  <2>2. /\ answers' \in Seq([id : 1 .. MaxRequests, how : Hows])
        /\ Len(answers') <= Len(requests')
    BY <1>1, <1>3 DEF QueueInv, TypeOK, MessageBegin, Parsing, Answer
  <2>3. /\ is_keep_alive' \in BOOLEAN /\ at' \in Places
        /\ {complete', keep_alive', upgrade', header_done'} \subseteq BOOLEAN
    BY DEF QueueInv, TypeOK, MessageBegin, Parsing
  <2>4. /\ current' \in 0 .. MaxRequests
        /\ parser' \in {"start", "headers", "body", "dead", "error"}
        /\ stray' \subseteq 0 .. MaxRequests /\ pages' \in Nat
    BY <1>1, <1>4 DEF QueueInv, TypeOK, MessageBegin, Parsing
  <2>. QED
    BY <2>1, <2>2, <2>3, <2>4 DEF TypeOK
<1>9. QueueHolds'
  <2>1. Busy = 0 /\ Busy' = 0 /\ at' # "app" /\ answers' = answers
    BY DEF Busy, MessageBegin, Parsing
  <2>2. Len(requests') = Len(answers') + Busy' + Len(queue')
    BY <1>1, <1>3, <1>7, <2>1 DEF QueueInv, QueueHolds
  <2>3. ASSUME NEW k \in 1 .. Len(queue')
        PROVE  queue'[k].id = Len(answers') + Busy' + k
    <3>1. CASE k \in 1 .. Len(queue)
      BY <1>7, <2>1, <3>1 DEF QueueInv, QueueHolds
    <3>2. CASE k = Len(queue) + 1
      BY <1>1, <1>4, <1>5, <1>7, <2>1, <3>2 DEF QueueInv, QueueHolds
    <3>. QED
      BY <1>1, <1>7, <3>1, <3>2
  <2>. QED
    BY <2>1, <2>2, <2>3 DEF QueueHolds
<1>10. QueueShape'
  BY <1>3, <1>4, <1>7 DEF QueueShape, MessageBegin, Parsing
<1>. QED
  BY <1>8, <1>9, <1>10 DEF QueueInv

----------------------------------------------------------------------------
(* Steps that neither add a request nor answer one.                         *)

FlagTypes ==
  /\ is_keep_alive \in BOOLEAN /\ at \in Places
  /\ current \in 0 .. MaxRequests
  /\ {complete, keep_alive, upgrade, header_done} \subseteq BOOLEAN
  /\ parser \in {"start", "headers", "body", "dead", "error"}
  /\ stray \subseteq 0 .. MaxRequests /\ pages \in Nat

(* The queue keeps its requests, with another code perhaps.                 *)
QueueKept ==
  /\ queue' \in Seq(QueueEntry) /\ Len(queue') = Len(queue)
  /\ \A k \in 1 .. Len(queue) : queue'[k].id = queue[k].id
  /\ queue' = <<>> <=> queue = <<>>

LEMMA SameQueue ==
  ASSUME TypeOK, queue' = queue
  PROVE  QueueKept
  BY Typed DEF QueueKept

LEMMA RefusedQueue ==
  ASSUME TypeOK, queue # <<>>, NEW code \in Codes, RefuseWith(code)
  PROVE  QueueKept
<1>1. queue \in Seq(QueueEntry)
  BY Typed
<1>. QED
  BY <1>1, RefuseKeeps DEF RefuseWith, QueueKept

LEMMA KeptStep ==
  ASSUME QueueInv, QueueKept, FlagTypes', QueueShape',
         requests' \in Seq(Request), Len(requests') = Len(requests), answers' = answers,
         Busy' = Busy, at' = "app" => at = "app" /\ current' = current
  PROVE  QueueInv'
<1>1. TypeOK'
  BY DEF QueueInv, TypeOK, FlagTypes, QueueKept, QueueEntry, Request
<1>2. QueueHolds'
  BY HoldsKept DEF QueueInv, QueueKept
<1>. QED
  BY <1>1, <1>2 DEF QueueInv

(* The parser's callbacks after a request has begun.                        *)
LEMMA HeadersStep ==
  ASSUME QueueInv, HeadersComplete
  PROVE  QueueInv'
<1>1. queue # <<>> /\ current = Len(requests) /\ TypeOK
  BY DEF QueueInv, QueueShape, HeadersComplete, Parsing
<1>2. current \in 1 .. Len(requests)
  BY <1>1, Typed DEF QueueInv, QueueHolds, HeadersComplete, Parsing, Busy
<1>3. requests[current] \in Request
  BY <1>1, <1>2, Typed, ElementOfSeq
<1>4. keep_alive' \in BOOLEAN
  BY <1>3 DEF HeadersComplete, Request
<1>5. QueueKept
  BY <1>1, RefusedQueue, SameQueue, 413 \in Codes DEF HeadersComplete, Codes
<1>6. FlagTypes'
  BY <1>4 DEF QueueInv, TypeOK, FlagTypes, HeadersComplete, Parsing
<1>7. QueueShape'
  BY <1>1, <1>5 DEF QueueKept, QueueShape, HeadersComplete, Parsing
<1>8. /\ requests' = requests /\ answers' = answers /\ Busy' = Busy /\ at' # "app"
  BY DEF HeadersComplete, Parsing, Busy
<1>. QED
  BY <1>1, <1>5, <1>6, <1>7, <1>8, KeptStep, Typed

LEMMA BodyStep ==
  ASSUME QueueInv, BodyRefused
  PROVE  QueueInv'
<1>1. queue # <<>> /\ TypeOK
  BY DEF QueueInv, QueueShape, BodyRefused, Parsing
<1>2. QueueKept
  BY <1>1, RefusedQueue, 411 \in Codes DEF BodyRefused, Codes
<1>3. FlagTypes'
  BY DEF QueueInv, TypeOK, FlagTypes, BodyRefused, Parsing, clientVars
<1>4. QueueShape'
  BY <1>1, <1>2 DEF QueueInv, QueueKept, QueueShape, BodyRefused, Parsing, clientVars
<1>5. /\ requests' = requests /\ answers' = answers /\ Busy' = Busy /\ at' # "app"
  BY DEF BodyRefused, Parsing, Busy
<1>. QED
  BY <1>1, <1>2, <1>3, <1>4, <1>5, KeptStep, Typed

LEMMA CompleteStep ==
  ASSUME QueueInv, MessageComplete
  PROVE  QueueInv'
<1>1. queue # <<>> /\ TypeOK
  BY DEF QueueInv, QueueShape, MessageComplete, Parsing
<1>2. QueueKept
  BY <1>1, SameQueue DEF MessageComplete
<1>3. requests' \in Seq(Request) /\ Len(requests') = Len(requests)
  BY <1>1, Typed, DoneKeeps DEF MessageComplete
<1>4. FlagTypes'
  BY DEF QueueInv, TypeOK, FlagTypes, MessageComplete, Parsing
<1>5. QueueShape'
  BY <1>1, <1>3 DEF QueueInv, QueueShape, MessageComplete, Parsing
<1>6. /\ answers' = answers /\ Busy' = Busy /\ at' # "app"
  BY DEF MessageComplete, Parsing, Busy
<1>. QED
  BY <1>2, <1>3, <1>4, <1>5, <1>6, KeptStep

LEMMA JunkStep ==
  ASSUME QueueInv, Junk
  PROVE  QueueInv'
<1>1. TypeOK
  BY DEF QueueInv
<1>2. QueueKept
  BY <1>1, SameQueue DEF Junk
<1>3. FlagTypes'
  BY DEF QueueInv, TypeOK, FlagTypes, Junk, Parsing, clientVars
<1>4. QueueShape'
  BY DEF QueueInv, QueueShape, Junk, Parsing, clientVars
<1>5. /\ requests' = requests /\ answers' = answers /\ Busy' = Busy /\ at' # "app"
  BY DEF Junk, Parsing, Busy
<1>. QED
  BY <1>1, <1>2, <1>3, <1>4, <1>5, KeptStep, Typed

(* Reads that bring bytes, nothing, or an error.                            *)
LEMMA ErrorStep ==
  ASSUME QueueInv, NEW code \in Codes, at \in {"accepted", "idle", "parsing"},
         header_done' \in BOOLEAN, SetReadError(code),
         UNCHANGED <<is_keep_alive, current, complete, upgrade, parser, requests, answers, stray>>
  PROVE  QueueInv'
<1>1. TypeOK
  BY DEF QueueInv
<1>2. QueueKept
  BY <1>1, RefusedQueue, SameQueue DEF SetReadError
<1>3. at' = (IF queue # <<>> THEN "serve" ELSE "closing")
  BY DEF SetReadError
<1>4. pages' \in Nat /\ keep_alive' = FALSE
  BY DEF QueueInv, TypeOK, SetReadError
<1>5. FlagTypes'
  BY <1>3, <1>4 DEF QueueInv, TypeOK, FlagTypes, Places
<1>6. QueueShape'
  BY <1>2, <1>3 DEF QueueKept, QueueShape
<1>7. Busy' = Busy /\ at' # "app"
  BY <1>3 DEF Busy
<1>. QED
  BY <1>1, <1>2, <1>5, <1>6, <1>7, KeptStep, Typed

LEMMA ReadStep ==
  ASSUME QueueInv, Read \/ ReadNothing
  PROVE  QueueInv'
<1>1. TypeOK
  BY DEF QueueInv
<1>2. QueueKept
  BY <1>1, SameQueue DEF Read, ReadNothing
<1>3. FlagTypes'
  BY DEF QueueInv, TypeOK, FlagTypes, Read, ReadNothing, Places, clientVars, historyVars
<1>4. QueueShape'
  BY DEF QueueInv, QueueShape, Read, ReadNothing, Reading, clientVars, historyVars
<1>5. /\ requests' = requests /\ answers' = answers /\ Busy' = Busy /\ at' # "app"
  BY DEF Read, ReadNothing, Reading, Busy, historyVars
<1>. QED
  BY <1>1, <1>2, <1>3, <1>4, <1>5, KeptStep, Typed

LEMMA ParsedStep ==
  ASSUME QueueInv, Parsed
  PROVE  QueueInv'
<1>1. TypeOK /\ at = "parsing"
  BY DEF QueueInv, Parsed
<1>2. CASE ParseFails
  <2>1. CodeOrBadRequest \in Codes
    <3>1. ASSUME queue # <<>> PROVE Last(queue) \in QueueEntry
      BY <1>1, <3>1, Typed, ElementOfSeq DEF Last
    <3>. QED
      BY <3>1 DEF CodeOrBadRequest, Codes, QueueEntry
  <2>2. header_done' \in BOOLEAN
    BY <1>1, <1>2 DEF Parsed, TypeOK
  <2>. QED
    BY <1>1, <1>2, <2>1, <2>2, ErrorStep DEF Parsed
<1>3. CASE ~ParseFails
  <2>1. QueueKept
    BY <1>1, <1>3, SameQueue DEF Parsed
  <2>2. FlagTypes'
    BY <1>3 DEF QueueInv, TypeOK, FlagTypes, Parsed, Places
  <2>3. QueueShape'
    BY <1>3 DEF QueueInv, QueueShape, Parsed
  <2>4. /\ requests' = requests /\ answers' = answers /\ Busy' = Busy /\ at' # "app"
    BY <1>3 DEF Parsed, Busy
  <2>. QED
    BY <1>1, <2>1, <2>2, <2>3, <2>4, KeptStep, Typed
<1>. QED
  BY <1>2, <1>3

LEMMA FailedReadStep ==
  ASSUME QueueInv, ReadTimeout \/ ReadEnd \/ ReadReset
  PROVE  QueueInv'
<1>1. at \in {"accepted", "idle", "parsing"} /\ header_done' \in BOOLEAN
  <2>1. header_done \in BOOLEAN
    BY DEF QueueInv, TypeOK
  <2>2. CASE ReadTimeout \/ ReadEnd
    BY <2>1, <2>2 DEF ReadTimeout, ReadEnd, ReadFails, Reading
  <2>3. CASE ReadReset
    BY <2>1, <2>3 DEF ReadReset, Reading
  <2>. QED
    BY <2>2, <2>3
<1>2. UNCHANGED <<is_keep_alive, current, complete, upgrade, parser, requests, answers, stray>>
  BY DEF ReadTimeout, ReadEnd, ReadReset, ReadFails
<1>3. SetReadError(408) \/ SetReadError(503) \/ SetReadError(500)
  BY DEF ReadTimeout, ReadEnd, ReadReset, ReadFails
<1>4. 408 \in Codes /\ 503 \in Codes /\ 500 \in Codes
  BY DEF Codes
<1>. QED
  BY <1>1, <1>2, <1>3, <1>4, ErrorStep

----------------------------------------------------------------------------
(* Steps that take a request from the queue or answer it.                   *)

LEMMA TimeOutStep ==
  ASSUME QueueInv, AppTimesOut
  PROVE  QueueInv'
<1>1. TypeOK /\ queue' = queue /\ requests' = requests /\ answers' = answers
  BY DEF QueueInv, AppTimesOut, App
<1>2. QueueKept
  BY <1>1, SameQueue
<1>3. FlagTypes'
  BY DEF QueueInv, TypeOK, FlagTypes, AppTimesOut, App
<1>4. QueueShape' /\ Busy' = Busy /\ at = "app" /\ current' = current
  BY DEF QueueInv, QueueShape, Busy, AppTimesOut, App
<1>. QED
  BY <1>1, <1>2, <1>3, <1>4, KeptStep, Typed

LEMMA CloseStep ==
  ASSUME QueueInv, CloseClient
  PROVE  QueueInv'
<1>1. TypeOK /\ queue' = queue /\ requests' = requests /\ answers' = answers
  BY DEF QueueInv, CloseClient, historyVars
<1>2. QueueKept
  BY <1>1, SameQueue
<1>3. FlagTypes'
  <2>1. current' \in 0 .. MaxRequests
    BY ConnectionAssumption DEF CloseClient
  <2>2. /\ at' \in Places /\ parser' \in {"start", "headers", "body", "dead", "error"}
        /\ is_keep_alive' \in BOOLEAN
    BY DEF QueueInv, TypeOK, CloseClient, Places
  <2>3. {complete', keep_alive', upgrade', header_done'} \subseteq BOOLEAN
    BY DEF QueueInv, TypeOK, CloseClient
  <2>4. stray' \subseteq 0 .. MaxRequests /\ pages' \in Nat
    BY DEF QueueInv, TypeOK, CloseClient, historyVars
  <2>. QED
    BY <2>1, <2>2, <2>3, <2>4 DEF FlagTypes
<1>4. QueueShape'
  BY DEF QueueShape, CloseClient
<1>5. Busy' = Busy /\ at' # "app"
  BY DEF Busy, CloseClient
<1>. QED
  BY <1>1, <1>2, <1>3, <1>4, <1>5, KeptStep, Typed

LEMMA ShiftFacts ==
  ASSUME QueueInv, Shift
  PROVE  /\ queue' \in Seq(QueueEntry) /\ Len(queue') = Len(queue) - 1
         /\ \A k \in 1 .. Len(queue') : queue'[k] = queue[k + 1]
         /\ current' = Len(answers) + 1 /\ current' \in 1 .. MaxRequests
         /\ Busy = 0
<1>1. queue # <<>> /\ TypeOK /\ Busy = 0 /\ queue' = Tail(queue) /\ current' = Head(queue).id
  BY DEF QueueInv, QueueShape, Shift, Busy
<1>2. queue \in Seq(QueueEntry) /\ Len(queue) > 0 /\ Len(queue) \in Nat
  BY <1>1, Typed
<1>3. /\ Tail(queue) \in Seq(QueueEntry) /\ Len(Tail(queue)) = Len(queue) - 1
      /\ \A k \in 1 .. Len(Tail(queue)) : Tail(queue)[k] = queue[k + 1]
      /\ Head(queue) \in QueueEntry
  BY <1>1, <1>2, HeadTailProperties
<1>4. Head(queue) = queue[1] /\ 1 \in 1 .. Len(queue)
  BY <1>1, <1>2
<1>5. current' = Len(answers) + 1
  BY <1>1, <1>4, Typed DEF QueueInv, QueueHolds
<1>6. current' \in 1 .. MaxRequests
  BY <1>1, <1>3 DEF QueueEntry
<1>. QED
  BY <1>1, <1>3, <1>5, <1>6

LEMMA AnswerAppended ==
  ASSUME NEW s \in Seq(Answer), NEW id \in 1 .. MaxRequests, NEW how \in Hows,
         NEW t, t = Append(s, [id |-> id, how |-> how])
  PROVE  /\ t \in Seq(Answer) /\ Len(t) = Len(s) + 1
         /\ \A k \in 1 .. Len(s) : t[k] = s[k]
         /\ t[Len(s) + 1].id = id
<1>. DEFINE e == [id |-> id, how |-> how]
<1>1. e \in Answer /\ e.id = id
  BY DEF Answer
<1>2. t = Append(s, e)
  OBVIOUS
<1>. HIDE DEF e
<1>. QED
  BY <1>1, <1>2

LEMMA AnswerCounts ==
  ASSUME QueueInv, requests' = requests, Len(answers') = Len(answers) + 1,
         Len(queue') \in Nat, Len(queue') + 1 = Len(queue) + Busy, Busy' = 0
  PROVE  Len(requests') = Len(answers') + Busy' + Len(queue')
<1>1. Len(queue) \in Nat /\ Len(answers) \in Nat /\ Len(requests) \in Nat
  BY Typed DEF QueueInv
<1>2. Len(requests) = Len(answers) + Busy + Len(queue)
  BY DEF QueueInv, QueueHolds
<1>3. CASE Busy = 0
  BY <1>1, <1>2, <1>3
<1>4. CASE Busy = 1
  BY <1>1, <1>2, <1>4
<1>. QED
  BY <1>3, <1>4 DEF Busy

(* An answer to the next request, whether it is taken from the queue here   *)
(* or was with the application.                                             *)
LEMMA AnswerStep ==
  ASSUME QueueInv, NEW how \in Hows,
         queue' \in Seq(QueueEntry), Len(queue') + 1 = Len(queue) + Busy,
         \A k \in 1 .. Len(queue') : queue'[k].id = Len(answers) + 1 + k,
         current' = Len(answers) + 1, current' \in 1 .. MaxRequests,
         answers' = Append(answers, [id |-> current', how |-> how]),
         at' = "closing", keep_alive' \in BOOLEAN,
         UNCHANGED <<is_keep_alive, complete, upgrade, header_done, parser, requests, stray, pages>>
  PROVE  QueueInv'
<1>1. /\ TypeOK /\ answers \in Seq(Answer) /\ requests \in Seq(Request)
      /\ Len(answers) \in Nat /\ Len(requests) \in Nat /\ Len(queue) \in Nat
  BY Typed DEF QueueInv
<1>2. answers' \in Seq(Answer) /\ Len(answers') = Len(answers) + 1
  BY <1>1, AnswerAppended
<1>3. Len(queue') \in Nat /\ Busy' = 0 /\ Busy \in {0, 1}
  BY LenProperties DEF Busy
<1>4. Len(requests') = Len(answers') + Busy' + Len(queue')
  BY <1>2, <1>3, AnswerCounts
<1>5. QueueHolds'
  BY <1>1, <1>2, <1>3, <1>4 DEF QueueHolds
<1>6. QueueShape'
  BY DEF QueueShape
<1>7. TypeOK'
  <2>1. /\ queue' \in Seq([id : 1 .. MaxRequests, code : Codes])
        /\ answers' \in Seq([id : 1 .. MaxRequests, how : Hows])
        /\ requests' \in Seq([kind : Kinds, keep : BOOLEAN, done : BOOLEAN])
    BY <1>1, <1>2 DEF QueueEntry, Answer, Request
  <2>2. Len(answers') <= Len(requests')
    BY <1>1, <1>2, <1>3, <1>4
  <2>3. /\ is_keep_alive' \in BOOLEAN /\ at' \in Places
        /\ {complete', keep_alive', upgrade', header_done'} \subseteq BOOLEAN
    BY <1>1 DEF TypeOK, Places
  <2>4. /\ current' \in 0 .. MaxRequests
        /\ parser' \in {"start", "headers", "body", "dead", "error"}
        /\ stray' \subseteq 0 .. MaxRequests /\ pages' \in Nat
    BY <1>1, ConnectionAssumption DEF TypeOK
  <2>. QED
    BY <2>1, <2>2, <2>3, <2>4 DEF TypeOK
<1>. QED
  BY <1>5, <1>6, <1>7 DEF QueueInv

LEMMA ServeStep ==
  ASSUME QueueInv, Serve
  PROVE  QueueInv'
<1>1. Shift
  BY DEF Serve, ServeRefused, ServeExpectation, ServeContinueFails, ServeCall
<1>2. /\ queue' \in Seq(QueueEntry) /\ Len(queue') = Len(queue) - 1
      /\ \A k \in 1 .. Len(queue') : queue'[k] = queue[k + 1]
      /\ current' = Len(answers) + 1 /\ current' \in 1 .. MaxRequests
      /\ Busy = 0
  BY <1>1, ShiftFacts
<1>3. /\ TypeOK /\ Len(queue) \in Nat /\ Len(answers) \in Nat /\ Len(queue') \in Nat
      /\ requests \in Seq(Request)
  BY <1>2, Typed, LenProperties DEF QueueInv
<1>4. \A k \in 1 .. Len(queue') : queue'[k].id = Len(answers) + 1 + k
  <2>. SUFFICES ASSUME NEW k \in 1 .. Len(queue')
                PROVE  queue'[k].id = Len(answers) + 1 + k
    OBVIOUS
  <2>1. k + 1 \in 1 .. Len(queue)
    BY <1>2, <1>3
  <2>2. queue[k + 1].id = Len(answers) + Busy + (k + 1)
    BY <2>1 DEF QueueInv, QueueHolds
  <2>3. Len(answers) + Busy + (k + 1) = Len(answers) + 1 + k
    BY <1>2, <1>3
  <2>4. queue'[k] = queue[k + 1]
    BY <1>2
  <2>. QED
    BY <2>2, <2>3, <2>4
<1>5. CASE ServeRefused \/ ServeExpectation \/ ServeContinueFails
  <2>1. PICK h \in {"refused", "failed"}, keep \in BOOLEAN : Page(h, keep)
    BY <1>3, <1>5 DEF ServeRefused, ServeExpectation, ServeContinueFails, TypeOK
  <2>. DEFINE how == IF header_done THEN "none" ELSE h
  <2>2. /\ answers' = Append(answers, [id |-> current', how |-> how]) /\ how \in Hows
        /\ at' = "closing"
    BY <2>1 DEF Page, Hows
  <2>3. keep_alive' \in BOOLEAN
    BY <1>3, <2>1 DEF Page, TypeOK
  <2>. HIDE DEF how
  <2>4. Len(queue') + 1 = Len(queue) + Busy
    BY <1>2, <1>3
  <2>5. UNCHANGED <<is_keep_alive, complete, upgrade, header_done, parser, requests, stray, pages>>
    BY <1>1 DEF Shift
  <2>. QED
    BY <1>2, <1>4, <2>2, <2>3, <2>4, <2>5, AnswerStep
<1>6. CASE ServeCall
  <2>1. answers' = answers /\ requests' = requests /\ at' = "app" /\ Busy' = 1
    BY <1>1, <1>6 DEF ServeCall, Shift, Busy
  <2>2. QueueHolds'
    <3>1. Len(requests') = Len(answers') + Busy' + Len(queue')
      <4>1. Len(requests) = Len(answers) + Busy + Len(queue)
        BY DEF QueueInv, QueueHolds
      <4>. QED
        BY <1>2, <1>3, <2>1, <4>1
    <3>. QED
      BY <1>2, <1>4, <2>1, <3>1 DEF QueueHolds
  <2>3. QueueShape'
    BY <2>1 DEF QueueShape
  <2>4. FlagTypes'
    <3>1. keep_alive' \in BOOLEAN
      BY <1>3, <1>6 DEF ServeCall, TypeOK
    <3>2. current' \in 0 .. MaxRequests /\ at' \in Places
      BY <1>2, <2>1, ConnectionAssumption DEF Places
    <3>. QED
      BY <1>1, <1>3, <3>1, <3>2 DEF FlagTypes, TypeOK, Shift
  <2>5. TypeOK'
    BY <1>2, <1>3, <2>1, <2>4 DEF TypeOK, FlagTypes, QueueEntry
  <2>. QED
    BY <2>2, <2>3, <2>5 DEF QueueInv
<1>. QED
  BY <1>5, <1>6 DEF Serve

LEMMA AppStep ==
  ASSUME QueueInv, AppEnds
  PROVE  QueueInv'
<1>1. App /\ at = "app" /\ Busy = 1
  BY DEF AppEnds, AppAnswers, AppFails, AppFailsLate, App, Busy
<1>2. /\ TypeOK /\ queue \in Seq(QueueEntry) /\ Len(queue) \in Nat /\ Len(answers) \in Nat
      /\ Len(requests) \in Nat
  BY Typed DEF QueueInv
<1>3. /\ current' = Len(answers) + 1 /\ queue' = queue
      /\ Len(requests) = Len(answers) + 1 + Len(queue)
      /\ \A k \in 1 .. Len(queue) : queue[k].id = Len(answers) + 1 + k
  BY <1>1 DEF QueueInv, QueueHolds, App
<1>4. current' \in 1 .. MaxRequests
  BY <1>1, <1>2, <1>3 DEF TypeOK, App
<1>5. PICK how \in Hows : answers' = Append(answers, [id |-> current', how |-> how])
  BY <1>1 DEF AppEnds, AppAnswers, AppFails, AppFailsLate, Answered, Page, App, Hows
<1>6. at' = "closing" /\ keep_alive' \in BOOLEAN
  BY <1>2 DEF AppEnds, AppAnswers, AppFails, AppFailsLate, Page, TypeOK
<1>7. Len(queue') + 1 = Len(queue) + Busy
  BY <1>1, <1>2, <1>3
<1>8. UNCHANGED <<is_keep_alive, complete, upgrade, header_done, parser, requests, stray, pages>>
  BY <1>1 DEF App
<1>. QED
  BY <1>2, <1>3, <1>4, <1>5, <1>6, <1>7, <1>8, AnswerStep

LEMMA StutterStep ==
  ASSUME QueueInv, UNCHANGED vars
  PROVE  QueueInv'
  BY DEF QueueInv, TypeOK, QueueHolds, QueueShape, Busy, vars, clientVars, historyVars

----------------------------------------------------------------------------
(* The queue holds what was asked and is not answered, in order, and the    *)
(* parser, read_callback and close_client agree on it.                      *)
THEOREM QueueInductive == Spec => []QueueInv
<1>1. ASSUME QueueInv, [Next]_vars
      PROVE  QueueInv'
  <2>1. CASE Read \/ ReadNothing
    BY <1>1, <2>1, ReadStep
  <2>2. CASE Parse
    BY <1>1, <2>2, BeginStep, HeadersStep, BodyStep, CompleteStep, JunkStep DEF Parse
  <2>3. CASE Parsed
    BY <1>1, <2>3, ParsedStep
  <2>4. CASE ReadTimeout \/ ReadEnd \/ ReadReset
    BY <1>1, <2>4, FailedReadStep
  <2>5. CASE Serve
    BY <1>1, <2>5, ServeStep
  <2>6. CASE AppEnds
    BY <1>1, <2>6, AppStep
  <2>7. CASE AppTimesOut
    BY <1>1, <2>7, TimeOutStep
  <2>8. CASE CloseClient
    BY <1>1, <2>8, CloseStep
  <2>9. CASE UNCHANGED vars
    BY <1>1, <2>9, StutterStep
  <2>. QED
    BY <1>1, <2>1, <2>2, <2>3, <2>4, <2>5, <2>6, <2>7, <2>8, <2>9 DEF Next
<1>. QED
  BY <1>1, InitQueue, PTL DEF Spec

(* Every reachable state of a connection is well typed: in particular each  *)
(* request in the queue and each answer is one of the requests that may be  *)
(* begun, and no more are answered than were.                               *)
THEOREM TypeCorrect == Spec => []TypeOK
<1>1. QueueInv => TypeOK
  BY DEF QueueInv
<1>. QED
  BY <1>1, QueueInductive, PTL

(* prepare_call_wsgi finds a request in the queue whenever it is called.    *)
THEOREM AlwaysServes == Spec => []ServesSomething
<1>1. QueueInv => ServesSomething
  BY DEF QueueInv, QueueShape, ServesSomething
<1>. QED
  BY <1>1, QueueInductive, PTL

----------------------------------------------------------------------------
(* The answers of a connection as those of Pipelining.                      *)

IdsOf(s) == [k \in DOMAIN s |-> s[k].id]

LEMMA IdsTyped ==
  ASSUME NEW s \in Seq(Answer)
  PROVE  /\ IdsOf(s) \in Seq(Nat) /\ Len(IdsOf(s)) = Len(s)
         /\ \A k \in 1 .. Len(s) : IdsOf(s)[k] = s[k].id
<1>1. Len(s) \in Nat /\ DOMAIN s = 1 .. Len(s)
  BY LenProperties
<1>2. ASSUME NEW k \in 1 .. Len(s) PROVE s[k].id \in Nat
  <2>1. s[k] \in Answer
    BY ElementOfSeq
  <2>. QED
    BY <2>1, ConnectionAssumption DEF Answer
<1>3. IdsOf(s) \in [1 .. Len(s) -> Nat] /\ \A k \in 1 .. Len(s) : IdsOf(s)[k] = s[k].id
  BY <1>1, <1>2 DEF IdsOf
<1>. HIDE DEF IdsOf
<1>. QED
  BY <1>1, <1>3

LEMMA IdsAppended ==
  ASSUME NEW s \in Seq(Answer), NEW id \in 1 .. MaxRequests, NEW how \in Hows,
         NEW t, t = Append(s, [id |-> id, how |-> how])
  PROVE  IdsOf(t) = Append(IdsOf(s), id)
<1>1. /\ t \in Seq(Answer) /\ Len(t) = Len(s) + 1
      /\ \A k \in 1 .. Len(s) : t[k] = s[k]
      /\ t[Len(s) + 1].id = id
  BY AnswerAppended
<1>2. id \in Nat /\ Len(s) \in Nat
  BY ConnectionAssumption, LenProperties
<1>3. /\ IdsOf(s) \in Seq(Nat) /\ Len(IdsOf(s)) = Len(s)
      /\ \A k \in 1 .. Len(s) : IdsOf(s)[k] = s[k].id
  BY IdsTyped
<1>4. /\ IdsOf(t) \in Seq(Nat) /\ Len(IdsOf(t)) = Len(s) + 1
      /\ \A k \in 1 .. Len(s) + 1 : IdsOf(t)[k] = t[k].id
  BY <1>1, IdsTyped
<1>. DEFINE u == Append(IdsOf(s), id)
<1>. HIDE DEF IdsOf
<1>5. /\ u \in Seq(Nat) /\ Len(u) = Len(s) + 1 /\ u[Len(s) + 1] = id
      /\ \A k \in 1 .. Len(s) : u[k] = IdsOf(s)[k]
  BY <1>2, <1>3
<1>. HIDE DEF u
<1>6. ASSUME NEW k \in 1 .. Len(s) + 1 PROVE IdsOf(t)[k] = u[k]
  <2>1. CASE k = Len(s) + 1
    BY <1>1, <1>2, <1>4, <1>5, <2>1
  <2>2. CASE k \in 1 .. Len(s)
    BY <1>1, <1>3, <1>4, <1>5, <2>2
  <2>. QED
    BY <1>2, <2>1, <2>2
<1>7. IdsOf(t) = u
  BY <1>4, <1>5, <1>6, SeqEqual
<1>. QED
  BY <1>7 DEF u

LEMMA InitPromise == Init => Promise!Init
<1>. SUFFICES ASSUME Init PROVE Promise!Init
  OBVIOUS
<1>1. IdsOf(<<>>) = <<>>
  <2>1. /\ <<>> \in Seq(Answer) /\ <<>> \in Seq(Nat) /\ Len(<<>>) = 0
    BY EmptySeq
  <2>2. IdsOf(<<>>) \in Seq(Nat) /\ Len(IdsOf(<<>>)) = 0
    BY <2>1, IdsTyped
  <2>. HIDE DEF IdsOf
  <2>. QED
    BY <2>1, <2>2, EmptySeq
<1>2. answers = <<>> /\ Len(requests) = 0 /\ at # "closed"
  BY EmptySeq DEF Init
<1>. QED
  BY <1>1, <1>2 DEF Promise!Init, IdsOf

(* A step that changes neither the number of requests nor the answers, nor  *)
(* closes.                                                                  *)
LEMMA PromiseStutters ==
  ASSUME Len(requests') = Len(requests), answers' = answers,
         (at' = "closed") <=> (at = "closed")
  PROVE  UNCHANGED Promise!pVars
  BY DEF Promise!pVars

LEMMA PromiseAsked ==
  ASSUME QueueInv, MessageBegin
  PROVE  Promise!Ask
<1>1. PICK r \in Request : requests' = Append(requests, r)
  BY DEF MessageBegin, Request
<1>2. Len(requests') = Len(requests) + 1
  BY <1>1, Typed DEF QueueInv
<1>3. answers' = answers /\ at # "closed" /\ at' = at
  BY DEF MessageBegin, Parsing
<1>. QED
  BY <1>2, <1>3 DEF Promise!Ask

LEMMA PromiseAnswered ==
  ASSUME QueueInv, NEW how \in Hows,
         current' = Len(answers) + 1, current' \in 1 .. MaxRequests,
         Len(answers) < Len(requests),
         answers' = Append(answers, [id |-> current', how |-> how]),
         requests' = requests, at # "closed", at' # "closed"
  PROVE  Promise!Answer
<1>1. answers \in Seq(Answer)
  BY Typed DEF QueueInv
<1>2. IdsOf(answers') = Append(IdsOf(answers), current')
  BY <1>1, IdsAppended
<1>3. Len(IdsOf(answers)) = Len(answers)
  BY <1>1, IdsTyped
<1>4. /\ Len(IdsOf(answers)) < Len(requests)
      /\ IdsOf(answers') = Append(IdsOf(answers), Len(IdsOf(answers)) + 1)
  BY <1>2, <1>3
<1>. QED
  BY <1>4 DEF Promise!Answer, IdsOf

LEMMA PromiseClosed ==
  ASSUME QueueInv, CloseClient, at' = "closed"
  PROVE  Promise!Close
<1>1. answers \in Seq(Answer) /\ Len(answers) \in Nat
  BY Typed DEF QueueInv
<1>2. queue = <<>> /\ Busy = 0 /\ answers' = answers /\ requests' = requests
  BY DEF CloseClient, Busy, historyVars
<1>3. Len(requests) = Len(answers)
  BY <1>1, <1>2, EmptySeq DEF QueueInv, QueueHolds
<1>4. Len(IdsOf(answers)) = Len(requests)
  BY <1>1, <1>3, IdsTyped
<1>. QED
  BY <1>2, <1>4 DEF Promise!Close, IdsOf

LEMMA PromiseServes ==
  ASSUME QueueInv, Serve
  PROVE  [Promise!Next]_(Promise!pVars)
<1>1. Shift /\ at = "serve"
  BY DEF Serve, ServeRefused, ServeExpectation, ServeContinueFails, ServeCall, Shift
<1>2. /\ current' = Len(answers) + 1 /\ current' \in 1 .. MaxRequests /\ Busy = 0
      /\ requests' = requests
  BY <1>1, ShiftFacts DEF Shift
<1>3. Len(answers) < Len(requests)
  <2>1. /\ Len(answers) \in Nat /\ Len(requests) \in Nat
        /\ Len(queue) \in Nat /\ Len(queue) > 0
    BY <1>1, Typed DEF QueueInv, QueueShape
  <2>2. Len(requests) = Len(answers) + Busy + Len(queue)
    BY DEF QueueInv, QueueHolds
  <2>. QED
    BY <1>2, <2>1, <2>2
<1>4. CASE ServeRefused \/ ServeExpectation \/ ServeContinueFails
  <2>1. PICK how \in Hows : answers' = Append(answers, [id |-> current', how |-> how])
    BY <1>4 DEF ServeRefused, ServeExpectation, ServeContinueFails, Page, Hows
  <2>2. at' = "closing"
    BY <1>4 DEF ServeRefused, ServeExpectation, ServeContinueFails, Page
  <2>3. Promise!Answer
    BY <1>1, <1>2, <1>3, <2>1, <2>2, PromiseAnswered
  <2>. QED
    BY <2>3 DEF Promise!Next
<1>5. CASE ServeCall
  BY <1>1, <1>2, <1>5, PromiseStutters DEF ServeCall
<1>. QED
  BY <1>4, <1>5 DEF Serve

LEMMA PromiseEnds ==
  ASSUME QueueInv, AppEnds
  PROVE  Promise!Answer
<1>1. App /\ at = "app" /\ Busy = 1
  BY DEF AppEnds, AppAnswers, AppFails, AppFailsLate, App, Busy
<1>2. /\ TypeOK /\ Len(queue) \in Nat /\ Len(answers) \in Nat /\ Len(requests) \in Nat
  BY Typed DEF QueueInv
<1>3. current' = Len(answers) + 1 /\ Len(requests) = Len(answers) + 1 + Len(queue)
  BY <1>1 DEF QueueInv, QueueHolds, App
<1>4. current' \in 1 .. MaxRequests
  BY <1>1, <1>2, <1>3 DEF TypeOK, App
<1>5. PICK how \in Hows : answers' = Append(answers, [id |-> current', how |-> how])
  BY <1>1 DEF AppEnds, AppAnswers, AppFails, AppFailsLate, Answered, Page, App, Hows
<1>6. at' = "closing" /\ requests' = requests
  BY <1>1 DEF AppEnds, AppAnswers, AppFails, AppFailsLate, Page, App
<1>7. Len(answers) < Len(requests)
  BY <1>2, <1>3
<1>. QED
  BY <1>1, <1>3, <1>4, <1>5, <1>6, <1>7, PromiseAnswered

(* Every request that was begun is answered once and in order, and all of   *)
(* them before the connection is closed: Connection implements Pipelining.  *)
THEOREM Implements == Spec => AnswersInOrder
<1>1. ASSUME QueueInv, [Next]_vars
      PROVE  [Promise!Next]_(Promise!pVars)
  <2>1. CASE Read \/ ReadNothing \/ ReadTimeout \/ ReadEnd \/ ReadReset \/ Parsed
    <3>1. requests' = requests /\ answers' = answers /\ at # "closed" /\ at' # "closed"
      BY <2>1 DEF Read, ReadNothing, ReadTimeout, ReadEnd, ReadReset, ReadFails, Reading,
         SetReadError, Parsed, historyVars
    <3>. QED
      BY <3>1, PromiseStutters
  <2>2. CASE MessageBegin
    BY <1>1, <2>2, PromiseAsked DEF Promise!Next
  <2>3. CASE HeadersComplete \/ BodyRefused \/ MessageComplete \/ Junk
    <3>1. answers' = answers /\ at' = at
      BY <2>3 DEF HeadersComplete, BodyRefused, MessageComplete, Junk, Parsing
    <3>2. Len(requests') = Len(requests)
      BY <1>1, <2>3, Typed, DoneKeeps
      DEF QueueInv, HeadersComplete, BodyRefused, MessageComplete, Junk
    <3>. QED
      BY <3>1, <3>2, PromiseStutters
  <2>4. CASE Serve
    BY <1>1, <2>4, PromiseServes
  <2>5. CASE AppEnds
    BY <1>1, <2>5, PromiseEnds DEF Promise!Next
  <2>6. CASE AppTimesOut \/ UNCHANGED vars
    <3>1. requests' = requests /\ answers' = answers /\ at' = at
      BY <2>6 DEF AppTimesOut, App, vars, historyVars
    <3>. QED
      BY <3>1, PromiseStutters
  <2>7. CASE CloseClient
    <3>1. CASE at' = "closed"
      BY <1>1, <2>7, <3>1, PromiseClosed DEF Promise!Next
    <3>2. CASE at' # "closed"
      <4>1. requests' = requests /\ answers' = answers /\ at # "closed"
        BY <2>7 DEF CloseClient, historyVars
      <4>. QED
        BY <3>2, <4>1, PromiseStutters
    <3>. QED
      BY <3>1, <3>2
  <2>. QED
    BY <1>1, <2>1, <2>2, <2>3, <2>4, <2>5, <2>6, <2>7 DEF Next, Parse
<1>. QED
  BY <1>1, QueueInductive, InitPromise, PTL DEF Spec, AnswersInOrder, Promise!Spec

----------------------------------------------------------------------------
(* Why a connection refuses a request, keeps itself open or closes in       *)
(* silence.                                                                 *)

Arriving == at \in {"accepted", "idle", "parsing"}

(* What may be wrong with a request or behind it.                           *)
Cause(id) == ~requests[id].done \/ requests[id].kind = "upgrade" \/ id \in stray

AnswersNumbered == \A k \in 1 .. Len(answers) : answers[k].id = k

RefusedHaveCause ==
  /\ \A k \in 1 .. Len(answers) : answers[k].how = "refused" => Cause(k)
  /\ \A k \in 1 .. Len(queue) : queue[k].code > 200 => Cause(queue[k].id)

(* While requests arrive, only an error of the parser has marked one, and   *)
(* the last of the queue is the one that is being read.                     *)
ReadingShape ==
  Arriving =>
    /\ parser # "error" => \A k \in 1 .. Len(queue) : queue[k].code = 0
    /\ parser \in {"headers", "body"} => ~requests[current].done
    /\ queue # <<>> /\ (at # "parsing" \/ ~complete) => ~requests[current].done
    /\ queue # <<>> /\ parser = "error" => Cause(current)

(* An empty queue is that of a connection on which nothing was read.        *)
SilentShape ==
  Arriving =>
    /\ queue = <<>> => current = 0 /\ ~upgrade
    /\ queue = <<>> /\ at # "parsing" => complete
    /\ parser = "error" => ~upgrade

Keeps(id) == requests[id].keep
AllGood ==
  /\ answers # <<>> => is_keep_alive
  /\ \A k \in 1 .. Len(answers) : answers[k].how \in {"response", "partial", "silent"}

(* Requests that do not ask to be kept are the last to be parsed, and       *)
(* keep_alive is what that one asked for until something went wrong.        *)
KeepShape ==
  /\ Arriving =>
       /\ ~header_done /\ AllGood
       /\ \A i \in 1 .. Len(requests) - 1 : Keeps(i)
       /\ parser = "start" \/ queue = <<>> => \A i \in 1 .. Len(requests) : Keeps(i)
       /\ at = "parsing" /\ complete => parser \notin {"headers", "body"}
       /\ queue # <<>> /\ parser \in {"body", "start", "dead"} => keep_alive = Keeps(current)
  /\ at \in {"serve", "app", "closing"} /\ keep_alive =>
       /\ ~header_done /\ AllGood
       /\ \A i \in 1 .. Len(requests) : Keeps(i)
       /\ at = "app" => is_keep_alive

CauseInv ==
  /\ QueueInv /\ AnswersNumbered /\ RefusedHaveCause /\ ReadingShape /\ SilentShape /\ KeepShape

----------------------------------------------------------------------------
(* What the parts have in common.                                           *)

(* The request that is being read is the last one, and the last of the queue. *)
LEMMA TheLast ==
  ASSUME QueueInv, Arriving, queue # <<>>
  PROVE  /\ current = Len(requests) /\ current \in 1 .. Len(requests)
         /\ Len(queue) \in 1 .. Len(queue) /\ queue[Len(queue)].id = current
         /\ requests[current] \in Request /\ Len(answers) < Len(requests)
         /\ \A k \in 1 .. Len(queue) : queue[k].id \in 1 .. current
                                      /\ (k # Len(queue) => queue[k].id # current)
<1>1. current = Len(requests)
  BY DEF QueueInv, QueueShape, Arriving
<1>2. Busy = 0 /\ Len(requests) \in Nat /\ Len(answers) \in Nat /\ Len(queue) \in Nat
      /\ Len(queue) > 0 /\ requests \in Seq(Request)
  BY Typed DEF QueueInv, Busy, Arriving
<1>3. /\ Len(requests) = Len(answers) + Len(queue)
      /\ \A k \in 1 .. Len(queue) : queue[k].id = Len(answers) + k
  BY <1>2 DEF QueueInv, QueueHolds
<1>4. requests[current] \in Request
  BY <1>1, <1>2, <1>3, ElementOfSeq
<1>. QED
  BY <1>1, <1>2, <1>3, <1>4

(* How many of each there are.                                              *)
LEMMA Numbers ==
  ASSUME QueueInv
  PROVE  /\ Len(requests) \in Nat /\ Len(answers) \in Nat /\ Len(queue) \in Nat
         /\ Len(answers) <= Len(requests)
         /\ \A k \in 1 .. Len(queue) : queue[k].id \in 1 .. Len(requests)
BY Typed DEF QueueInv, TypeOK, QueueHolds, Busy

(* A step after which no cause is gone and no other request refused.        *)
LEMMA CausesKept ==
  ASSUME QueueInv, RefusedHaveCause, answers' = answers,
         \A i \in 1 .. Len(requests) : requests'[i] = requests[i], stray \subseteq stray',
         queue' = queue
  PROVE  RefusedHaveCause'
<1>1. ASSUME NEW i \in 1 .. Len(requests), Cause(i) PROVE Cause(i)'
  BY <1>1 DEF Cause
<1>2. 1 .. Len(answers) \subseteq 1 .. Len(requests)
  BY Numbers
<1>. QED
  BY <1>1, <1>2, Numbers DEF RefusedHaveCause

(* The last of the queue is marked, for a cause.                            *)
LEMMA MarkedForCause ==
  ASSUME QueueInv, Arriving, RefusedHaveCause, queue # <<>>, Cause(current),
         NEW code \in Codes, RefuseWith(code), UNCHANGED <<answers, requests, stray>>
  PROVE  RefusedHaveCause' /\ Len(queue') = Len(queue) /\ queue' # <<>>
<1>1. queue \in Seq(QueueEntry) /\ Len(queue) \in 1 .. Len(queue)
  BY Typed, TheLast DEF QueueInv
<1>. DEFINE e == [queue[Len(queue)] EXCEPT !.code = code]
<1>2. queue[Len(queue)] \in QueueEntry
  BY <1>1, ElementOfSeq
<1>3. e \in QueueEntry /\ e.id = current
  BY <1>2, TheLast DEF QueueEntry
<1>4. queue' = [queue EXCEPT ![Len(queue)] = e]
  BY DEF RefuseWith
<1>. HIDE DEF e
<1>5. /\ queue' \in Seq(QueueEntry) /\ Len(queue') = Len(queue)
      /\ \A k \in 1 .. Len(queue) : queue'[k] = IF k = Len(queue) THEN e ELSE queue[k]
  BY <1>1, <1>3, <1>4, ExceptSeq
<1>6. \A id : Cause(id) => Cause(id)'
  BY DEF Cause
<1>7. ASSUME NEW k \in 1 .. Len(queue'), (queue[k].code)' > 200 PROVE Cause(queue[k].id)'
  <2>1. k \in 1 .. Len(queue)
    BY <1>5
  <2>2. CASE k = Len(queue)
    BY <2>2, <1>3, <1>5, <1>6, <2>1
  <2>3. CASE k # Len(queue)
    <3>1. queue'[k] = queue[k]
      BY <2>1, <2>3, <1>5
    <3>2. Cause(queue[k].id)
      BY <1>7, <2>1, <3>1 DEF RefusedHaveCause
    <3>. QED
      BY <1>6, <3>1, <3>2
  <2>. QED
    BY <2>2, <2>3
<1>. QED
  BY <1>1, <1>5, <1>6, <1>7, EmptySeq DEF RefusedHaveCause

----------------------------------------------------------------------------
(* The parser.                                                              *)

LEMMA InitCauses == Init => CauseInv
<1>. SUFFICES ASSUME Init PROVE CauseInv
  OBVIOUS
<1>1. answers = <<>> /\ queue = <<>> /\ requests = <<>>
      /\ Len(answers) = 0 /\ Len(queue) = 0 /\ Len(requests) = 0
  BY EmptySeq DEF Init
<1>2. AnswersNumbered /\ RefusedHaveCause
  BY <1>1 DEF AnswersNumbered, RefusedHaveCause
<1>3. ReadingShape /\ SilentShape
  BY <1>1 DEF Init, ReadingShape, SilentShape
<1>4. KeepShape
  BY <1>1 DEF Init, KeepShape, AllGood
<1>. QED
  BY <1>2, <1>3, <1>4, InitQueue DEF CauseInv

LEMMA CauseBegin ==
  ASSUME CauseInv, MessageBegin
  PROVE  CauseInv'
<1>1. QueueInv /\ QueueInv'
  BY BeginStep DEF CauseInv
<1>. DEFINE n == Len(requests)
<1>2. n \in Nat /\ Len(queue) \in Nat /\ Len(answers) \in Nat /\ Len(answers) <= n
      /\ requests \in Seq(Request) /\ queue \in Seq(QueueEntry)
  BY <1>1, Numbers, Typed DEF QueueInv
<1>3. PICK r \in Request : requests' = Append(requests, r) /\ ~r.done
  <2>1. PICK kind \in Kinds, keep \in BOOLEAN :
          requests' = Append(requests, [kind |-> kind, keep |-> keep, done |-> FALSE])
    BY DEF MessageBegin
  <2>2. [kind |-> kind, keep |-> keep, done |-> FALSE] \in Request
    BY DEF Request
  <2>. QED
    BY <2>1, <2>2
<1>4. /\ Len(requests') = n + 1 /\ requests'[n + 1] = r
      /\ \A i \in 1 .. n : requests'[i] = requests[i]
  BY <1>2, <1>3
<1>5. current' = n + 1 /\ answers' = answers /\ stray' = stray
      /\ at = "parsing" /\ at' = at /\ parser = "start" /\ parser' = "headers" /\ ~complete'
      /\ ~upgrade /\ ~upgrade' /\ is_keep_alive' = is_keep_alive /\ header_done' = header_done
  BY <1>4 DEF MessageBegin, Parsing
<1>6. queue' = Append(queue, [id |-> n + 1, code |-> 0])
  BY <1>5 DEF MessageBegin, Push
<1>7. /\ Len(queue') = Len(queue) + 1 /\ queue' # <<>>
      /\ queue'[Len(queue) + 1] = [id |-> n + 1, code |-> 0]
      /\ \A k \in 1 .. Len(queue) : queue'[k] = queue[k]
  BY <1>2, <1>6
<1>8. AnswersNumbered'
  BY <1>5 DEF CauseInv, AnswersNumbered
<1>9. \A i \in 1 .. n : Cause(i) => Cause(i)'
  BY <1>4, <1>5 DEF Cause
<1>10. RefusedHaveCause'
  <2>1. ASSUME NEW k \in 1 .. Len(answers'), answers'[k].how = "refused" PROVE Cause(k)'
    BY <2>1, <1>2, <1>5, <1>9 DEF CauseInv, RefusedHaveCause
  <2>2. ASSUME NEW k \in 1 .. Len(queue'), (queue[k].code)' > 200 PROVE Cause(queue[k].id)'
    <3>1. CASE k \in 1 .. Len(queue)
      BY <2>2, <3>1, <1>1, <1>7, <1>9, Numbers DEF CauseInv, RefusedHaveCause
    <3>2. CASE k = Len(queue) + 1
      BY <2>2, <3>2, <1>7
    <3>. QED
      BY <3>1, <3>2, <1>2, <1>7
  <2>. QED
    BY <2>1, <2>2 DEF RefusedHaveCause
<1>11. ReadingShape'
  <2>1. \A k \in 1 .. Len(queue') : queue'[k].code = 0
    <3>1. \A k \in 1 .. Len(queue) : queue[k].code = 0
      BY <1>5 DEF CauseInv, ReadingShape, Arriving
    <3>. QED
      BY <1>2, <1>7, <3>1
  <2>2. ~requests'[current'].done
    BY <1>3, <1>4, <1>5
  <2>. QED
    BY <1>5, <2>1, <2>2 DEF ReadingShape
<1>12. SilentShape'
  BY <1>5, <1>7 DEF SilentShape
<1>13. KeepShape'
  <2>1. ~header_done /\ AllGood /\ \A i \in 1 .. n : Keeps(i)
    BY <1>5 DEF CauseInv, KeepShape, Arriving
  <2>2. ~header_done' /\ AllGood'
    BY <2>1, <1>5 DEF AllGood
  <2>3. \A i \in 1 .. Len(requests') - 1 : Keeps(i)'
    BY <2>1, <1>2, <1>4 DEF Keeps
  <2>. QED
    BY <2>2, <2>3, <1>5, <1>7 DEF KeepShape
<1>. QED
  BY <1>1, <1>8, <1>10, <1>11, <1>12, <1>13 DEF CauseInv

\* headers_complete_cb and body_cb mark a request that is not complete
LEMMA CauseHeaders ==
  ASSUME CauseInv, HeadersComplete
  PROVE  CauseInv'
<1>1. QueueInv /\ QueueInv'
  BY HeadersStep DEF CauseInv
<1>2. Arriving /\ Arriving' /\ at = "parsing" /\ at' = at /\ parser = "headers" /\ queue # <<>>
  BY <1>1 DEF QueueInv, QueueShape, HeadersComplete, Parsing, Arriving
<1>3. /\ parser' \in {"body", "error"} /\ keep_alive' = Keeps(current)
      /\ parser' # "error" => queue' = queue
      /\ UNCHANGED <<requests, answers, stray, current, complete, upgrade, header_done, is_keep_alive>>
      /\ ~upgrade
  BY DEF HeadersComplete, Parsing, Keeps
<1>4. ~requests[current].done
  BY <1>2 DEF CauseInv, ReadingShape
<1>5. RefusedHaveCause' /\ queue' # <<>>
  <2>1. CASE queue' = queue
    BY <1>1, <1>2, <1>3, <2>1, CausesKept DEF CauseInv
  <2>2. CASE RefuseWith(413)
    BY <1>1, <1>2, <1>3, <1>4, <2>2, MarkedForCause, 413 \in Codes DEF CauseInv, Cause, Codes
  <2>. QED
    BY <2>1, <2>2 DEF HeadersComplete
<1>6. AnswersNumbered'
  BY <1>3 DEF CauseInv, AnswersNumbered
<1>7. ReadingShape'
  <2>1. parser' # "error" => \A k \in 1 .. Len(queue') : queue'[k].code = 0
    BY <1>2, <1>3 DEF CauseInv, ReadingShape
  <2>. QED
    BY <1>3, <1>4, <2>1 DEF ReadingShape, Cause
<1>8. SilentShape'
  BY <1>2, <1>3, <1>5 DEF SilentShape
<1>9. KeepShape'
  <2>1. ~complete /\ ~header_done /\ AllGood /\ \A i \in 1 .. Len(requests) - 1 : Keeps(i)
    BY <1>2 DEF CauseInv, KeepShape
  <2>2. AllGood' /\ \A i \in 1 .. Len(requests') - 1 : Keeps(i)'
    BY <2>1, <1>3 DEF AllGood, Keeps
  <2>3. keep_alive' = Keeps(current)'
    BY <1>3 DEF Keeps
  <2>. QED
    BY <1>2, <1>3, <1>5, <2>1, <2>2, <2>3 DEF KeepShape
<1>. QED
  BY <1>1, <1>5, <1>6, <1>7, <1>8, <1>9 DEF CauseInv

LEMMA CauseBody ==
  ASSUME CauseInv, BodyRefused
  PROVE  CauseInv'
<1>1. QueueInv /\ QueueInv'
  BY BodyStep DEF CauseInv
<1>2. Arriving /\ Arriving' /\ at = "parsing" /\ at' = at /\ parser = "body" /\ queue # <<>>
      /\ parser' = "error" /\ RefuseWith(411)
  BY <1>1 DEF QueueInv, QueueShape, BodyRefused, Parsing, Arriving
<1>3. UNCHANGED <<requests, answers, stray, current, complete, keep_alive, upgrade, header_done,
                  is_keep_alive>> /\ ~upgrade
  BY DEF BodyRefused, Parsing, clientVars
<1>4. ~requests[current].done
  BY <1>2 DEF CauseInv, ReadingShape
<1>5. RefusedHaveCause' /\ queue' # <<>>
  BY <1>1, <1>2, <1>3, <1>4, MarkedForCause, 411 \in Codes DEF CauseInv, Cause, Codes
<1>6. AnswersNumbered'
  BY <1>3 DEF CauseInv, AnswersNumbered
<1>7. ReadingShape'
  BY <1>2, <1>3, <1>4 DEF ReadingShape, Cause
<1>8. SilentShape'
  BY <1>2, <1>3, <1>5 DEF SilentShape
<1>9. KeepShape'
  <2>1. ~header_done /\ AllGood /\ \A i \in 1 .. Len(requests) - 1 : Keeps(i)
    BY <1>2 DEF CauseInv, KeepShape
  <2>2. AllGood' /\ \A i \in 1 .. Len(requests') - 1 : Keeps(i)'
    BY <2>1, <1>3 DEF AllGood, Keeps
  <2>. QED
    BY <1>2, <1>3, <1>5, <2>1, <2>2 DEF KeepShape
<1>. QED
  BY <1>1, <1>5, <1>6, <1>7, <1>8, <1>9 DEF CauseInv

LEMMA CauseComplete ==
  ASSUME CauseInv, MessageComplete
  PROVE  CauseInv'
<1>1. QueueInv /\ QueueInv'
  BY CompleteStep DEF CauseInv
<1>2. Arriving /\ Arriving' /\ at = "parsing" /\ at' = at /\ parser = "body" /\ queue # <<>>
      /\ queue' = queue /\ complete' /\ parser' = IF Keeps(current) THEN "start" ELSE "dead"
  BY <1>1 DEF QueueInv, QueueShape, MessageComplete, Parsing, Arriving, Keeps
<1>3. UNCHANGED <<answers, stray, current, keep_alive, header_done, is_keep_alive>>
  BY DEF MessageComplete, Parsing
<1>4. current = Len(requests) /\ current \in 1 .. Len(requests) /\ requests[current] \in Request
      /\ Len(answers) < current /\ requests \in Seq(Request)
      /\ Len(answers) \in Nat /\ Len(requests) \in Nat
  BY <1>1, <1>2, TheLast, Typed DEF QueueInv
<1>5. /\ Len(requests') = Len(requests)
      /\ \A i \in 1 .. Len(requests) : i # current => requests'[i] = requests[i]
      /\ \A i \in 1 .. Len(requests) : Keeps(i)' = Keeps(i)
  <2>. DEFINE r == [requests[current] EXCEPT !.done = TRUE]
  <2>1. r \in Request /\ r.keep = requests[current].keep
    BY <1>4 DEF Request
  <2>2. requests' = [requests EXCEPT ![current] = r]
    BY DEF MessageComplete
  <2>. HIDE DEF r
  <2>3. /\ requests' \in Seq(Request) /\ Len(requests') = Len(requests)
        /\ \A i \in 1 .. Len(requests) : requests'[i] = IF i = current THEN r ELSE requests[i]
    BY <1>4, <2>1, <2>2, ExceptSeq
  <2>. QED
    BY <1>3, <2>1, <2>3 DEF Keeps
<1>6. RefusedHaveCause'
  <2>1. \A k \in 1 .. Len(queue') : queue'[k].code = 0
    BY <1>2 DEF CauseInv, ReadingShape
  <2>2. ASSUME NEW k \in 1 .. Len(answers'), answers'[k].how = "refused" PROVE Cause(k)'
    <3>1. k \in 1 .. Len(requests) /\ k # current
      BY <1>3, <1>4
    <3>2. Cause(k)
      BY <2>2, <1>3 DEF CauseInv, RefusedHaveCause
    <3>. QED
      BY <1>3, <1>5, <3>1, <3>2 DEF Cause
  <2>. QED
    BY <2>1, <2>2 DEF RefusedHaveCause
<1>7. AnswersNumbered'
  BY <1>3 DEF CauseInv, AnswersNumbered
<1>8. ReadingShape'
  <2>1. parser' \in {"start", "dead"}
    BY <1>2
  <2>2. \A k \in 1 .. Len(queue') : queue'[k].code = 0
    BY <1>2 DEF CauseInv, ReadingShape
  <2>. QED
    BY <1>2, <2>1, <2>2 DEF ReadingShape
<1>9. SilentShape'
  BY <1>2 DEF SilentShape
<1>10. KeepShape'
  <2>1. /\ ~header_done /\ AllGood /\ \A i \in 1 .. Len(requests) - 1 : Keeps(i)
        /\ keep_alive = Keeps(current)
    BY <1>2 DEF CauseInv, KeepShape
  <2>2. AllGood' /\ \A i \in 1 .. Len(requests') - 1 : Keeps(i)'
    BY <2>1, <1>3, <1>4, <1>5 DEF AllGood
  <2>3. parser' = "start" => \A i \in 1 .. Len(requests') : Keeps(i)'
    BY <2>1, <1>2, <1>4, <1>5
  <2>4. keep_alive' = Keeps(current)'
    BY <2>1, <1>3, <1>4, <1>5 DEF Keeps
  <2>. QED
    BY <1>2, <1>3, <2>1, <2>2, <2>3, <2>4 DEF KeepShape
<1>. QED
  BY <1>1, <1>6, <1>7, <1>8, <1>9, <1>10 DEF CauseInv

LEMMA CauseJunk ==
  ASSUME CauseInv, Junk
  PROVE  CauseInv'
<1>1. QueueInv /\ QueueInv'
  BY JunkStep DEF CauseInv
<1>2. Arriving /\ Arriving' /\ at = "parsing" /\ at' = at /\ parser' = "error" /\ ~upgrade
      /\ stray' = stray \cup {current}
  BY DEF Junk, Parsing, Arriving
<1>3. UNCHANGED <<requests, answers, queue, current, complete, keep_alive, upgrade, header_done,
                  is_keep_alive>>
  BY DEF Junk, Parsing, clientVars
<1>4. RefusedHaveCause'
  BY <1>1, <1>2, <1>3, CausesKept DEF CauseInv
<1>5. AnswersNumbered'
  BY <1>3 DEF CauseInv, AnswersNumbered
<1>6. ReadingShape'
  BY <1>2, <1>3 DEF CauseInv, ReadingShape, Cause
<1>7. SilentShape'
  BY <1>2, <1>3 DEF CauseInv, SilentShape
<1>8. KeepShape'
  BY <1>2, <1>3 DEF CauseInv, KeepShape, AllGood, Keeps
<1>. QED
  BY <1>1, <1>4, <1>5, <1>6, <1>7, <1>8 DEF CauseInv

----------------------------------------------------------------------------
(* Reads.                                                                   *)

LEMMA CauseRead ==
  ASSUME CauseInv, Read \/ ReadNothing
  PROVE  CauseInv'
<1>1. QueueInv /\ QueueInv'
  BY ReadStep DEF CauseInv
<1>2. /\ Arriving /\ Arriving' /\ at # "parsing"
      /\ \/ at' = "parsing" /\ ~complete'
         \/ at' # "parsing" /\ complete' = complete
      /\ UNCHANGED <<requests, answers, stray, queue, current, parser, keep_alive, upgrade,
                     header_done, is_keep_alive>>
  BY DEF Read, ReadNothing, Reading, Arriving, clientVars, historyVars
<1>3. RefusedHaveCause'
  BY <1>1, <1>2, CausesKept DEF CauseInv
<1>4. AnswersNumbered'
  BY <1>2 DEF CauseInv, AnswersNumbered
<1>5. ReadingShape'
  BY <1>2 DEF CauseInv, ReadingShape, Cause
<1>6. SilentShape'
  BY <1>2 DEF CauseInv, SilentShape
<1>7. KeepShape'
  <2>1. /\ ~header_done /\ AllGood /\ \A i \in 1 .. Len(requests) - 1 : Keeps(i)
        /\ parser = "start" \/ queue = <<>> => \A i \in 1 .. Len(requests) : Keeps(i)
        /\ queue # <<>> /\ parser \in {"body", "start", "dead"} => keep_alive = Keeps(current)
    BY <1>2 DEF CauseInv, KeepShape
  <2>2. ~header_done' /\ AllGood' /\ \A i \in 1 .. Len(requests') - 1 : Keeps(i)'
    BY <2>1, <1>2 DEF AllGood, Keeps
  <2>3. parser' = "start" \/ queue' = <<>> => \A i \in 1 .. Len(requests') : Keeps(i)'
    BY <2>1, <1>2 DEF Keeps
  <2>4. queue' # <<>> /\ parser' \in {"body", "start", "dead"} => keep_alive' = Keeps(current)'
    BY <2>1, <1>2 DEF Keeps
  <2>. QED
    BY <1>2, <2>2, <2>3, <2>4 DEF KeepShape, Arriving
<1>. QED
  BY <1>1, <1>3, <1>4, <1>5, <1>6, <1>7 DEF CauseInv

\* set_read_error refuses the request being read, which is not complete, or
\* has been found in error
LEMMA CauseError ==
  ASSUME CauseInv, QueueInv', Arriving, NEW code \in Codes, SetReadError(code),
         queue # <<>> => Cause(current), UNCHANGED <<requests, answers, stray>>
  PROVE  CauseInv'
<1>1. QueueInv
  BY DEF CauseInv
<1>2. at' \in {"serve", "closing"} /\ ~keep_alive' /\ ~Arriving'
  BY DEF SetReadError, Arriving
<1>3. RefusedHaveCause'
  <2>1. CASE queue # <<>>
    BY <1>1, <2>1, MarkedForCause DEF CauseInv, SetReadError
  <2>2. CASE queue = <<>>
    BY <1>1, <2>2, CausesKept DEF CauseInv, SetReadError
  <2>. QED
    BY <2>1, <2>2
<1>4. AnswersNumbered'
  BY DEF CauseInv, AnswersNumbered
<1>5. ReadingShape' /\ SilentShape'
  BY <1>2 DEF ReadingShape, SilentShape
<1>6. KeepShape'
  BY <1>2 DEF KeepShape
<1>. QED
  BY <1>3, <1>4, <1>5, <1>6 DEF CauseInv

LEMMA CauseFails ==
  ASSUME CauseInv, ReadTimeout \/ ReadEnd \/ ReadReset
  PROVE  CauseInv'
<1>1. QueueInv'
  BY FailedReadStep DEF CauseInv
<1>2. at \in {"accepted", "idle"} /\ Arriving /\ UNCHANGED <<requests, answers, stray>>
  BY DEF ReadTimeout, ReadEnd, ReadReset, ReadFails, Reading, Arriving
<1>3. queue # <<>> => Cause(current)
  BY <1>2 DEF CauseInv, ReadingShape, Cause
<1>4. SetReadError(408) \/ SetReadError(503) \/ SetReadError(500)
  BY DEF ReadTimeout, ReadEnd, ReadReset, ReadFails
<1>5. {408, 503, 500} \subseteq Codes
  BY DEF Codes
<1>. QED
  BY <1>1, <1>2, <1>3, <1>4, <1>5, CauseError

LEMMA CauseParsed ==
  ASSUME CauseInv, Parsed
  PROVE  CauseInv'
<1>1. QueueInv /\ QueueInv'
  BY ParsedStep DEF CauseInv
<1>2. Arriving /\ at = "parsing"
      /\ UNCHANGED <<requests, answers, stray, current, complete, upgrade, parser, is_keep_alive>>
  BY DEF Parsed, Arriving
<1>3. CASE ParseFails
  <2>1. SetReadError(CodeOrBadRequest)
    BY <1>3 DEF Parsed
  <2>2. CodeOrBadRequest \in Codes
    <3>1. CASE queue # <<>>
      <4>1. queue \in Seq(QueueEntry) /\ Len(queue) \in 1 .. Len(queue)
        BY <1>1, <1>2, <3>1, TheLast, Typed DEF QueueInv
      <4>2. Last(queue) \in QueueEntry
        BY <4>1, ElementOfSeq DEF Last
      <4>. QED
        BY <4>2 DEF CodeOrBadRequest, QueueEntry, Codes
    <3>2. CASE queue = <<>>
      BY <3>2 DEF CodeOrBadRequest, Codes
    <3>. QED
      BY <3>1, <3>2
  <2>3. queue # <<>> => Cause(current)
    <3>. SUFFICES ASSUME queue # <<>> PROVE Cause(current)
      OBVIOUS
    <3>1. current # 0
      BY <1>1, <1>2, TheLast
    <3>2. upgrade => requests[current].kind = "upgrade"
      BY <1>3 DEF ParseFails
    <3>3. ~upgrade => parser = "error"
      BY <1>3, <3>1 DEF ParseFails
    <3>. QED
      BY <1>2, <3>2, <3>3 DEF CauseInv, ReadingShape, Cause
  <2>. QED
    BY <1>1, <1>2, <2>1, <2>2, <2>3, CauseError
<1>4. CASE ~ParseFails
  <2>1. /\ at' = (IF complete THEN "serve" ELSE "idle")
        /\ UNCHANGED <<queue, keep_alive, header_done>>
    BY <1>4 DEF Parsed
  <2>2. queue # <<>> /\ parser # "error"
    <3>1. parser = "error" => ~upgrade
      BY <1>2 DEF CauseInv, SilentShape
    <3>2. queue = <<>> => current = 0 /\ ~upgrade
      BY <1>2 DEF CauseInv, SilentShape
    <3>. QED
      BY <1>4, <3>1, <3>2 DEF ParseFails
  <2>3. RefusedHaveCause'
    BY <1>1, <1>2, <2>1, CausesKept DEF CauseInv
  <2>4. AnswersNumbered'
    BY <1>2 DEF CauseInv, AnswersNumbered
  <2>5. ReadingShape'
    BY <1>2, <2>1, <2>2 DEF CauseInv, ReadingShape, Arriving, Cause
  <2>6. SilentShape'
    BY <1>2, <2>1, <2>2 DEF SilentShape, Arriving
  <2>7. KeepShape'
    <3>1. /\ ~header_done /\ AllGood /\ \A i \in 1 .. Len(requests) - 1 : Keeps(i)
          /\ parser = "start" => \A i \in 1 .. Len(requests) : Keeps(i)
          /\ parser \in {"body", "start", "dead"} => keep_alive = Keeps(current)
          /\ complete => parser \notin {"headers", "body"}
      BY <1>2, <2>2 DEF CauseInv, KeepShape
    <3>2. ~header_done' /\ AllGood'
      BY <3>1, <1>2, <2>1 DEF AllGood
    <3>3. CASE ~complete
      BY <3>1, <3>2, <3>3, <1>2, <2>1, <2>2 DEF KeepShape, Arriving, Keeps
    <3>4. CASE complete
      <4>1. keep_alive = Keeps(current)
        BY <3>1, <3>4, <2>2, <1>1 DEF QueueInv, TypeOK
      <4>2. keep_alive' => \A i \in 1 .. Len(requests') : Keeps(i)'
        <5>. SUFFICES ASSUME keep_alive', NEW i \in 1 .. Len(requests) PROVE Keeps(i)'
          BY <1>2
        <5>1. i \in 1 .. Len(requests) - 1 \/ i = current
          BY <1>1, <1>2, <2>2, TheLast, Numbers
        <5>2. Keeps(i)
          BY <3>1, <4>1, <5>1, <2>1
        <5>. QED
          BY <5>2, <1>2 DEF Keeps
      <4>3. at' = "serve"
        BY <3>4, <2>1
      <4>. QED
        BY <3>2, <4>2, <4>3 DEF KeepShape, Arriving
    <3>. QED
      BY <3>3, <3>4
  <2>. QED
    BY <1>1, <2>3, <2>4, <2>5, <2>6, <2>7 DEF CauseInv
<1>. QED
  BY <1>3, <1>4

----------------------------------------------------------------------------
(* Answers.                                                                 *)

\* one answer more, in its turn
LEMMA OneMore ==
  ASSUME CauseInv, NEW how \in Hows, NEW id, id = Len(answers) + 1, id \in 1 .. MaxRequests,
         answers' = Append(answers, [id |-> id, how |-> how]),
         how = "refused" => Cause(id), UNCHANGED <<requests, stray>>,
         \A k \in 1 .. Len(queue') : \E j \in 1 .. Len(queue) : queue'[k] = queue[j]
  PROVE  /\ AnswersNumbered' /\ RefusedHaveCause' /\ answers' # <<>>
         /\ \A k \in 1 .. Len(answers') : \/ answers'[k].how = how
                                         \/ /\ k \in 1 .. Len(answers)
                                            /\ answers'[k] = answers[k]
<1>1. answers \in Seq(Answer) /\ Len(answers) \in Nat
  BY Typed DEF CauseInv, QueueInv
<1>2. /\ Len(answers') = Len(answers) + 1 /\ answers' \in Seq(Answer)
      /\ \A k \in 1 .. Len(answers) : answers'[k] = answers[k]
      /\ answers'[Len(answers) + 1].id = id /\ answers'[Len(answers) + 1].how = how
  <2>1. answers'[Len(answers) + 1] = [id |-> id, how |-> how]
    BY <1>1
  <2>. QED
    BY <1>1, <2>1, AnswerAppended
<1>3. \A k \in 1 .. Len(answers') : k \in 1 .. Len(answers) \/ k = Len(answers) + 1
  BY <1>1, <1>2
<1>4. \A i : Cause(i) => Cause(i)'
  BY DEF Cause
<1>5. AnswersNumbered'
  BY <1>2, <1>3 DEF CauseInv, AnswersNumbered
<1>6. ASSUME NEW k \in 1 .. Len(answers'), answers'[k].how = "refused" PROVE Cause(k)'
  <2>1. CASE k \in 1 .. Len(answers)
    BY <1>2, <1>4, <1>6, <2>1 DEF CauseInv, RefusedHaveCause
  <2>2. CASE k = Len(answers) + 1
    BY <1>2, <1>4, <1>6, <2>2
  <2>. QED
    BY <1>3, <2>1, <2>2
<1>7. ASSUME NEW k \in 1 .. Len(queue'), (queue[k].code)' > 200 PROVE Cause(queue[k].id)'
  <2>1. PICK j \in 1 .. Len(queue) : queue'[k] = queue[j]
    OBVIOUS
  <2>2. Cause(queue[j].id)
    BY <1>7, <2>1 DEF CauseInv, RefusedHaveCause
  <2>. QED
    BY <1>4, <2>1, <2>2
<1>8. RefusedHaveCause'
  BY <1>6, <1>7 DEF RefusedHaveCause
<1>9. answers' # <<>>
  BY <1>1, <1>2, EmptySeq
<1>. QED
  BY <1>2, <1>3, <1>5, <1>8, <1>9

LEMMA CauseServe ==
  ASSUME CauseInv, Serve
  PROVE  CauseInv'
<1>1. QueueInv /\ QueueInv'
  BY ServeStep DEF CauseInv
<1>2. Shift /\ at = "serve"
  BY DEF Serve, ServeRefused, ServeExpectation, ServeContinueFails, ServeCall, Shift
<1>3. /\ Len(queue) \in Nat /\ queue # <<>> /\ Len(queue') = Len(queue) - 1
      /\ \A k \in 1 .. Len(queue') : queue'[k] = queue[k + 1]
      /\ current' = Len(answers) + 1 /\ current' \in 1 .. MaxRequests
  BY <1>1, <1>2, ShiftFacts, Typed DEF QueueInv, QueueShape
<1>4. \A k \in 1 .. Len(queue') : \E j \in 1 .. Len(queue) : queue'[k] = queue[j]
  BY <1>3
<1>5. UNCHANGED <<requests, stray, header_done, is_keep_alive>>
  BY <1>2 DEF Shift
<1>6. at' \in {"app", "closing"} /\ ~Arriving'
  BY DEF Serve, ServeRefused, ServeExpectation, ServeContinueFails, ServeCall, Page, Arriving
<1>7. ReadingShape' /\ SilentShape'
  BY <1>6 DEF ReadingShape, SilentShape
<1>8. keep_alive => ~header_done /\ AllGood /\ \A i \in 1 .. Len(requests) : Keeps(i)
  BY <1>2 DEF CauseInv, KeepShape
<1>9. ASSUME NEW how \in Hows, NEW keep, keep => keep_alive, Page(how, keep),
             how = "refused" => Cause(Len(answers) + 1)
      PROVE  CauseInv'
  <2>1. PICK h \in Hows : answers' = Append(answers, [id |-> current', how |-> h])
                          /\ (h = "refused" => how = "refused")
    <3>1. "none" \in Hows
      BY DEF Hows
    <3>. QED
      BY <1>9, <3>1 DEF Page
  <2>2. AnswersNumbered' /\ RefusedHaveCause'
    BY <1>3, <1>4, <1>5, <1>9, <2>1, OneMore
  <2>3. ~keep_alive'
    BY <1>8, <1>9 DEF Page
  <2>4. KeepShape'
    BY <1>6, <2>3 DEF KeepShape
  <2>. QED
    BY <1>1, <1>7, <2>2, <2>4 DEF CauseInv
<1>10. CASE ServeRefused
  <2>1. Head(queue) = queue[1] /\ 1 \in 1 .. Len(queue)
    BY <1>3
  <2>2. Cause(queue[1].id)
    BY <1>10, <2>1 DEF ServeRefused, CauseInv, RefusedHaveCause
  <2>3. queue[1].id = Len(answers) + 1
    BY <1>2, <1>3, <2>1 DEF Shift
  <2>4. "refused" \in Hows /\ Page("refused", keep_alive)
    BY <1>10 DEF ServeRefused, Hows
  <2>. QED
    BY <1>9, <2>2, <2>3, <2>4
<1>11. CASE ServeExpectation \/ ServeContinueFails
  <2>1. "failed" \in Hows /\ Page("failed", FALSE)
    BY <1>11 DEF ServeExpectation, ServeContinueFails, Hows
  <2>. QED
    BY <1>9, <2>1
<1>12. CASE ServeCall
  <2>1. answers' = answers /\ at' = "app" /\ keep_alive' = (keep_alive /\ is_keep_alive)
    BY <1>12 DEF ServeCall
  <2>2. AnswersNumbered'
    BY <2>1 DEF CauseInv, AnswersNumbered
  <2>3. RefusedHaveCause'
    <3>1. \A i : Cause(i) => Cause(i)'
      BY <1>5 DEF Cause
    <3>2. ASSUME NEW k \in 1 .. Len(queue'), (queue[k].code)' > 200 PROVE Cause(queue[k].id)'
      <4>1. PICK j \in 1 .. Len(queue) : queue'[k] = queue[j]
        BY <1>4
      <4>2. Cause(queue[j].id)
        BY <3>2, <4>1 DEF CauseInv, RefusedHaveCause
      <4>. QED
        BY <3>1, <4>1, <4>2
    <3>3. \A k \in 1 .. Len(answers') : answers'[k].how = "refused" => Cause(k)'
      BY <2>1, <3>1 DEF CauseInv, RefusedHaveCause
    <3>. QED
      BY <3>2, <3>3 DEF RefusedHaveCause
  <2>4. KeepShape'
    <3>1. keep_alive' => keep_alive /\ is_keep_alive
      BY <2>1
    <3>. QED
      BY <3>1, <1>5, <1>6, <1>8, <2>1 DEF KeepShape, AllGood, Keeps
  <2>. QED
    BY <1>1, <1>7, <2>2, <2>3, <2>4 DEF CauseInv
<1>. QED
  BY <1>10, <1>11, <1>12 DEF Serve

LEMMA CauseApp ==
  ASSUME CauseInv, AppEnds
  PROVE  CauseInv'
<1>1. QueueInv /\ QueueInv'
  BY AppStep DEF CauseInv
<1>2. App /\ at = "app" /\ at' = "closing" /\ ~Arriving'
  BY DEF AppEnds, AppAnswers, AppFails, AppFailsLate, App, Page, Arriving
<1>3. UNCHANGED <<queue, requests, stray, header_done, is_keep_alive, current>>
  BY <1>2 DEF App
<1>4. current = Len(answers) + 1 /\ current \in 1 .. MaxRequests
  <2>1. current = Len(answers) + 1 /\ current \in 0 .. MaxRequests
    BY <1>1, <1>2 DEF QueueInv, QueueHolds, TypeOK
  <2>. QED
    BY <2>1, <1>1, Typed DEF QueueInv
<1>5. keep_alive => /\ ~header_done /\ AllGood /\ is_keep_alive
                    /\ \A i \in 1 .. Len(requests) : Keeps(i)
  BY <1>2 DEF CauseInv, KeepShape
<1>6. PICK how \in Hows \ {"refused"} :
        /\ answers' = Append(answers, [id |-> current, how |-> how])
        /\ keep_alive' => keep_alive /\ how \in {"response", "partial", "silent"}
  <2>1. CASE AppAnswers
    <3>1. answers' = Append(answers, [id |-> current, how |-> IF header_done THEN "none" ELSE "response"])
          /\ keep_alive' = keep_alive
      BY <2>1 DEF AppAnswers, Answered
    <3>. QED
      BY <3>1, <1>5 DEF Hows
  <2>2. CASE AppFails
    <3>1. answers' = Append(answers, [id |-> current, how |-> IF header_done THEN "none" ELSE "failed"])
      BY <2>2, <1>3 DEF AppFails, Page
    <3>2. ~keep_alive'
      BY <2>2, <1>5 DEF AppFails, Page
    <3>. QED
      BY <3>1, <3>2 DEF Hows
  <2>3. CASE AppFailsLate
    <3>1. keep_alive' = keep_alive /\ (Answered("partial") \/ Answered("silent"))
      BY <2>3 DEF AppFailsLate
    <3>. QED
      BY <3>1 DEF Answered, Hows
  <2>. QED
    BY <2>1, <2>2, <2>3 DEF AppEnds
<1>7. \A k \in 1 .. Len(queue') : \E j \in 1 .. Len(queue) : queue'[k] = queue[j]
  BY <1>3
<1>8. /\ AnswersNumbered' /\ RefusedHaveCause'
      /\ \A k \in 1 .. Len(answers') : \/ answers'[k].how = how
                                      \/ /\ k \in 1 .. Len(answers)
                                         /\ answers'[k] = answers[k]
  BY <1>3, <1>4, <1>6, <1>7, OneMore
<1>9. ReadingShape' /\ SilentShape'
  BY <1>2 DEF ReadingShape, SilentShape
<1>10. KeepShape'
  <2>1. CASE ~keep_alive'
    BY <2>1, <1>2 DEF KeepShape
  <2>2. CASE keep_alive'
    <3>1. AllGood'
      BY <2>2, <1>3, <1>5, <1>6, <1>8 DEF AllGood
    <3>. QED
      BY <2>2, <3>1, <1>2, <1>3, <1>5, <1>6 DEF KeepShape, Keeps
  <2>. QED
    BY <2>1, <2>2
<1>. QED
  BY <1>1, <1>8, <1>9, <1>10 DEF CauseInv

LEMMA CauseTimesOut ==
  ASSUME CauseInv, AppTimesOut
  PROVE  CauseInv'
<1>1. QueueInv /\ QueueInv'
  BY TimeOutStep DEF CauseInv
<1>2. /\ at' = "app" /\ ~keep_alive' /\ ~Arriving'
      /\ UNCHANGED <<queue, requests, answers, stray>>
  BY DEF AppTimesOut, App, Arriving
<1>3. RefusedHaveCause'
  BY <1>1, <1>2, CausesKept DEF CauseInv
<1>4. AnswersNumbered' /\ ReadingShape' /\ SilentShape' /\ KeepShape'
  BY <1>2 DEF CauseInv, AnswersNumbered, ReadingShape, SilentShape, KeepShape
<1>. QED
  BY <1>1, <1>3, <1>4 DEF CauseInv

LEMMA CauseClose ==
  ASSUME CauseInv, CloseClient
  PROVE  CauseInv'
<1>1. QueueInv /\ QueueInv'
  BY CloseStep DEF CauseInv
<1>2. /\ at = "closing" /\ current' = 0 /\ ~header_done'
      /\ UNCHANGED <<queue, requests, answers, stray, is_keep_alive, keep_alive>>
  BY DEF CloseClient, historyVars
<1>3. keep_alive => AllGood /\ \A i \in 1 .. Len(requests) : Keeps(i)
  BY <1>2 DEF CauseInv, KeepShape
<1>4. RefusedHaveCause'
  BY <1>1, <1>2, CausesKept DEF CauseInv
<1>5. AnswersNumbered'
  BY <1>2 DEF CauseInv, AnswersNumbered
<1>6. CASE at' \in {"serve", "closed"}
  <2>1. ReadingShape' /\ SilentShape'
    BY <1>6 DEF ReadingShape, SilentShape, Arriving
  <2>2. KeepShape'
    BY <1>2, <1>3, <1>6 DEF KeepShape, Arriving, AllGood, Keeps
  <2>. QED
    BY <1>1, <1>4, <1>5, <2>1, <2>2 DEF CauseInv
<1>7. CASE at' = "idle"
  <2>1. queue' = <<>> /\ keep_alive /\ complete' /\ ~upgrade' /\ parser' = "start" /\ Len(queue') = 0
    BY <1>7, EmptySeq DEF CloseClient
  <2>2. ReadingShape' /\ SilentShape'
    BY <1>2, <2>1, <1>7 DEF ReadingShape, SilentShape
  <2>3. AllGood' /\ \A i \in 1 .. Len(requests') : Keeps(i)'
    BY <1>2, <1>3, <2>1 DEF AllGood, Keeps
  <2>4. \A i \in 1 .. Len(requests') - 1 : Keeps(i)'
    BY <2>3, <1>1, Numbers, <1>2
  <2>5. KeepShape'
    BY <1>2, <1>7, <2>1, <2>3, <2>4 DEF KeepShape
  <2>. QED
    BY <1>1, <1>4, <1>5, <2>2, <2>5 DEF CauseInv
<1>. QED
  BY <1>6, <1>7 DEF CloseClient

LEMMA CauseStutters ==
  ASSUME CauseInv, UNCHANGED vars
  PROVE  CauseInv'
<1>1. QueueInv /\ QueueInv'
  BY StutterStep DEF CauseInv
<1>2. /\ UNCHANGED <<is_keep_alive, at, queue, current, complete, upgrade, keep_alive, header_done>>
      /\ UNCHANGED <<parser, requests, answers, stray>>
  BY DEF vars, clientVars, historyVars
<1>3. RefusedHaveCause'
  BY <1>1, <1>2, CausesKept DEF CauseInv
<1>4. AnswersNumbered' /\ ReadingShape' /\ SilentShape'
  BY <1>2 DEF CauseInv, AnswersNumbered, ReadingShape, SilentShape, Arriving, Cause
<1>5. KeepShape'
  BY <1>2 DEF CauseInv, KeepShape, Arriving, AllGood, Keeps
<1>. QED
  BY <1>1, <1>3, <1>4, <1>5 DEF CauseInv

----------------------------------------------------------------------------
(* Only an error of the parser marks a request, the one that was being      *)
(* read, and keep_alive is its wish until something went wrong.             *)
THEOREM CauseInductive == Spec => []CauseInv
<1>1. ASSUME CauseInv, [Next]_vars
      PROVE  CauseInv'
  <2>1. CASE Read \/ ReadNothing
    BY <1>1, <2>1, CauseRead
  <2>2. CASE Parse
    BY <1>1, <2>2, CauseBegin, CauseHeaders, CauseBody, CauseComplete, CauseJunk DEF Parse
  <2>3. CASE Parsed
    BY <1>1, <2>3, CauseParsed
  <2>4. CASE ReadTimeout \/ ReadEnd \/ ReadReset
    BY <1>1, <2>4, CauseFails
  <2>5. CASE Serve
    BY <1>1, <2>5, CauseServe
  <2>6. CASE AppEnds
    BY <1>1, <2>6, CauseApp
  <2>7. CASE AppTimesOut
    BY <1>1, <2>7, CauseTimesOut
  <2>8. CASE CloseClient
    BY <1>1, <2>8, CauseClose
  <2>9. CASE UNCHANGED vars
    BY <1>1, <2>9, CauseStutters
  <2>. QED
    BY <1>1, <2>1, <2>2, <2>3, <2>4, <2>5, <2>6, <2>7, <2>8, <2>9 DEF Next
<1>. QED
  BY <1>1, InitCauses, PTL DEF Spec

\* the answers, counted
LEMMA AnswersCounted ==
  ASSUME QueueInv
  PROVE  DOMAIN answers = 1 .. Len(answers)
BY Typed DEF QueueInv, TypeOK

(* set_read_error marks only a request that is not there to its end, that   *)
(* asks for an upgrade or that is followed by bytes of none: whatever the   *)
(* order of the errors, no request before it in the queue is refused.       *)
THEOREM RefusedForCause == Spec => []RefusedWithCause
<1>1. CauseInv => RefusedWithCause
  <2>. SUFFICES ASSUME CauseInv PROVE RefusedWithCause
    OBVIOUS
  <2>1. DOMAIN answers = 1 .. Len(answers)
    BY AnswersCounted DEF CauseInv
  <2>. QED
    BY <2>1 DEF CauseInv, AnswersNumbered, RefusedHaveCause, Cause, RefusedWithCause
<1>. QED
  BY <1>1, CauseInductive, PTL

(* close_client reads from a connection again only when the server keeps    *)
(* connections, each of its requests asked for it and no error page was due *)
(* for any of them.  An answer that was cut off does not close it, see      *)
(* CutOffCloses of Connection.                                              *)
THEOREM KeptAsAsked == Spec => []KeptOnlyIfAsked
<1>1. CauseInv => KeptOnlyIfAsked
  <2>. SUFFICES ASSUME CauseInv, at = "idle", answers # <<>> PROVE KeptOnlyIfAsked
    BY DEF KeptOnlyIfAsked
  <2>1. QueueInv /\ Arriving
    BY DEF CauseInv, Arriving
  <2>2. /\ AllGood /\ \A i \in 1 .. Len(requests) - 1 : Keeps(i)
        /\ queue = <<>> => \A i \in 1 .. Len(requests) : Keeps(i)
    BY <2>1 DEF CauseInv, KeepShape
  <2>3. ASSUME NEW k \in 1 .. Len(answers) PROVE Keeps(k)
    <3>1. Len(requests) \in Nat /\ Len(answers) \in Nat /\ Len(answers) <= Len(requests)
      BY <2>1, Numbers
    <3>2. CASE queue = <<>>
      BY <2>2, <3>1, <3>2
    <3>3. CASE queue # <<>>
      <4>1. Len(answers) < Len(requests)
        BY <2>1, <3>3, TheLast
      <4>. QED
        BY <2>2, <3>1, <4>1
    <3>. QED
      BY <3>2, <3>3
  <2>4. DOMAIN answers = 1 .. Len(answers)
    BY <2>1, AnswersCounted
  <2>5. \A k \in DOMAIN answers : answers[k].id = k
    BY <2>4 DEF CauseInv, AnswersNumbered
  <2>. QED
    BY <2>2, <2>3, <2>4, <2>5 DEF KeptOnlyIfAsked, AllGood, Keeps
<1>. QED
  BY <1>1, CauseInductive, PTL

(* set_read_error and the timeout of read_callback send no page on a        *)
(* connection on which nothing was read: that one is complete.              *)
THEOREM SilentWhenIdle == Spec => IdleIsSilent
<1>1. ASSUME CauseInv, [Next]_vars, Reading, queue = <<>>
      PROVE  UNCHANGED <<pages, answers>>
  <2>1. complete
    BY <1>1 DEF CauseInv, SilentShape, Arriving, Reading
  <2>2. CASE Read \/ ReadNothing
    BY <2>2 DEF Read, ReadNothing, historyVars
  <2>3. CASE ReadTimeout \/ ReadEnd \/ ReadReset
    BY <1>1, <2>1, <2>3 DEF ReadTimeout, ReadEnd, ReadReset, ReadFails, SetReadError
  <2>4. CASE UNCHANGED vars
    BY <2>4 DEF vars, clientVars, historyVars
  <2>5. at \in {"accepted", "idle"}
    BY <1>1 DEF Reading
  <2>6. ~Parse /\ ~Parsed
    BY <2>5 DEF Parse, MessageBegin, HeadersComplete, BodyRefused, MessageComplete, Junk,
                Parsing, Parsed
  <2>7. ~Serve /\ ~AppEnds /\ ~AppTimesOut /\ ~CloseClient
    BY <2>5 DEF Serve, ServeRefused, ServeExpectation, ServeContinueFails, ServeCall, Shift,
                AppEnds, AppAnswers, AppFails, AppFailsLate, AppTimesOut, App, CloseClient
  <2>. QED
    BY <1>1, <2>2, <2>3, <2>4, <2>6, <2>7 DEF Next
<1>2. CauseInv /\ [Next]_vars => [Reading /\ queue = <<>> => UNCHANGED <<pages, answers>>]_vars
  BY <1>1
<1>. QED
  BY <1>2, CauseInductive, PTL DEF Spec, IdleIsSilent
=============================================================================
