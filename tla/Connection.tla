----------------------------- MODULE Connection -----------------------------
(***************************************************************************)
(* A connection of src/meinheld/server: read_callback, accept_callback and *)
(* close_client of server.c, the queue of request.c and the callbacks of   *)
(* http_request_parser.c.  A peer sends requests, as many in one piece as  *)
(* it likes and each in as many pieces as it likes, is slow, goes away.    *)
(*                                                                         *)
(*   "accepted"  accept_callback reads, the descriptor is not registered   *)
(*   "idle"      registered with read_callback                             *)
(*   "parsing"   in execute_parse                                          *)
(*   "serve"     before check_status_code                                  *)
(*   "app"       in app_handler                                            *)
(*   "closing"   before close_client                                       *)
(*   "closed"    the descriptor is closed                                  *)
(*                                                                         *)
(* What callbacks and registrations do while a request waits is the        *)
(* subject of Continuation, what is written of Response.                   *)
(***************************************************************************)
EXTENDS Naturals, Sequences, SequencesExt

CONSTANTS
  Kinds,        (* kinds of requests, see below                             *)
  MaxRequests   (* bound: how many a peer begins                            *)

(* "plain"     nothing special                                             *)
(* "old"       HTTP/1.0, the others are HTTP/1.1                            *)
(* "head"      headers_complete_cb refuses it (or a callback before)        *)
(* "body"      body_cb refuses it                                           *)
(* "continue"  Expect: 100-continue                                         *)
(* "expect"    Expect: anything else                                        *)
(* "websocket" an upgrade the server knows                                  *)
(* "upgrade"   an upgrade it does not                                       *)
ASSUME ConnectionAssumption ==
  /\ Kinds \subseteq {"plain", "old", "head", "body", "continue", "expect", "websocket",
                    "upgrade"}
  /\ MaxRequests \in Nat

VARIABLES
  is_keep_alive,    (* the server was started with keep-alive              *)
  at,
  queue,            (* client->request_queue                               *)
  current,          (* client->current_req, 0 for NULL                     *)
  complete,
  keep_alive,
  upgrade,
  header_done,      (* client->header_done and response_closed             *)
  parser,           (* state of the tokenizer                              *)
  requests,         (* history: the requests begun                         *)
  answers,          (* history: how which request was answered             *)
  stray,            (* history: requests that junk followed                *)
  pages             (* history: error pages for no request                 *)

clientVars  == <<complete, keep_alive, upgrade, header_done>>
historyVars == <<requests, answers, stray, pages>>
vars == <<is_keep_alive, at, queue, current, clientVars, parser, historyVars>>

Init ==
  /\ is_keep_alive \in BOOLEAN
  /\ at = "accepted"
  /\ queue = <<>> /\ current = 0
  /\ complete = TRUE /\ keep_alive = FALSE /\ upgrade = FALSE /\ header_done = FALSE
  /\ parser = "start"
  /\ requests = <<>> /\ answers = <<>> /\ stray = {} /\ pages = 0

Answered(how) == answers' = Append(answers, [id |-> current, how |-> how])

----------------------------------------------------------------------------
(* execute_parse: the callbacks of http_request_parser.c, in any number     *)
(* before the buffer is at its end.                                         *)

Reading == at \in {"accepted", "idle"}

Read ==
  /\ Reading
  /\ at' = "parsing"
  /\ complete' = FALSE
  /\ UNCHANGED <<is_keep_alive, queue, current, keep_alive, upgrade, header_done, parser,
                 historyVars>>

\* bytes that belong to no request are left in the buffer after an upgrade
Parsing ==
  /\ at = "parsing" /\ ~upgrade /\ parser # "error"
  /\ UNCHANGED <<is_keep_alive, at, header_done, answers, pages>>

RefuseWith(code) == queue' = [queue EXCEPT ![Len(queue)].code = code]

PushFirst(id) ==             \* faulty: the newest request is the head
  <<[id |-> id, code |-> 0]>> \o queue

Push(id) == Append(queue, [id |-> id, code |-> 0])

MessageBegin ==
  /\ Parsing /\ parser = "start"
  /\ Len(requests) < MaxRequests
  /\ \E kind \in Kinds, keep \in BOOLEAN :
        requests' = Append(requests, [kind |-> kind, keep |-> keep, done |-> FALSE])
  /\ current' = Len(requests')
  /\ queue' = Push(current')
  /\ complete' = FALSE
  /\ parser' = "headers"
  /\ UNCHANGED <<keep_alive, upgrade, stray>>

HeadersComplete ==
  /\ Parsing /\ parser = "headers"
  /\ keep_alive' = requests[current].keep
  /\ IF requests[current].kind = "head"
     THEN parser' = "error" /\ RefuseWith(413)
     ELSE parser' = "body" /\ UNCHANGED queue
  /\ UNCHANGED <<current, complete, upgrade, requests, stray>>

BodyRefused ==
  /\ Parsing /\ parser = "body"
  /\ requests[current].kind = "body"
  /\ parser' = "error" /\ RefuseWith(411)
  /\ UNCHANGED <<current, clientVars, requests, stray>>

\* the tokenizer takes no request after one that closes the connection
MessageComplete ==
  /\ Parsing /\ parser = "body"
  /\ requests[current].kind # "body"
  /\ complete' = TRUE
  /\ upgrade' = (requests[current].kind \in {"websocket", "upgrade"})
  /\ parser' = IF requests[current].keep THEN "start" ELSE "dead"
  /\ requests' = [requests EXCEPT ![current].done = TRUE]
  /\ UNCHANGED <<queue, current, keep_alive, stray>>

\* bytes that are no part of a request
Junk ==
  /\ Parsing
  /\ parser' = "error"
  /\ stray' = stray \cup {current}
  /\ UNCHANGED <<queue, current, clientVars, requests>>

----------------------------------------------------------------------------
(* set_read_error: the request being read, or the last one that was, is     *)
(* refused in its turn; if there is none the connection is closed, with a   *)
(* page if something was read.                                              *)
SetReadErrorFirst(code) ==   \* faulty: the first request is refused
  /\ keep_alive' = FALSE
  /\ IF queue # <<>>
     THEN queue' = [queue EXCEPT ![1].code = code] /\ at' = "serve" /\ UNCHANGED pages
     ELSE /\ at' = "closing"
          /\ pages' = IF ~complete /\ ~header_done' THEN pages + 1 ELSE pages
          /\ UNCHANGED queue

SetReadErrorAlways(code) ==  \* faulty: a page for a connection that is idle
  /\ keep_alive' = FALSE
  /\ IF queue # <<>>
     THEN RefuseWith(code) /\ at' = "serve" /\ UNCHANGED pages
     ELSE at' = "closing" /\ pages' = pages + 1 /\ UNCHANGED queue

SetReadErrorKeeps(code) ==   \* faulty: keep_alive is left as it is
  /\ IF queue # <<>>
     THEN RefuseWith(code) /\ at' = "serve" /\ UNCHANGED pages
     ELSE /\ at' = "closing"
          /\ pages' = IF ~complete /\ ~header_done' THEN pages + 1 ELSE pages
          /\ UNCHANGED queue
  /\ UNCHANGED keep_alive

SetReadErrorServes(code) ==  \* faulty: an empty queue is served
  /\ keep_alive' = FALSE
  /\ at' = "serve"
  /\ IF queue # <<>> THEN RefuseWith(code) ELSE UNCHANGED queue
  /\ UNCHANGED pages

SetReadError(code) ==
  /\ keep_alive' = FALSE
  /\ IF queue # <<>>
     THEN RefuseWith(code) /\ at' = "serve" /\ UNCHANGED pages
     ELSE /\ at' = "closing"
          /\ pages' = IF ~complete /\ ~header_done' THEN pages + 1 ELSE pages
          /\ UNCHANGED queue

(* parse_http_request, when the buffer is parsed.                           *)
CodeOrBadRequest ==
  IF queue # <<>> /\ Last(queue).code # 0 THEN Last(queue).code ELSE 400

ParseFails ==
  IF upgrade THEN requests[current].kind = "upgrade"
  ELSE current = 0 \/ parser = "error"

Parsed ==
  /\ at = "parsing"
  /\ IF ParseFails
     THEN UNCHANGED header_done /\ SetReadError(CodeOrBadRequest)
     ELSE /\ at' = IF complete THEN "serve" ELSE "idle"
          /\ UNCHANGED <<queue, keep_alive, header_done, pages>>
  /\ UNCHANGED <<is_keep_alive, current, complete, upgrade, parser, requests, answers, stray>>

ReadNothing ==               \* EAGAIN in accept_callback
  /\ at = "accepted"
  /\ at' = "idle"
  /\ UNCHANGED <<is_keep_alive, queue, current, clientVars, parser, historyVars>>

ReadFails(code) ==
  /\ UNCHANGED <<header_done>>
  /\ SetReadError(code)
  /\ UNCHANGED <<is_keep_alive, current, complete, upgrade, parser, requests, answers, stray>>

ReadTimeout == at = "idle" /\ ReadFails(408)
ReadEnd     == Reading /\ ReadFails(503)

ReadReset ==                 \* ECONNRESET, or another error
  /\ Reading
  /\ header_done' \in {header_done, TRUE}
  /\ SetReadError(500)
  /\ UNCHANGED <<is_keep_alive, current, complete, upgrade, parser, requests, answers, stray>>

----------------------------------------------------------------------------
(* check_status_code, prepare_call_wsgi and app_handler.                    *)

ShiftKeepsHead ==            \* faulty: the head stays in the queue
  /\ at = "serve"
  /\ current' = Head(queue).id
  /\ UNCHANGED <<is_keep_alive, queue, complete, upgrade, header_done, parser, requests,
                 stray, pages>>

Shift ==
  /\ at = "serve"
  /\ current' = Head(queue).id
  /\ queue' = Tail(queue)
  /\ UNCHANGED <<is_keep_alive, complete, upgrade, header_done, parser, requests, stray, pages>>

\* send_error_page, which leaves keep_alive alone when there is no page
Page(how, keep) ==
  /\ answers' = Append(answers, [id |-> current', how |-> IF header_done THEN "none" ELSE how])
  /\ keep_alive' = (keep /\ header_done)
  /\ at' = "closing"

\* check_http_expect asks the parser for the version: that of the request
\* begun last or, while its first line is not parsed, of the one before it
Versions ==
  LET n == Len(requests)
  IN  {requests[k].kind = "old" :
         k \in {n} \cup {m \in {n - 1} \ {0} : ~requests[n].done /\ parser # "body"}}

Expects(id, kind)     == requests[id].kind = kind /\ FALSE \in Versions
ExpectsNot(id, kind)  == requests[id].kind # kind \/ TRUE \in Versions

ServeRefused ==
  /\ Shift
  /\ Head(queue).code > 200
  /\ Page("refused", keep_alive)

ServeExpectation ==
  /\ Shift
  /\ Head(queue).code <= 200
  /\ Expects(current', "expect")
  /\ Page("failed", FALSE)

ServeContinueFails ==
  /\ Shift
  /\ Head(queue).code <= 200
  /\ Expects(current', "continue")
  /\ Page("failed", FALSE)

ServeCall ==
  /\ Shift
  /\ Head(queue).code <= 200
  /\ ExpectsNot(current', "expect")
  /\ keep_alive' = (keep_alive /\ is_keep_alive)
  /\ at' = "app"
  /\ UNCHANGED answers

App ==
  /\ at = "app"
  /\ UNCHANGED <<is_keep_alive, queue, current, complete, upgrade, header_done, parser,
                 requests, stray, pages>>

AppAnswers ==
  /\ App
  /\ Answered(IF header_done THEN "none" ELSE "response")
  /\ at' = "closing"
  /\ UNCHANGED keep_alive

AppFails ==                  \* before its headers are sent
  /\ App
  /\ Page("failed", keep_alive)

\* in the middle of its response, or with a response that close_response has
\* marked closed: no page is written and keep_alive stays
AppFailsLate ==
  /\ App /\ ~header_done
  /\ Answered("partial") \/ Answered("silent")
  /\ at' = "closing"
  /\ UNCHANGED keep_alive

AppTimesOut ==               \* trampoline_callback
  /\ App
  /\ keep_alive' = FALSE
  /\ UNCHANGED <<at, answers>>

----------------------------------------------------------------------------
(* close_client: the next request of the queue, or the end of the client.   *)
CloseClientAtOnce ==         \* faulty: the queue is not looked at
  /\ at = "closing"
  /\ current' = 0 /\ header_done' = FALSE /\ queue' = <<>>
  /\ at' = "closed"
  /\ UNCHANGED <<is_keep_alive, complete, upgrade, keep_alive, parser, historyVars>>

CloseClient ==
  /\ at = "closing"
  /\ current' = 0 /\ header_done' = FALSE
  /\ IF queue # <<>>
     THEN at' = "serve" /\ UNCHANGED <<complete, upgrade, keep_alive, parser>>
     ELSE IF keep_alive
     THEN at' = "idle" /\ complete' = TRUE /\ upgrade' = FALSE /\ parser' = "start"
          /\ UNCHANGED keep_alive
     ELSE at' = "closed" /\ UNCHANGED <<complete, upgrade, keep_alive, parser>>
  /\ UNCHANGED <<is_keep_alive, queue, historyVars>>

Serve == ServeRefused \/ ServeExpectation \/ ServeContinueFails \/ ServeCall
AppEnds == AppAnswers \/ AppFails \/ AppFailsLate
Parse == MessageBegin \/ HeadersComplete \/ BodyRefused \/ MessageComplete \/ Junk

Next ==
  \/ Read \/ Parse \/ Parsed
  \/ ReadNothing \/ ReadTimeout \/ ReadEnd \/ ReadReset
  \/ Serve \/ AppEnds \/ AppTimesOut \/ CloseClient

Spec == Init /\ [][Next]_vars

(* The code runs, applications return, and a connection on which nothing    *)
(* is read any more times out.                                              *)
FairSpec ==
  /\ Spec
  /\ WF_vars(Parsed) /\ WF_vars(Serve) /\ WF_vars(AppEnds) /\ WF_vars(CloseClient)
  /\ WF_vars(ReadNothing) /\ SF_vars(ReadTimeout)

----------------------------------------------------------------------------
Places  == {"accepted", "idle", "parsing", "serve", "app", "closing", "closed"}
Codes   == {0, 400, 408, 411, 413, 500, 503}
Hows    == {"response", "failed", "refused", "partial", "silent", "none"}
TypeOK ==
  /\ is_keep_alive \in BOOLEAN /\ at \in Places
  /\ queue \in Seq([id : 1 .. MaxRequests, code : Codes])
  /\ current \in 0 .. MaxRequests
  /\ {complete, keep_alive, upgrade, header_done} \subseteq BOOLEAN
  /\ parser \in {"start", "headers", "body", "dead", "error"}
  /\ requests \in Seq([kind : Kinds, keep : BOOLEAN, done : BOOLEAN])
  /\ answers \in Seq([id : 1 .. MaxRequests, how : Hows]) /\ Len(answers) <= Len(requests)
  /\ stray \subseteq 0 .. MaxRequests /\ pages \in Nat

(* Requests are answered once, in their order, and all of them before the   *)
(* connection is closed: the queue, its head and its tail are kept by the   *)
(* parser's callbacks, by read_callback and by close_client, which serves   *)
(* the next request from inside the previous one (server.c:351-358).        *)
Promise == INSTANCE Pipelining WITH
             asked    <- Len(requests),
             answered <- [k \in DOMAIN answers |-> answers[k].id],
             open     <- at # "closed"
AnswersInOrder == Promise!Spec

(* prepare_call_wsgi takes a request from the queue without a look whether  *)
(* there is one (server.c:956).                                             *)
ServesSomething == at = "serve" => queue # <<>>

(* A request is refused because of what it is, because it did not arrive as *)
(* a whole, or because what came after it was no request: set_read_error    *)
(* marks the last request of the queue, which must be the one that was      *)
(* being read, and those before it are answered (server.c:989-993).         *)
RefusedWithCause ==
  \A k \in DOMAIN answers :
    answers[k].how = "refused" =>
      LET id == answers[k].id
      IN  ~requests[id].done \/ requests[id].kind = "upgrade" \/ id \in stray

(* "keepalive timeout. should not send any data" (server.c:999): a         *)
(* connection on which nothing was read is closed without a page.           *)
IdleIsSilent == [][Reading /\ queue = <<>> => UNCHANGED <<pages, answers>>]_vars

(* A connection is kept only if the server keeps connections, every request *)
(* on it asked for it and no error page was due: keep_alive is set by the   *)
(* last request parsed (http_request_parser.c:711), also while earlier ones *)
(* wait for their answers, and reset in a dozen places.  It says nothing of *)
(* answers that were cut off, see CutOffCloses.                             *)
KeptOnlyIfAsked ==
  at = "idle" /\ answers # <<>> =>
    /\ is_keep_alive
    /\ \A k \in DOMAIN answers : /\ requests[answers[k].id].keep
                                 /\ answers[k].how \notin {"failed", "refused", "none"}


(* Every request that was begun is answered: requests wait in the queue for *)
(* the end of the one being read, and for those before them.                *)
AllAnswered == \A n \in 1 .. MaxRequests : Len(requests) >= n ~> Len(answers) >= n
=============================================================================
