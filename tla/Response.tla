------------------------------ MODULE Response ------------------------------
(***************************************************************************)
(* One response of src/meinheld/server/response.c, and app_handler of      *)
(* server.c around it: status line and headers with the first item of the  *)
(* application's iterator, the other items, as they are, in chunks or as a *)
(* file, and the end of it, on a socket that takes as much as it likes,    *)
(* nothing for now, or no more at all.                                     *)
(*                                                                         *)
(*   "app"      the application runs                                       *)
(*   "start"    the application has returned its response                  *)
(*   "write"    in writev_bucket, called for what ctx says                 *)
(*   "body"     in process_write, before the next item                     *)
(*   "file"     in the loop of process_sendfile                            *)
(*   "hub"      STATUS_SUSPEND: the greenlet waits for the socket          *)
(*   "ok"       STATUS_OK                                                  *)
(*   "error"    STATUS_ERROR, or the application's own                     *)
(*   "closed"   close_client has been called                               *)
(*                                                                         *)
(* A byte is named by what it is a byte of and its place there; headers,   *)
(* the framing of chunks and items are a few bytes long.                   *)
(***************************************************************************)
EXTENDS Integers, Sequences, FiniteSetsExt, SequencesExt

CONSTANTS
  ItemLens,     (* lengths of the items of an iterator                      *)
  MaxItems,     (* bound: how many                                          *)
  FileLens,     (* sizes of the files                                       *)
  HeadLen       (* bytes of the status line and the headers                 *)

ASSUME ResponseAssumption ==
  /\ ItemLens \subseteq Nat /\ FileLens \subseteq Nat
  /\ MaxItems \in Nat /\ HeadLen \in Nat \ {0}

VARIABLES
  job,            (* the request and what the application will answer       *)
  headers,        (* start_response has been called                         *)
  response,       (* client->response is there                              *)
  self_closed,    (* history: it came with response_closed set already      *)
  pc, ctx,
  bucket,         (* the iov of client->bucket: what is left of each part   *)
  total,          (* data->total                                            *)
  total_size,     (* data->total_size                                       *)
  item,           (* how many items the iterator has given                  *)
  sent,           (* where the file is read from                            *)
  write_bytes,
  content_length, (* set when it is not NoLength                            *)
  chunked, header_done, response_closed,
  wire,           (* history: the bytes the socket has taken                *)
  page,           (* history: bytes sent before the error page             *)
  closes,         (* history: calls of the application's close              *)
  headWaited,     (* history: the headers did not go in one piece           *)
  lastLost        (* history: the last chunk did not                        *)

sizeVars == <<item, sent, write_bytes, content_length>>
bucketVars == <<bucket, total, total_size>>
flagVars == <<chunked, header_done>>
appVars == <<headers, response, self_closed>>
closeVars == <<response_closed, closes>>
historyVars == <<page, headWaited, lastLost>>
vars == <<job, appVars, pc, ctx, bucketVars, sizeVars, flagVars, closeVars,
          wire, historyVars>>

NoLength == -1
NoPage   == -1

SizeOf(b) == Len(FlattenSeq(b))

Part(what, i, n) == [k \in 1 .. n |-> <<what, i, k>>]
Header    == Part("header", 0, HeadLen)
Data(i)   == Part("item", i, job.items[i])
AllData(l) == [i \in DOMAIN l |-> Part("item", i, l[i])]
LastChunk == Part("last", 0, 2)

\* set_chunked_data: the size of the chunk, the item, the end of the chunk;
\* of an item of no bytes that is the last chunk
Frame(i, k) == IF job.items[i] = 0 THEN <<<<"last", 0, k>>>> ELSE <<<<"size", i, k>>>>
Chunk(i) == <<Frame(i, 1), Data(i), Frame(i, 2)>>
Framed(i) == IF chunked' THEN Chunk(i) ELSE <<Data(i)>>

(* A list, a generator (which can be closed), or a file that was read up to *)
(* a position; with the length in a header of the application, or not.  The *)
(* application's length stands for a file, also when it is not the file's.  *)
Lists == UNION {[1 .. n -> ItemLens] : n \in 0 .. MaxItems}
ListJobs(l) ==
  [kind : {"iter"}, items : {l}, length : {NoLength, SizeOf(AllData(l))}, position : {0},
   status : {200, 204, 304}, minor : {0, 1}, closable : BOOLEAN]
FileJobs(n) ==
  [kind : {"file"}, items : {<<n>>}, length : {NoLength} \cup 0 .. n + 1, position : {0, n},
   status : {200}, minor : {0, 1}, closable : {TRUE}]
IterJobs == UNION {ListJobs(l) : l \in Lists}
SendJobs == UNION {FileJobs(n) : n \in FileLens}
Jobs == IterJobs \cup SendJobs

IsNoBody == job.status # 200

Init ==
  /\ job \in Jobs
  /\ pc = "app" /\ ctx = "head" /\ headers = FALSE /\ response = FALSE
  /\ self_closed = FALSE
  /\ bucket = <<>> /\ total = 0 /\ total_size = 0
  /\ item = 0 /\ sent = job.position /\ write_bytes = 0 /\ content_length = NoLength
  /\ chunked = FALSE /\ header_done = FALSE
  /\ response_closed = FALSE /\ closes = 0
  /\ wire = <<>> /\ page = NoPage /\ headWaited = FALSE /\ lastLost = FALSE

----------------------------------------------------------------------------
(* writev_bucket.                                                           *)

Send(for, b) ==
  /\ pc' = "write" /\ ctx' = for
  /\ bucket' = b /\ total' = SizeOf(b) /\ total_size' = SizeOf(b)

\* the part of the iov in which w bytes end, and how far into it
PartOf(w)  == CHOOSE i \in DOMAIN bucket :
                /\ SizeOf(SubSeq(bucket, 1, i)) >= w
                /\ SizeOf(SubSeq(bucket, 1, i - 1)) < w
RestOf(w)  == w - SizeOf(SubSeq(bucket, 1, PartOf(w) - 1))

AdvancedKeepsParts(w) ==     \* faulty: parts already written keep their length
  [bucket EXCEPT ![PartOf(w)] = SubSeq(@, RestOf(w) + 1, Len(@))]

Advanced(w) ==
  [i \in DOMAIN bucket |->
     IF i < PartOf(w) THEN <<>>
     ELSE IF i = PartOf(w) THEN SubSeq(bucket[i], RestOf(w) + 1, Len(bucket[i]))
     ELSE bucket[i]]

Writing == pc = "write" /\ UNCHANGED <<job, appVars, page>>

\* what was promised is sent: back to the caller of writev_bucket
After == CASE job.kind = "file" -> "file"
           [] job.kind = "iter" /\ job.status = 304 -> "ok"
           [] OTHER -> "body"

SentHeadUnmarked ==          \* faulty: header_done is not set
  /\ ctx = "head"
  /\ write_bytes' = write_bytes + (IF item > 0 THEN job.items[1] ELSE 0)
  /\ pc' = After
  /\ UNCHANGED <<header_done, content_length>>

SentHead ==
  /\ ctx = "head"
  /\ header_done' = TRUE
  /\ write_bytes' = write_bytes + (IF item > 0 THEN job.items[1] ELSE 0)
  /\ pc' = After
  /\ UNCHANGED content_length

SentItem ==
  /\ ctx = "item"
  /\ write_bytes' = write_bytes + job.items[item]
  /\ pc' = IF content_length # NoLength /\ content_length <= write_bytes'
           THEN "last" ELSE "body"
  /\ UNCHANGED <<header_done, content_length>>

\* process_body: the bucket that had to wait; its framing is counted as well
SentLate ==
  /\ ctx = "late"
  /\ write_bytes' = write_bytes + total_size
  /\ pc' = After
  /\ UNCHANGED <<header_done, content_length>>

SentLast ==
  /\ ctx = "last"
  /\ pc' = "close"
  /\ UNCHANGED <<header_done, write_bytes, content_length>>

Written ==
  /\ bucket' = <<>> /\ total' = 0 /\ total_size' = 0
  /\ SentHead \/ SentItem \/ SentLate \/ SentLast
  /\ UNCHANGED <<ctx, item, sent, chunked, closeVars, headWaited, lastLost>>

\* the socket takes w bytes; total is not lessened by those of the parts
\* before the last one, which the writev of nothing below makes up for
Write(w) ==
  /\ Writing
  /\ w \in 1 .. SizeOf(bucket)
  /\ wire' = wire \o SubSeq(FlattenSeq(bucket), 1, w)
  /\ IF total > w
     THEN /\ bucket' = Advanced(w) /\ total' = total - RestOf(w)
          /\ UNCHANGED <<pc, ctx, total_size, sizeVars, flagVars, closeVars,
                         headWaited, lastLost>>
     ELSE Written

NothingIsLater ==            \* faulty: a writev of nothing is tried again
  Writing /\ SizeOf(bucket) = 0 /\ UNCHANGED vars

WriteNothing ==
  /\ Writing
  /\ SizeOf(bucket) = 0
  /\ Written
  /\ UNCHANGED wire

WriteAgain ==
  /\ Writing
  /\ SizeOf(bucket) > 0
  /\ IF ctx = "last"
     THEN pc' = "close" /\ lastLost' = TRUE /\ bucket' = <<>> /\ UNCHANGED headWaited
     ELSE /\ pc' = "hub"
          /\ headWaited' = (headWaited \/ ctx = "head")
          /\ UNCHANGED <<bucket, lastLost>>
  /\ UNCHANGED <<ctx, total, total_size, sizeVars, flagVars, closeVars, wire>>

WriteFails ==
  /\ Writing
  /\ SizeOf(bucket) > 0
  /\ bucket' = <<>>
  /\ IF ctx = "last" THEN pc' = "close" /\ lastLost' = TRUE
                     ELSE pc' = "error" /\ UNCHANGED lastLost
  /\ header_done' = (header_done \/ ctx = "head")
  /\ UNCHANGED <<ctx, total, total_size, sizeVars, chunked, closeVars, headWaited,
                 wire>>

----------------------------------------------------------------------------
(* response_start, process_body and close_response.                         *)

\* a second call of start_response raises
StartResponse ==
  /\ pc = "app" /\ ~headers
  /\ headers' = TRUE
  /\ UNCHANGED <<job, response, self_closed, pc, ctx, bucketVars, sizeVars, flagVars,
                 closeVars, wire, historyVars>>

\* client.set_closed: the application has answered on the socket itself
SetClosed(closed) ==
  /\ pc = "app"
  /\ response_closed' = closed
  /\ UNCHANGED <<job, appVars, pc, ctx, bucketVars, sizeVars, flagVars, closes, wire,
                 historyVars>>

\* app_handler closes the client at once when it finds response_closed
AppReturns ==
  /\ pc = "app"
  /\ response' = TRUE /\ self_closed' = response_closed
  /\ pc' = IF response_closed THEN "closed" ELSE "start"
  /\ UNCHANGED <<job, headers, ctx, bucketVars, sizeVars, flagVars, closeVars, wire,
                 historyVars>>

AppRaises ==
  /\ pc = "app"
  /\ pc' = "error"
  /\ UNCHANGED <<job, appVars, ctx, bucketVars, sizeVars, flagVars, closeVars, wire,
                 historyVars>>

\* write_headers: no headers is an error; a first item and no length are
\* chunked for a client of HTTP/1.1
Start ==
  /\ pc = "start"
  /\ IF ~headers
     THEN pc' = "error" /\ UNCHANGED <<ctx, bucketVars, sizeVars, chunked>>
     ELSE LET first == job.kind = "iter" /\ job.status # 304 /\ job.items # <<>>
          IN  /\ item' = IF first THEN 1 ELSE 0
              /\ content_length' = IF job.kind = "file" /\ job.length = NoLength
                                  THEN job.items[1] ELSE job.length
              /\ chunked' = (/\ first /\ ~IsNoBody /\ job.minor = 1
                             /\ job.length = NoLength)
              /\ Send("head", <<Header>> \o (IF first THEN Framed(1) ELSE <<>>))
              /\ UNCHANGED <<sent, write_bytes>>
  /\ UNCHANGED <<job, appVars, header_done, closeVars, wire, historyVars>>

NextItem ==
  /\ pc = "body"
  /\ item < Len(job.items)
  /\ item' = item + 1
  /\ UNCHANGED chunked
  /\ Send("item", Framed(item + 1))
  /\ UNCHANGED <<job, appVars, sent, write_bytes, content_length, header_done,
                 closeVars, wire, historyVars>>

\* the iterator raises, or gives what is not bytes
ItemFails ==
  /\ pc = "body" \/ (pc = "start" /\ job.kind = "iter" /\ job.status # 304)
  /\ pc' = "error"
  /\ UNCHANGED <<job, appVars, ctx, bucketVars, sizeVars, flagVars, closeVars, wire,
                 historyVars>>

\* the iterator is exhausted, or the content length reached
NoMoreItems ==
  /\ pc = "last" \/ (pc = "body" /\ item = Len(job.items))
  /\ IF chunked THEN Send("last", <<LastChunk>>)
     ELSE pc' = "close" /\ UNCHANGED <<ctx, bucketVars>>
  /\ UNCHANGED <<job, appVars, sizeVars, flagVars, closeVars, wire, historyVars>>

\* sendfile goes on from the position of the file, as far as the file goes;
\* it is asked for the whole length each time, not for what is left of it
SendFile(n) ==
  /\ pc = "file" /\ content_length > write_bytes
  /\ n \in 1 .. content_length
  /\ sent + n <= job.items[1]
  /\ sent' = sent + n /\ write_bytes' = write_bytes + n
  /\ wire' = wire \o SubSeq(Data(1), sent + 1, sent + n)
  /\ UNCHANGED <<job, appVars, pc, ctx, bucketVars, item, content_length, flagVars,
                 closeVars, historyVars>>

SendFileAgain(where) ==
  /\ pc = "file" /\ content_length > write_bytes /\ sent < job.items[1]
  /\ pc' = where                           \* "hub", or "error" for good
  /\ UNCHANGED <<job, appVars, ctx, bucketVars, sizeVars, flagVars, closeVars, wire,
                 historyVars>>

\* at the end of the file sendfile gives 0, and the loop goes on
FileEnds ==
  /\ pc = "file" /\ content_length > write_bytes /\ sent = job.items[1]
  /\ UNCHANGED vars

FileSent ==
  /\ pc = "file" /\ content_length <= write_bytes
  /\ pc' = "close"
  /\ UNCHANGED <<job, appVars, ctx, bucketVars, sizeVars, flagVars, closeVars, wire,
                 historyVars>>

WokenWithoutBucket ==        \* faulty: what was left of the bucket is dropped
  /\ pc = "hub"
  /\ pc' = After
  /\ bucket' = <<>> /\ total' = 0 /\ total_size' = 0 /\ UNCHANGED ctx
  /\ UNCHANGED <<job, appVars, sizeVars, flagVars, closeVars, wire, historyVars>>

Woken ==
  /\ pc = "hub"
  /\ IF bucket # <<>> THEN pc' = "write" /\ ctx' = "late"
     ELSE pc' = "file" /\ UNCHANGED ctx
  /\ UNCHANGED <<job, appVars, bucketVars, sizeVars, flagVars, closeVars, wire,
                 historyVars>>

HasClose == response /\ job.closable

CloseAgain ==                \* faulty: response_closed is not set
  /\ closes' = IF HasClose /\ ~response_closed THEN closes + 1 ELSE closes
  /\ UNCHANGED response_closed

\* close_response: only a response that has a close method is marked
CloseResponse ==
  /\ closes' = IF HasClose /\ ~response_closed THEN closes + 1 ELSE closes
  /\ response_closed' = (response_closed \/ HasClose)

Close(raises) ==
  /\ pc = "close"
  /\ CloseResponse
  /\ raises => job.kind = "iter" /\ closes' # closes
  /\ pc' = IF raises THEN "error" ELSE "ok"
  /\ UNCHANGED <<job, appVars, ctx, bucketVars, sizeVars, flagVars, wire, historyVars>>

----------------------------------------------------------------------------
(* app_handler: close_response once more, then close_client.                *)

Finish ==
  /\ pc = "ok"
  /\ CloseResponse
  /\ pc' = "closed"
  /\ UNCHANGED <<job, appVars, ctx, bucketVars, sizeVars, flagVars, wire, historyVars>>

\* send_error_page writes nothing once the response has begun
ErrorPage ==
  /\ pc = "error"
  /\ closes' = IF HasClose /\ ~response_closed THEN closes + 1 ELSE closes
  /\ LET quiet == header_done \/ response_closed \/ HasClose
     IN  /\ page' = IF quiet THEN page ELSE Len(wire)
         /\ header_done' = (header_done \/ ~quiet)
         /\ response_closed' = (response_closed \/ HasClose \/ ~quiet)
  /\ pc' = "closed"
  /\ UNCHANGED <<job, appVars, ctx, bucketVars, sizeVars, chunked, wire, headWaited,
                 lastLost>>

Taken ==
  \/ \E w \in 1 .. SizeOf(bucket) : Write(w)
  \/ \E n \in 1 .. content_length : SendFile(n)

Steps ==
  \/ AppReturns \/ Start \/ NextItem \/ NoMoreItems \/ FileSent \/ WriteNothing
  \/ Woken \/ Finish \/ ErrorPage
  \/ \E raises \in BOOLEAN : Close(raises)

Next ==
  \/ Steps \/ Taken
  \/ StartResponse \/ (\E closed \in BOOLEAN : SetClosed(closed)) \/ AppRaises
  \/ WriteAgain \/ WriteFails \/ ItemFails
  \/ SendFileAgain("hub") \/ SendFileAgain("error")
  \/ FileEnds

Spec == Init /\ [][Next]_vars

\* the socket takes something again and again
FairSpec == Spec /\ WF_vars(Steps) /\ SF_vars(Taken)

----------------------------------------------------------------------------
TypeOK ==
  /\ job \in Jobs
  /\ pc \in {"app", "start", "write", "body", "last", "file", "hub", "close", "ok",
             "error", "closed"}
  /\ ctx \in {"head", "item", "late", "last"}
  /\ total \in Nat /\ total_size \in Nat /\ item \in 0 .. Len(job.items)
  /\ sent \in Nat /\ write_bytes \in Nat /\ content_length \in Nat \cup {NoLength}
  /\ {headers, response, chunked, header_done, response_closed} \subseteq BOOLEAN
  /\ {self_closed, headWaited, lastLost} \subseteq BOOLEAN
  /\ closes \in Nat

(* What a response is: its headers, its items in order, each framed if the  *)
(* response is chunked, and then the last chunk.                            *)
Promised ==
  LET body == IF job.kind = "file" THEN Data(1)
              ELSE FlattenSeq([i \in DOMAIN job.items |->
                                 IF chunked THEN FlattenSeq(Chunk(i)) ELSE Data(i)])
  IN  IF job.status = 304 THEN Header
      ELSE Header \o body \o (IF chunked THEN LastChunk ELSE <<>>)

(* However the socket cuts the writes, every byte is sent once, in its      *)
(* place: writev_bucket and process_sendfile keep track of what is left     *)
(* (response.c:281-333, 760-800).                                           *)
InOrder == wire # <<>> => IsPrefix(wire, Promised)

\* the order, and the types of what keeps it (response.c:281-333)
OrderInv == TypeOK /\ InOrder

(* As many bytes of a file are promised as content_length says.  More may   *)
(* come, for sendfile is asked for all of them each time.                   *)
Complete == IF job.kind = "file"
            THEN IsPrefix(Header \o Part("item", 1, content_length), wire)
            ELSE wire = Promised

(* A response that app_handler takes for sent is complete.  Two things can  *)
(* happen to it that the code does not see: headers that had to wait are    *)
(* counted as body (response.c:905), and nobody looks whether the last      *)
(* chunk was written (response.c:889).                                      *)
CompleteWhenOk ==
  pc = "ok" => \/ Complete
               \/ headWaited /\ content_length # NoLength
               \/ lastLost

(* "all send", process_sendfile says where it closes the response           *)
(* (response.c:797), and "all done" process_write (:858): it is not so when *)
(* the headers had to wait, for they are then counted as body.              *)
AllSent == pc = "ok" /\ ~chunked => Complete

(* The error page comes instead of a response, never in the middle of one,  *)
(* for header_done tells; it does not when the headers had to wait.         *)
PageComesFirst == page # NoPage => page = 0 \/ headWaited

(* The application's close is called once, whatever way the response ends   *)
(* (close_response is called by process_write, app_handler and close_client)*)
(* and never of an application that has called client.set_closed(1), as     *)
(* WebSocketMiddleware does: server.c:525-529 takes its response for closed *)
(* (the application's close is then not called at all).                     *)
ClosedOnce ==
  /\ closes <= 1
  /\ pc = "closed" => closes = IF HasClose /\ ~self_closed THEN 1 ELSE 0

(* Every response ends if the socket takes what it is given: no bucket and  *)
(* no file is forgotten while the greenlet waits.  A file that was read     *)
(* before it is returned, or is shorter than the application's length, is   *)
(* never finished (response.c:779).                                         *)
ResponseEnds ==
  (job.position = 0 /\ (job.kind = "file" => job.length <= job.items[1]))
    => <>(pc = "closed")

=============================================================================
