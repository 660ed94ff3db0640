# A model of meinheld

TLA+ modules, TLC configurations and TLAPS proofs for meinheld, a WSGI server in C
(`src/meinheld/server/`) with greenlets for requests that wait. The reference is the
source; `PROJECT.json` names the lines every definition stands for.

## The system

One process, one thread, one event loop. Code of the application runs only inside a
callback of the server, and in greenlets that switch back to the loop ("the hub") when
they wait. There is no parallelism, but a great deal of re-entrance: a callback may add,
delete and re-arm the registrations the loop is in the middle of walking, may stop the
server inside the loop that is accepting connections, and may leave the greenlet of one
request to be woken by the callback of another.

| component | state it keeps | operations | what must hold |
| --- | --- | --- | --- |
| event loop (`picoev.h`, `picoev_epoll.c`) | table of descriptors, timeout wheel with two levels of bit words, `now`, the kernel's epoll entries | add, del, set_timeout, loop_once | table and wheel agree; no timeout lost, late or early by `loop->now`; every registration is watched |
| main loop (`server.c` 395-452, 1425-1432, 1503-1786, 1878-1907, 2250-2331, `timer.c`) | `activecnt`, `loop_done`, `catch_signal`, pending calls, timers, listening sockets, the watchdogs | run, stop, signal, schedule_call, cancel, accept, watch | the loop ends when, and only when, nothing is left or the shutdown timeout is over; scheduled calls are made |
| continuation (`server.c` 490-775, 1935-2182) | per client object: greenlet, `suspended`, arguments; the registration that will wake it | suspend, resume, trampoline, cancel_wait, the five callbacks | a waiting request has one registration, a running one none; a resumed request runs |
| connection (`server.c` 200-384, 454-481, 953-1228, `request.c`, `client.c`) | client, request queue, keep-alive | read, parse, queue, answer, close | pipelined requests are answered once and in order; every descriptor is closed once |
| parser callbacks (`http_request_parser.c`) | the request being parsed: target, header lines, limits, body | url, header field and value, headers complete, body, message complete | the request the application sees is the one that was sent, wherever the reads cut it; what is too long is refused |
| response (`response.c`) | headers sent, bytes written, chunked, file, whether it is closed | start, process_body, close, set_closed | every byte once and in order, whatever the socket takes; the application's iterator is closed once |
| timer heap (`heapq.c`) | array of timers that doubles | heappush, heappop | the timer due first comes out, each timer once, none is lost |
| input, buffer (`input.c`, `buffer.c`) | body, position | write2buf, read, readline, readlines, iteration | no buffer overruns; the input reads like a file that holds the body |
| WebSocket (`websocket.py`) | frames, handshake state | wait, send, close | an application protocol above `trampoline`; not modelled, apart from its `client.set_closed(1)` (`SetClosed` of `Response`) |
| time cache (`time_cache.c`) | `current_msec` | cache_time_update | the clock everything else sees |

How they interact: the main loop calls `picoev_loop_once`; picoev calls back
`accept_callback`, `read_callback`, `trampoline_callback`, `timeout_callback`,
`timeout_error_callback`, `write_callback` and `kill_callback`; these call back into picoev, run the
application (directly for scheduled calls, in a greenlet for requests) and count `activecnt`,
which is what the main loop tests. Nothing but `activecnt` tells the loop that work is left,
and nothing checks it.

What is hard here, and what a test hardly reaches, is listed with its lines under
`hazards` in `PROJECT.json`.

## The modules

| module | models |
| --- | --- |
| `PicoevOps` | the data structure of the event loop as operators on a record: table, wheel, kernel entries |
| `Picoev` | the event loop as a state machine: any sequence of calls by the code it runs, the delivery of a batch, the timeout scan step by step |
| `PicoevOpsProofs` | lemmas about the operators of `PicoevOps`, for the proofs of both modules that use them |
| `PicoevProofs` | theorems about `Picoev`, proved with TLAPS |
| `TimerQueue` | what the main loop expects of its timers: a set with a minimum |
| `HeapQ` | the array of `heapq.c`, one action for each turn of the loops of `_siftup` and `_siftdown`; it implements `TimerQueue` |
| `HeapQProofs` | theorems about `HeapQ`, among them that it implements `TimerQueue`, proved with TLAPS |
| `MainLoop` | `meinheld_run_loop` over several runs, stop and signals, pending calls and timers, accepting, shutdown |
| `MainLoopProofs` | theorems about `MainLoop`, proved with TLAPS |
| `Continuation` | requests that wait: composes the event loop of `Picoev` (its `Poll` and `Scan` are steps of this module) with the callbacks of `server.c` and an application that calls suspend, resume, trampoline and cancel_wait |
| `ContinuationProofs` | theorems about `Continuation`, proved with TLAPS |
| `Response` | one response: what is written, how the writes may be cut, wait or fail, and how it ends |
| `ResponseProofs` | theorems about `Response`, proved with TLAPS |
| `Connection` | one connection: its reads, the queue of pipelined requests, error pages, the call of the application, close and keep-alive |
| `Pipelining` | what a connection promises, in three actions; `Connection` implements it |
| `ConnectionProofs` | theorems about `Connection`, among them that it implements `Pipelining`, and on why a connection refuses, is silent or is kept, proved with TLAPS |
| `RequestText` | operators on texts: the growing buffer, the decoding of a target, header keys, lines |
| `RequestData` | what one request becomes, from the pieces the tokenizer hands on to the input the application reads |
| `RequestDataProofs` | theorems about `RequestData`, proved with TLAPS |
| `MCPicoev`, `MCMainLoop`, `MCContinuation`, `MCResponse`, `MCConnection`, `MCHeapQ`, `MCRequestData` | values of the constants for TLC |

### PicoevOps and Picoev

`loop` is the record `picoev_loop` together with the global table and, as `watched`, the epoll
entries of the kernel. `vec[s]` is the set of descriptors whose bit is set in slot `s`,
`vov[s]` the set of words marked in `vec_of_vec`. The scan is not atomic: `groups`, `vv` and
`bits` are the words of `picoev_handle_timeout_internal` that are copies, taken by `EnterGroup`
and `EnterWord`, and `Fire` calls back one descriptor of the copy while the original changes.
Bits are taken lowest descriptor first; the code's `short` words are shifted from the
other end, and the order inside one slot matters to no property.

Time is in seconds, as the code has it after its division by 1000. `clock` is the wall clock,
`cached` is `current_msec`, `loop.now` is set when a poll has delivered. `SlowCallbacks` lets a callback
take a second that neither `cached` nor `now` knows of; `StepBack` lets the wall clock be set
back; `Interrupts` lets `epoll_wait` fail with EINTR, in which case `picoev_loop_once` returns
before it looks at timeouts.

`KernelExclusive` is the kernel's reaction to `EPOLLEXCLUSIVE`, which the backend passes
with every ADD: kernels from 4.5 on refuse to modify such an entry. `RegisteredHasEntry` is what holds on
every kernel, `KernelWatchesRegistered` what the comment at `picoev_epoll.c:45` expects of all of them (run `exclusive`).

Callers keep the assertions of `picoev.h` (`Add` on an inactive descriptor, `Del` and
`SetTimeout` on an active one). `CrossFd = FALSE` confines timeout callbacks to their own
descriptor, and the properties of the wheel are stated of such callers only. `server.c` is not one in every case:
`cancel_wait` (line 2079) from a greenlet that timed out deletes another descriptor, whose bit then stays in the scan's copy,
and `resume_client` (line 2053) adds a descriptor that is active. The run `stale` shows what comes of it, and
`MainLoop` and `Continuation` do not rest on the assumption.

### MainLoop

One action per statement of the loop that changes state, `phase` the program counter between them. Code of the
application takes time (`TakeTime`) wherever it runs, which `now` does not know of and `cached` only when the access
log of a request is written or a request is read (`LogAccess`, `Accept`). Any signal interrupts a poll, not only one
the loop looks at (`PollInterrupted`). Once a second the loop looks at its watchdog: `fast_notify` stops the server
when the parent process has changed (`ParentGone`), a Python watchdog is application code like any other. A client is
a descriptor with a registration that `activecnt` counts; what its callbacks do otherwise is not this module's
subject. Timeouts are abstract here: `killAt` fires in the first scan whose `now` exceeds it, which is what `Picoev`
shows of a timeout (`SlotTellsDue`, `NoneOverdue`), and a client's may come at any scan. `g_timers` is a set from
which any timer with the least `seconds` is taken: the heap of `heapq.c` gives the least, and which one of several
with the same second depends on its layout (`HeapQ` shows both).

`CountInv` is the type invariant, in its four parts (`LoopTypes`, `CountTypes`, `TimerTypes`, `WatchTypes`), with `CountAgrees`.

Three history variables name where the code does not keep what one would expect, so that the properties can say exactly
what is left:

- `lost` is what ended runs left in `activecnt`. `picoev_destroy_loop` forgets
  registrations, nothing resets `activecnt`, so a forced shutdown with clients open leaves their number in
  it for the next run.
- `doubled` is what was counted off twice. `kill_server` counts every listening socket off, also those that an earlier
  stop or signal has counted off already, because `picoev_del` is 0 for a descriptor that is not registered
  (`server.c:406`). The same happens to a client whose timeout is about to be called back when another callback
  cancels it. So a second stop ends a graceful shutdown early, by as many requests as there are sockets, and one that
  comes late in a run can end the next run at once: `GracefulExit` and `ServesUntilStopped` are stated with `doubled`.
- `moved` says that a stop made by a request which `accept_callback` serves was followed by another accept in the same
  callback. `read_request` is then called with the listening socket (`server.c:1200`) and moves its shutdown timeout to the 30
  seconds of a read (`server.c:1103`). `DeadlineKept` excepts that.

The calls that applications schedule are early by the time that the code before them took: their due time is computed
from the cached clock (`timer.c:23`), and before the first run from one that is 0, so that such a call is made at
once. No property is about that, as neither a doc nor a test promises more than that the calls are made.

### HeapQ and TimerQueue

`heap`, `size` and `max` are the fields of `heapq_t`, index 0 first, and the array has as many places as `max` says.
`pc` is `"up"` or `"down"` while `_siftup` or `_siftdown` runs; then the array has a hole at `pos`, and `newitem` is the
timer that the function holds in a local variable. `heappop` of more than one timer puts the last one into the hole
at the root, lets the hole sink to a leaf along the smaller children and the timer rise from there, as the code does.
`realloc` doubles the array or fails (`fails`), and then the timer is not in it and nothing else has changed.
The queue that `TimerQueue` sees is `Contents`: what is in the array apart from the hole, and `newitem`. So `heappop` takes
its timer in the first step of the operation, and the sift that follows stutters.

### RequestData and RequestText

A message is a target, header lines, and a body with a declared length or in chunks. The tokenizer passes it on in
pieces: `at` and `done` say which part of the message it is in and how much of that it has passed on, `Cut` which pieces
can come. A read may end anywhere; the next one then goes on with the rest, and the piece that ends a part may be
empty. A line without a colon is a name without values, a folded line has several values. The actions
have the names of the callbacks. `header_field_cb` is taken apart by `last_header_element`: `MoreName` is its branch for
another piece of the same name, which is also where the line after one without a colon goes.

`path`, `field`, `value`, `body` and `input` are the fields of `request` and `InputObject`, and a buffer is its text with the
size and the limit of `buffer.c`. `write2buf` keeps the code's order: the size grows first, by doubling, capped one
byte above the limit; then what does not fit is cut off and reported. `set_path`, `set_query` and `urldecode` are recursive
functions over the target; characters are signed where the code's are.

The application may call `read`, `readline`, `readlines` and iterate, in any order and with any size. A body in a temporary
file is Python's to read; `set_input_file` rewinds it.

The second half of the module defines what the properties compare with, from the message alone and not step by step:
`Verdict`, `HeadersOf`, `PathOf`, `QueryOf`, `Decoded`, `FileAnswer`. Where the code is stranger than a standard, these
say what it does: lines without a colon join the next line (`Starts`, `Stop`), and `FieldLimit + 1` fields are taken, since a
field is counted when the next one begins.

`Connection` has the order in which such requests are read, refused and answered, and this module the data of one of them;
the two agree on the points where a callback refuses.

### Continuation

A request is named by the descriptor of its connection, which `accept` may return again after it was closed. `at[r]`
says where it is; `loop.cb[fd]` is the pair of handler and request that the descriptor was registered with. Picoev's
`Deliver` and `Fire` set `running`, a callback of this module takes it from there, and `Switch` gives the control
back. `abandoned` is a history: the requests whose registration another request replaced (two trampolines on one
descriptor) or cancelled (`cancel_wait`, on any descriptor but the listening sockets: waiting for one of those, or
cancelling it, would be the application's mistake); they stay at the hub until something resumes them, and their
connection is not read any more if it was being read, which the code does nothing about.

The module is the program built with `NDEBUG`, as Python's flags build it: a call that breaks an assertion
of `picoev.h` goes on. It ends at the first timeout that is called back for a bit of the wheel that
the registration did not set (`stale`), since that callback may work on freed memory. That is why
deadlock is not checked there. In `MainLoop` it is not because the program stops after its last run.

### Response

The bytes of a response have names instead of values: the third byte of the second item is one of them. `wire`
is the history of what the socket took, and the properties compare it with `Promised`. `bucket` is the iov of a
`write_bucket` without its bases: what is left of each part. `ctx` is who called `writev_bucket`: `write_headers`,
`process_write` for an item or for the last chunk, or `process_body` for the bucket that had to wait
(`"late"`). The greenlet that waits is woken at any time, since `app_handler` does not distinguish the socket
from the timeout.

`headWaited` and `lastLost` are histories of the two faults the code has there (`response.c:905` and `:889`);
the properties of `stream` say what holds without them, `truncated` shows the first. An item of no bytes in a
chunked response has the bytes of the last chunk as its frame (`Frame`), as the code writes it.

A file may come with a Content-Length of the application, which the code believes (`response.c:645`). `sendfile` is
asked for that many bytes each time, not for those left: a length below the file's may be exceeded after a first short
write, and the wire is then held against the file (`Promised`). A length beyond the file's end, like a file whose
position is not its start, leaves the loop of `process_sendfile` running for ever (`FileEnds`), and `ResponseEnds` is
not stated of them.

`client.set_closed(1)`, which the WebSocket middleware calls behind every request it upgraded, makes `app_handler`
close the client as soon as the application returns (`SetClosed`, `AppReturns`): nothing is written, and the `close`
of what the application returned is never called. `ClosedOnce` says so.

Not there: the lifetime of an item that is released while its bucket waits (`response.c:980`), and
failures of allocation.

### Connection and Pipelining

`at` says which function has the connection; between `"parsing"` and `"serve"` the callbacks of
`http_request_parser.c` run once for each event of the tokenizer, so that a read may end anywhere in a request and
hold any number of them. A request has a kind, which is what the code looks at to refuse it, and says
whether it wants the connection kept. `parser` is the little that the callbacks see of the tokenizer's state; after a
request that closes the connection it takes no more (`"dead"`, the tokenizer is built strict).

`SetReadError` is the centre: it is reached from a timeout, the end of the stream, an error of the socket, a refusal
by a callback and bytes that are no request, and refuses the last request of the queue, whatever happened to those
before it. `CloseClient` serves the next request or starts the connection over; in the code it does so by
calling, from inside the end of one request, the functions that serve the next, and the model unrolls that into steps.

`answers` and `requests` are histories, `stray` remembers which request was followed by junk in the same read: the code
refuses such a request with 400 although it was complete. `Pipelining` sees the number of requests, the requests
answered and whether the connection is open.

An answer is `"partial"` if the response was cut off, `"silent"` if the application failed before its first byte but
`close_response` had already marked the response closed, `"none"` if the peer reset the connection. The code goes on
with the next request of the queue after any of them.

The version and the keep-alive flag that the code consults while it answers one request are those of the request
parsed last; both are in the model (`Versions`, which has two of them while the first line of the last request is being read, and
`HeadersComplete`).

## The runs

| run | configuration | what it asks |
| --- | --- | --- |
| `wheel` | three descriptors in two words of a wheel of 3 slots, slow callbacks, interrupted polls, a clock that may step back, a kernel that honours EPOLLEXCLUSIVE | do table and wheel agree after any interleaving of calls, polls and scans; is each timeout in the slot its due time says; does the scan see all that are due, only registrations that are there, and none early; does it end although its callbacks re-arm; has every registration an entry in the kernel |
| `exclusive` | two descriptors and two kinds of events on such a kernel | violation: a descriptor registered anew is watched for its old events |
| `safety` | two runs, two stops or signals at any moment, the fast watchdog, a timer and two clients | is `activecnt` the work left; does the loop end exactly when it should; does it serve until it is told to stop; is the shutdown timeout kept |
| `progress` | one run with fairness, two stops, a Python watchdog, two timers and a client | is every scheduled call made; does every stop end the loop |
| `waits` | two requests, each waiting on either's descriptor | does each waiting request have exactly one registration, and does `activecnt` count them; does a resumed request run again |
| `stale` | two requests | violation: the timeout of a suspend outlives resume and the connection |
| `stream` | lists of up to three items of 0 to 2 bytes, and files, with a length or without, with and without `set_closed` | is a response sent in order, complete when it is taken for sent, closed once, and does it end; is no error page written into it |
| `truncated` | the same | violation: a response whose headers had to wait ends too early |
| `heap` | six timers, three due times, an array of two that doubles or fails to | is the array a heap between operations; does each heappop give a timer that is due first, and no timer get lost |
| `request` | three families of messages: targets, heads and bodies, cut anywhere | does what the application sees follow from the message alone; is every limit kept, no buffer full to its last byte; does the input read like a file |
| `pipeline` | three requests of eight kinds, read in any pieces, with junk, timeouts and failures anywhere | are they answered once and in order, and all of them; is each refusal deserved; is an idle connection closed in silence and kept only when all agreed |
| `cutoff` | two requests of the same kinds | violation: a connection whose response broke off goes on |

A run with the word violation checks one property that an assertion, a comment or a test of the
repository states, and TLC finds the code breaking it; `findings` in `PROJECT.json` has the lines.

`CountInv` (of `MainLoop` and of `Continuation`) and `OrderInv` join the types of the variables with the property that is
meant. `WordsMarked` of `Picoev` and `NoneTwice` of `HeapQ` are in no configuration; they are proved.

Each property of a passing run has a mutant: an operator marked "faulty" next to a definition, which
stands for a plausible bug of that code and which the property notices.

Known and not shown by a run of its own, among the steps of the loop: what `doubled` and `moved` stand for (under
MainLoop, above), the early scheduled calls, and the two faults of files with a Content-Length (under Response). They
are in the model, and the properties say what holds in spite of them. `set_read_error` refuses a complete request that
one byte too many follows (`stray` of `Connection`).

And in the data of a request. The path is decoded twice: `%2541` becomes `A` (`set_path` decodes, and then calls
`urldecode`), which is why `PathAndQuery` leaves out paths that escape a percent sign. One header field more
than the limit is taken, and lines without a colon are glued to the name that follows. Any method that the
switch of `headers_complete_cb` does not name becomes GET. Header lines after a chunked body reach `add_header` with no
field (`http_request_parser.c:488`). When a text is refused for its size, `concat_string` has already released the old
string (`http_request_parser.c:251`) while the request still points to it. `schedule_call` takes the seconds as
a `long` and passes them on as an `int` (`server.c:2322`).

### Bounds

- `Fds`: the descriptors 0, 1 and 4 with `ShortBits = 2`: two share a word, and the third has a word whose mark
  is in another word of the upper level. Two suffice for the kernel's entries.
- `VecSize` (128 in the code) of 3 slots (4 in `stale`): timeouts longer than the wheel, the wrap around and the cap
  all happen with the seconds chosen; the code uses the size only in the modulo and the cap. The proofs
  hold for any size.
- `MaxClock`: once around the wheel or further, so that a bit left behind is found again.
- `MaxOps`: calls made by one callback; one or two, since the callbacks of one batch add up.
- `MaxStops`, `MaxRuns`: a second of each is what the code does not expect. `MaxStops` counts stops, signals, failed
  accepts and the loss of the parent together. `progress` has one run, since a run that ended cannot keep a call or a
  stop from its end.
- `Ticks` lets the clock pass `MaxClock` as long as a shutdown timeout is not reached, so that no deadline is kept by the bound.
- `AcceptMax` (8): two, one connection and another after it.
- In `Continuation`, `SuspendSecs` and `AgainSecs` (3 and 30), `KeepSecs` and `ReadSecs` (5 or 2, and 30)
  keep their order only. The run has no descriptor apart from the two connections, of which each request may wait for
  both; with a third the liveness property is out of reach, and the theorems cover any number.
- `HeapQ`: six timers make a heap of three levels whose last parent has one child or two, three due times
  leave room for equal ones, and an array of two is doubled twice. The proofs hold for any number.
- `RequestData`: the limits are scaled down (path 5 after a first size of 2, one field, 7 characters of name or
  value, 4 of body, of which 2 in memory) so that every message around them is checked: all targets of `/` and
  up to five of `% 2 5 ? #`, up to three header lines of twelve kinds and one long line, all bodies of up to five of a letter
  and a newline, declared or in any chunks, and each of them cut in every way.
- `Connection`: `MaxRequests = 3`: one being answered, one waiting and one being read. A connection that is kept starts
  over with an empty queue.
- `Response`: items of 0, 1 and 2 bytes and headers of 2, so that a write can end before, in, between and after
  each part of a bucket; three items, for the first goes with the headers and the last may reach the length.

### Fairness

- `Picoev`: the loop's thread keeps running and callbacks return, `WF` of `Poll`, `Scan`, `Return`.
- `MainLoop`: `WF` of the loop's steps and of the return of application code; `SF` of a poll that is not interrupted,
  with and without a second passing: `epoll_wait` blocks for a second when nothing is ready, and signals do not
  interrupt every one of its calls.
- `Response`: `WF` of the code's own steps, `SF` of a write that takes something: a socket that is full again and
  again is asked again and again, and takes something at last.
- `Connection`: `WF` of the code's own steps and of the return of the application; `SF` of the read timeout, since the
  bytes of a request are limited (headers, body) and a peer that sends slowly comes to the end of them or stops. A
  connection that was kept is not re-armed by reads at all.
- `Continuation`: `WF` of the scan, the callbacks and the application's next switch; `SF` of `Poll`, which
  connections being accepted interrupt but, eight at most in a callback, do not stop; `SF` of the report and
  delivery of a descriptor, which assumes that the peer takes what is sent to it: a peer that does not can keep a
  resumed request waiting for ever, as the code arms no timeout (`picoev_add(..., 0, ...)`).

## The proofs

`PicoevProofs`, for every table, wheel size, word size and bound:

- `TypeCorrect`: `Spec => []TypeOK`. The heart is that `SlotOf` is a slot of the wheel for every timeout
  and clock, also one that stepped back.
- `WheelInductive`, `WheelCorrect`: `WheelAgrees` and `WordsMarked`, from the assumption `~CrossFd`. That
  `SnapshotIsCurrent` follows is a lemma (`ScanAssertions`): the assertions of the scan hold for the callers the
  assumption describes, and the run `stale` shows one that it does not.

`WheelAgrees` is not inductive: whether a bit of the slot being scanned still has an owner depends on how
far the scan has come. `WheelInv` (in `Picoev`) adds that the copies `vv` and `bits` are part of the
words they were taken from (`ScanCovers`), that what is behind the scan has been called back and disarmed
(`BitsUnhandled`), that a mark without a bit is one the scan will clear (`MarksExplained`), and in which
phases there are copies at all (`ScanShape`). The assumption `~CrossFd` is needed: a timeout callback that
deletes another descriptor of its word and slot leaves its bit in the copy, and `picoev.h:367` fails.
That a callback which re-arms its own descriptor cannot put it into the slot being scanned is arithmetic:
the slot is due, so the distance computed from `now` is at least one (`ModTurn`).

The proof has a lemma for each operator of `PicoevOps` (`PicoevOpsProofs`) and one for each action, and the theorems combine them.

- `SlotsTellDue` and `NoTimeoutLeft`: `SlotTellsDue` and `NoneOverdue`, from `~CrossFd`, with slow callbacks, interrupted
  polls and a clock that steps back. `DueInductive` adds to `WheelInv` that the slot of a timeout, counted
  from where the wheel stands, is the time it is due (`DueTold`): a call stores it so, and the wheel is turned past
  empty slots only. The lemmas on the modulo (`ModOfTurn`, `TurnOfSlot`) say which slot stands for which second, for
  any size of the wheel.
- `EntriesKept`: `RegisteredHasEntry`, without an assumption: a deferred deletion leaves the old
  entry, and whoever adds the descriptor again modifies it or, on a kernel that refuses that, still has the old one.
- `NeverEarly`: `NoEarlyTimeout`, from `~CrossFd`: with slow callbacks, interrupted polls, a clock that steps back and
  seconds of any size. The property compares `loop->now` at the call with `asked`, which counts from `loop->now` when
  the timeout was asked for, as the code does, and is cut to what the wheel holds (`picoev.h:203`); the wheel itself
  is turned by `base_time`. The invariant is that no armed timeout is in the slot of an earlier second than `asked`
  (`AskedTold`), on top of `DueTold`. By the wall clock a timeout asked for after slow code is early by the time that
  code took.

`ContinuationProofs`, for any requests, descriptors, events, waits, wheel and bounds:

- `CountCorrect`: `Spec => []CountInv`, `activecnt` is the number of active registrations.
- `OneWaitForEach`: `Spec => []OneWaitEach`.
- The invariant of both is `WaitInductive`. `Waits` says of every registration whose it is and of every request at the
  hub which registrations it has, exactly one unless it is abandoned; `Thread` where the thread is: in one request at
  most, in none while picoev or the main loop runs, and a callback that begins is that of a registration; `Counted`
  that the count is that of the table. Without `Thread` the others are not inductive: a callback whose request runs
  already would make it wait twice. The proof uses of the wheel only which registrations there are, so it needs no
  assumption like `~CrossFd`: a timeout called back for a stale bit (run `stale`) ends a behaviour of `Continuation`.

The constants have the assumptions that `None`, `Main` and the descriptors are different things, and that what picoev may call
includes the callbacks of `server.c` for every request (`ContinuationAssumption`).

`ResponseProofs`, for items, files and writes of any number and size:

- `ClosesOnce`: the application's `close` is called once, or never if the application has called
  `client.set_closed(1)`. The invariant adds that nothing is closed before the application has returned, and that
  `response_closed` is what was called (`CloseInv`).
- `PageFirst`: no error page is written into a response whose headers did not have to wait. The invariant says of
  each point of the program what `header_done` and `headWaited` say of the wire (`HeadInv`).
- `InOrderAlways`: `Spec => []OrderInv`, that what is on the wire begins what the response promises.
- `WholeWhenOk`: `Spec => []CompleteWhenOk`, that a response taken for sent is complete, with the two exceptions the
  property names.

The last two share the invariant `ResponseInv`. Neither property is inductive: what a socket took of a `writev` says nothing
of what comes next. The invariant adds what is still to be written. While a bucket is pending, the wire and the bucket are
together the headers and the items so far, or all of the response when the bucket is the last chunk; between two items the wire
is that alone; in a file the wire has the headers and the bytes from `position` to `sent` (`InPlace`). The counts of
`content_length` agree with that only while the headers did not have to wait, since `write_bytes` counts them too
afterwards (`Counted`). `Settled` says where in the program a response can be, and that chunks have no length.

Under it lies a small theory of `FlattenSeq`: it joins the parts one after the other (`FlattenIs`, `FlatNext`), also with a
part in front of the others or behind them (`FlattenFirst`, `FlattenLast`), and what `writev_bucket` keeps of
a bucket, joined to what was taken, is the bucket (`CutParts` and the lemmas behind it), wherever the cut falls,
at the end of a part, inside one, or behind parts of no bytes. Its induction is over the number of parts, for a set of
numbers (`Induct`), which the provers can do where an operator as parameter is beyond them.

`ConnectionProofs`, for any number of requests of any kinds:

- `Implements`: `Connection` implements `Pipelining`, that is `Spec => AnswersInOrder`. The invariant is
  `QueueInductive`: the queue holds the requests begun, less those answered and the one the application has, and the
  ids in it are consecutive (`QueueHolds`); there is one whenever the parser is inside a request or says that it is
  complete, and while one is being read it is the last (`QueueShape`). Without the second part the first is not
  inductive: `set_read_error` and `prepare_call_wsgi` rely on it without a test.
- `AlwaysServes`, `TypeCorrect`: from the same invariant.

From that invariant and a second one, `CauseInductive`, in the same module. The parts of the second are:

- `RefusedHaveCause`: a mark in the queue, or a refusal sent, belongs to a request that did not end, asked for an upgrade
  or is followed by stray bytes. It needs `ReadingShape`: until the parser is in error nothing in the queue is marked, and
  the request in it that is being read is the one that did not end. From it `RefusedForCause`.
- `SilentShape`: while requests arrive, an empty queue means that no request was begun, and outside of the parser that the
  connection is complete, so that `set_read_error` sends no page. From it `SilentWhenIdle`.
- `KeepShape`: all requests but the last asked to be kept, since the parser stops behind one that does not; `keep_alive` is
  the wish of the last until something goes wrong, and then it stays false. From it `KeptAsAsked`.

`MainLoopProofs`, for any listening sockets, clients, timers and runs, any number of stops and signals, and code of any length:

- `CountCorrect`: `Spec => []CountInv`, that `activecnt` is the work left and what earlier runs lost, less what was
  counted off twice.
- `EndsGracefully` and `ServesOn`: `GracefulExit` and `ServesUntilStopped`, which compare the end of a run with the
  count, follow from it.
- `DeadlineHolds`: `Spec => []DeadlineKept`.

The invariant of the first three is `LoopInductive`. `LoopInv` adds to the types and the count where application code
can run at all (in which phase, and whose), that inside a run all listening sockets are registered or a deadline is
set, and that queued timers are among those created: without the last, a timer pushed might be in the set already. A
lemma `Balance` says that the count moves as its parts do, and each action has the arithmetic of one part only.

The invariant of `DeadlineHolds`, `DeadlineInv`, follows a stop round the loop. Unless `moved`, or the loop was told
to end, `kill_callback` is armed no later than the deadline (`KillArmed`), since `now` is never ahead of the clock
(`TimeOrdered`). Outside the scan it is never overdue (`KillNotMissed`): `now` moves only when a poll has delivered,
and the scan that follows fires it. An interrupted poll skips the scan and leaves `now` where it was, so that the turn
does not see that the time has passed.

`HeapQProofs`, for any timers, due times, first size and bound:

- `IsAHeap`, `TypeCorrect`, `NeverTwice` and `Implements`: that `HeapQ` implements `TimerQueue`.
- The invariant `HeapInductive` speaks of the array with its hole. `SiftOrder` says that all places are
  in order with their parents but for the hole, and that the hole's parent and children are in order with each other; while the
  timer rises it is below the children of its hole too. That the root is a least element (`heappop` gives a first timer) is
  not a local fact: the proof takes the least place that is due before the root and looks at its parent.

`RequestDataProofs`, for every set of messages, every limit and every division into pieces:

- `BuffersHold`: no buffer is full to its last byte, and that of the path stays within its limit (`WriteResult`).
- `BodyIsSent`: the input holds the body that was sent, from its first byte.
- `AnswersAsAFile`: `Spec => ReadsLikeAFile`, every call of the input answers as a file with the rest of the body would.
- `OutcomeFollows`: `Spec => []OutcomeOfMessage`, whether a request is refused, and with which code, is up to its message.
- `EnvironFollows`: `Spec => []EnvironOfMessage`, the headers in the environ are those of the message.
- `TargetFollows`: `Spec => []PathAndQuery`, for targets of any length.

The first three come from `DataInductive`: it has the position of the tokenizer in the message (`Cursor`), and that what is
stored of the body is what has been read of it, in whichever of the two places (`Stored`): a buffer of the size given by the
declared length, and below the limit `BufferMax`, never cuts a piece off. That needs the assumption `MaxContent < BufferMax`.
`AnswersAsAFile` adds to it where lines end: `inner_readline` called again and again stops at the places `LineEnds` and at no
others (`LineEndsAre`), and the lines between them, joined, are the text (`GivenIs`).

The other three need `HeadInductive`, which TLC checked on the run `request` before it was proved. None of them is
inductive, for while the head is collected nothing of the verdict or the environ is there. `HeadInv` says what the
fields hold in the meantime:

- `PathSoFar`: `path` has what was passed on of the target.
- `LinesSoFar`: either no name was begun, or there is a line `s` where the header under way starts, and `headers` are those of
  the headers before `s`, `num_headers` their number. In a name (`AtName`) `field` is the key of what was read of the names since
  `s`; in a value (`AtValue`) that key is whole and `value` has what was read; between two lines (`AfterLine`) both are
  whole. `last_header_element` tells the cases apart, in the code as here: that a name goes on is what it has to be right about.
- `Fits`: what was passed on is within its limits. With it the refusal of the code is the verdict on the message: what a
  piece takes beyond a limit, the rest of the message leaves beyond it, and a piece that stays within it refuses nothing.
- Behind the head, `HeadFits`: all limits of the head hold, so that only the length of the body can be refused.

`add_header` under one key joins a value to those before it, and the proof that the result is `HeadersOf` is about the order of
the lines (`Ascending`) and `FlattenSeq` (`JointAdd`, `HeadersAdd`). That renaming two keys leaves the others alone
(`MovedIs`) needs the assumptions that the two names differ and do not begin with `HTTP_` themselves.

`set_query`, `set_path`, `urldecode` and `Decoded` are recursive functions. What they compute for every text is proved
from their equations, after a proof that a function with such equations exists (`ForwardExists`: every step looks
ahead only, so take the least number of places for which none does). Then the target is cut where its path ends
(`PathEnd`), the scan of `set_path` gives the query there (`BehindPath`), and before it a byte or an escape at a time
(`Tokens`, `TokenNext`) what `Decoded` has; the second decoding of the path by `urldecode` changes nothing when no
percent sign is left (`DecodePlain`). The inductions are over numbers, by a least counterexample (`LeastExists`).

Only model-checked are the six liveness properties (`ScanTerminates`, `CallsAreMade`, `StopEndsLoop`, `ResumeWakes`,
`ResponseEnds`, `AllAnswered`), since liveness under fairness is out of the prover's reach, and the four findings. All
invariants and action properties that the runs check are proved, some of them from an assumption named above that the
run's configuration satisfies.

## Not modelled

- The vendored tokenizer `http_parser.c`, a generated-looking table of characters and states by a third party.
  `RequestData` has the pieces it hands on and `Connection` where it stops.
- The kqueue and select backends: alternatives on other systems, below the core that is modelled.
- `websocket.py`, `msocket.py`, `patch.py` and `middleware.py`: Python above the interface of `trampoline`. They retry
  a system call or frame an application protocol; the waits they make are those of `Continuation`, and the one state
  of the server that they change, by `client.set_closed` of the WebSocket middleware, is in `Response`.
- Greenlets spawned by the application (`spawn`), the exception handed to a greenlet that is resumed, and failures of
  allocation and of the C API, everywhere.
- In `RequestData`: the environ's constant keys, the protocol version, trailers, and the free lists of buffers and
  inputs.
- Logging, the formatted strings of the time cache, gunicorn's side of the worker (its calls are `Run` and `Stop`), access
  logs, benchmarks and examples.
