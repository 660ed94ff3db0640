------------------------------ MODULE MainLoop ------------------------------
(***************************************************************************)
(* meinheld_run_loop of src/meinheld/server/server.c: the pending calls,   *)
(* the timers, the listening sockets and the shutdown, tied together by    *)
(* activecnt, the number of things the loop still waits for.  One turn:    *)
(*                                                                         *)
(*   "top"      the test loop_done == 1 && activecnt > 0                   *)
(*   "pendings" fire_pendings drains g_pendings, the last one first        *)
(*   "timers"   fire_timers drains g_timers as far as they are due         *)
(*   "deliver"  picoev calls back the ready descriptors of a batch         *)
(*   "accept"   one of them is accept_callback, in its loop of accepts     *)
(*   "scan"     picoev's timeouts, of which kill_callback is the one here  *)
(*   "signal"   the loop looks at catch_signal                             *)
(*   "watch"    once a second, fast_notify or the watchdog                 *)
(*   "idle"     before the first run, between runs and after the last      *)
(*                                                                         *)
(* Code of the application runs inside pending calls, timers and client    *)
(* callbacks and inside the watchdog (running # None), takes its time and  *)
(* calls back into the server.  A client is a descriptor other than a      *)
(* listening socket: a connection, or one that a greenlet waits for; what  *)
(* its callbacks do with it otherwise is the subject of other modules.     *)
(* Timeouts are kept here as Picoev.tla shows them to work: one armed at   *)
(* loop->now + secs fires in the first scan whose now exceeds that.        *)
(***************************************************************************)
EXTENDS Integers, Sequences, FiniteSets

CONSTANTS
  None,
  Watchdog,       (* the callable given to set_watchdog                     *)
  Timers,         (* timer objects; each is scheduled once                  *)
  Clients,        (* descriptors of clients                                 *)
  ListenSocks,    (* listen_socks, a sequence of descriptors                *)
  AcceptMax,      (* accepts per callback, 8 in the code                    *)
  ReadTimeout,    (* READ_TIMEOUT_SECS                                      *)
  SecsChoices,    (* seconds given to schedule_call                         *)
  StopChoices,    (* timeouts given to stop and to set_fastwatchdog         *)
  Watches,        (* which of "fast" and "python" the program may set       *)
  Start,          (* the wall clock when the program starts                 *)
  MaxOps,         (* bound: calls into the server made by one callback      *)
  MaxStops,       (* bound: calls of stop and signals                       *)
  MaxRuns,        (* bound: calls of run                                    *)
  MaxClock        (* bound: the wall clock                                  *)

ASSUME MainLoopAssumption ==
  /\ None # Watchdog /\ {None, Watchdog} \cap (Timers \cup Clients) = {}
  /\ Timers \cap Clients = {}
  /\ IsFiniteSet(Timers) /\ IsFiniteSet(Clients)
  /\ ListenSocks \in Seq(Int) /\ ListenSocks # <<>>
  /\ \A i, j \in 1 .. Len(ListenSocks) :
       ListenSocks[i] = ListenSocks[j] => i = j
  /\ AcceptMax \in Nat /\ ReadTimeout \in Nat
  /\ SecsChoices \subseteq Nat /\ StopChoices \subseteq Nat
  /\ Watches \subseteq {"fast", "python"}
  /\ Start \in Nat /\ MaxOps \in Nat /\ MaxStops \in Nat /\ MaxRuns \in Nat
  /\ MaxClock \in Nat

VARIABLES
  phase,
  loop_done,      (* TRUE: go on (1 in the code)                            *)
  activecnt,
  catch_signal,
  pendings,       (* g_pendings, the top of the stack last                  *)
  timers,         (* g_timers, the set of the timers in the heap            *)
  seconds,        (* seconds[t]: the field of the timer, when it is due     *)
  called,         (* called[t]: fired or cancelled                          *)
  clients,        (* the clients registered with picoev                     *)
  accepting,      (* the listening sockets registered with accept_callback  *)
  killAt,         (* where kill_callback is armed on the first of them, or  *)
                  (* Never                                                  *)
  now,            (* loop->now                                              *)
  cached,         (* current_msec / 1000                                    *)
  batch,          (* descriptors reported by epoll, or found to have timed  *)
                  (* out, and not yet called back                           *)
  accepts,        (* accepts left to this accept_callback                   *)
  running,        (* the timer or client whose code runs, Watchdog or None  *)
  tempfile_fd,    (* TRUE: set_fastwatchdog has given a file to touch       *)
  watchdog,       (* TRUE: set_watchdog has given a callable                *)
  watchdog_lasttime,
  ops, stops, runs,
  clock,          (* the wall clock                                         *)
  created,        (* the timers scheduled so far                            *)
  deadline,       (* history: when the last stop expects the loop to end    *)
  moved,          (* history: accept_callback has moved killAt since        *)
  lost,           (* history: registrations thrown away with a loop that    *)
                  (* ended, which activecnt still counts                    *)
  doubled         (* history: how often activecnt was counted down for a    *)
                  (* descriptor that was not registered any more            *)

stopVars  == <<killAt, deadline, moved>>
countVars == <<loop_done, activecnt, clients, accepting, lost, doubled, stopVars>>
timerVars == <<pendings, timers, seconds, called, created>>
timeVars  == <<now, cached, clock>>
pollVars  == <<batch, accepts>>
watchVars == <<tempfile_fd, watchdog, watchdog_lasttime>>
vars == <<phase, running, ops, stops, runs, catch_signal,
          countVars, timerVars, timeVars, pollVars, watchVars>>

Never == -1
Listeners == {ListenSocks[i] : i \in 1 .. Len(ListenSocks)}

Init ==
  /\ phase = "idle" /\ running = None
  /\ ops = 0 /\ stops = 0 /\ runs = 0
  /\ catch_signal = FALSE
  /\ loop_done = FALSE /\ activecnt = 0
  /\ clients = {} /\ accepting = {} /\ lost = 0 /\ doubled = 0
  /\ killAt = Never /\ deadline = Never /\ moved = FALSE
  /\ pendings = <<>> /\ timers = {} /\ created = {}
  /\ seconds = [t \in Timers |-> 0]
  /\ called = [t \in Timers |-> FALSE]
  /\ now = 0 /\ cached = 0 /\ clock = Start
  /\ batch = {} /\ accepts = 0
  /\ tempfile_fd = FALSE /\ watchdog = FALSE /\ watchdog_lasttime = 0

----------------------------------------------------------------------------
(* What application code may call.                                          *)

Calling ==
  /\ running # None
  /\ ops < MaxOps
  /\ ops' = ops + 1
  /\ UNCHANGED <<phase, running, runs, catch_signal, timeVars, pollVars, watchVars>>

\* the bound leaves the clock the room to reach a kill_callback
Ticks(secs) ==
  /\ secs > 0 => clock < MaxClock \/ clock <= killAt
  /\ clock' = clock + secs

\* it takes time, of which the loop knows nothing
TakeTime ==
  /\ running # None
  /\ Ticks(1)
  /\ UNCHANGED <<phase, running, ops, stops, runs, catch_signal, now, cached, countVars,
                 timerVars, pollVars, watchVars>>

\* clean_client, at the end of one of the requests a client's callback serves,
\* reads the clock for the access log
LogAccess ==
  /\ running \in Clients
  /\ cached # clock /\ cached' = clock
  /\ UNCHANGED <<phase, running, ops, stops, runs, catch_signal, now, clock, countVars,
                 timerVars, pollVars, watchVars>>

SchedulePendingUncounted(t, secs) ==  \* faulty: only heappush counts
  /\ t \notin created
  /\ clock + secs <= MaxClock
  /\ created' = created \cup {t}
  /\ seconds' = [seconds EXCEPT ![t] = IF secs > 0 THEN cached + secs ELSE 0]
  /\ IF secs = 0
     THEN pendings' = Append(pendings, t) /\ UNCHANGED <<timers, activecnt>>
     ELSE timers' = timers \cup {t} /\ activecnt' = activecnt + 1 /\ UNCHANGED pendings
  /\ UNCHANGED <<called, loop_done, clients, accepting, lost, doubled, stopVars>>

\* internal_schedule_call, TimerObject_new and heappush
Schedule(t, secs) ==
  /\ t \notin created
  /\ clock + secs <= MaxClock
  /\ created' = created \cup {t}
  /\ seconds' = [seconds EXCEPT ![t] = IF secs > 0 THEN cached + secs ELSE 0]
  /\ IF secs = 0
     THEN pendings' = Append(pendings, t) /\ UNCHANGED timers
     ELSE timers' = timers \cup {t} /\ UNCHANGED pendings
  /\ activecnt' = activecnt + 1
  /\ UNCHANGED <<called, loop_done, clients, accepting, lost, doubled, stopVars>>

ScheduleCall(t, secs) == Calling /\ Schedule(t, secs) /\ UNCHANGED stops

CancelCountsDown(t) ==    \* faulty: the timer is still in its queue
  /\ Calling
  /\ t \in created /\ ~called[t]
  /\ called' = [called EXCEPT ![t] = TRUE]
  /\ activecnt' = activecnt - 1
  /\ UNCHANGED <<stops, pendings, timers, seconds, created,
                 loop_done, clients, accepting, lost, doubled, stopVars>>

Cancel(t) ==
  /\ Calling
  /\ t \in created /\ ~called[t]
  /\ called' = [called EXCEPT ![t] = TRUE]
  /\ UNCHANGED <<stops, pendings, timers, seconds, created, countVars>>

\* picoev_add of a descriptor, and the count if it was not active
Register(c) ==
  /\ Calling
  /\ c \notin clients
  /\ clients' = clients \cup {c}
  /\ activecnt' = activecnt + 1
  /\ UNCHANGED <<stops, timerVars, loop_done, accepting, lost, doubled, stopVars>>

\* of a connection or of a descriptor someone waits for, also of one that the
\* scan of the timeouts is about to call back
CancelWait(c) ==
  /\ Calling
  /\ c \in clients
  /\ clients' = clients \ {c}
  /\ activecnt' = activecnt - 1
  /\ UNCHANGED <<stops, timerVars, loop_done, accepting, lost, doubled, stopVars>>

KillIn(timeout) == IF timeout > 0 THEN timeout ELSE 1

KillServerReadTimeout(timeout) ==  \* faulty: the wrong constant
  /\ accepting' = {}
  /\ activecnt' = activecnt - Len(ListenSocks)
  /\ doubled' = doubled + Len(ListenSocks) - Cardinality(accepting)
  /\ killAt' = now + ReadTimeout
  /\ deadline' = clock + KillIn(timeout)
  /\ moved' = FALSE
  /\ UNCHANGED <<loop_done, clients, lost>>

\* picoev_del is 0 for any socket, registered or not, so every call counts
\* all of them; kill_callback is armed on the first, uncounted
KillServer(timeout) ==
  /\ accepting' = {}
  /\ activecnt' = activecnt - Len(ListenSocks)
  /\ doubled' = doubled + Len(ListenSocks) - Cardinality(accepting)
  /\ killAt' = now + KillIn(timeout)
  /\ deadline' = clock + KillIn(timeout)
  /\ moved' = FALSE
  /\ UNCHANGED <<loop_done, clients, lost>>

MayStop == stops < MaxStops /\ stops' = stops + 1

Stop(timeout) ==
  /\ Calling
  /\ MayStop
  /\ KillServer(timeout)
  /\ UNCHANGED timerVars

Call ==
  \/ \E t \in Timers, secs \in SecsChoices : ScheduleCall(t, secs)
  \/ \E t \in Timers : Cancel(t)
  \/ \E c \in Clients : Register(c) \/ CancelWait(c)
  \/ \E timeout \in StopChoices : Stop(timeout)

\* sigint_cb, at any moment after the first run has installed it
Signal ==
  /\ runs > 0 /\ ~catch_signal
  /\ MayStop
  /\ catch_signal' = TRUE
  /\ UNCHANGED <<phase, running, ops, runs, countVars, timerVars, timeVars, pollVars,
                 watchVars>>

----------------------------------------------------------------------------
(* The main program, outside of run.                                        *)

Idle ==
  /\ phase = "idle" /\ runs < MaxRuns
  /\ UNCHANGED <<phase, running, ops, stops, catch_signal, pollVars>>

ScheduleIdle(t, secs) ==
  Idle /\ Schedule(t, secs) /\ UNCHANGED <<runs, timeVars, watchVars>>

SetFastwatchdog ==
  /\ Idle /\ "fast" \in Watches
  /\ tempfile_fd' = TRUE /\ watchdog_lasttime' = 0
  /\ UNCHANGED <<runs, countVars, timerVars, timeVars, watchdog>>

SetWatchdog ==
  /\ Idle /\ "python" \in Watches
  /\ watchdog' = TRUE /\ watchdog_lasttime' = 0
  /\ UNCHANGED <<runs, countVars, timerVars, timeVars, tempfile_fd>>

TimePasses ==
  /\ Idle /\ runs > 0
  /\ Ticks(1)
  /\ UNCHANGED <<runs, now, cached, countVars, timerVars, watchVars>>

RunUncounted ==               \* faulty: listen_all_sockets forgets to count
  /\ phase = "idle" /\ runs < MaxRuns
  /\ phase' = "top"
  /\ runs' = runs + 1
  /\ cached' = clock /\ now' = clock
  /\ loop_done' = TRUE
  /\ accepting' = Listeners
  /\ UNCHANGED <<running, ops, stops, catch_signal, activecnt, clients, lost, doubled,
                 stopVars, timerVars, clock, pollVars, watchVars>>

\* the part of meinheld_run_loop before its loop, on fresh sockets
Run ==
  /\ phase = "idle" /\ runs < MaxRuns
  /\ phase' = "top"
  /\ runs' = runs + 1
  /\ cached' = clock /\ now' = clock
  /\ loop_done' = TRUE
  /\ accepting' = Listeners
  /\ activecnt' = activecnt + Len(ListenSocks)
  /\ UNCHANGED <<running, ops, stops, catch_signal, clients, lost, doubled, stopVars,
                 timerVars, clock, pollVars, watchVars>>

----------------------------------------------------------------------------
(* The loop.                                                                *)

Quiet == running = None /\ UNCHANGED <<ops, stops, runs>>

Enter ==
  /\ phase = "top" /\ Quiet
  /\ loop_done /\ activecnt > 0
  /\ phase' = "pendings"
  /\ UNCHANGED <<running, catch_signal, countVars, timerVars, timeVars, pollVars, watchVars>>

\* picoev_destroy_loop forgets every registration, activecnt does not;
\* Py_CLEAR(watchdog)
Leave ==
  /\ phase = "top" /\ Quiet
  /\ ~(loop_done /\ activecnt > 0)
  /\ phase' = "idle"
  /\ clients' = {} /\ accepting' = {}
  /\ killAt' = Never /\ deadline' = Never /\ moved' = FALSE
  /\ watchdog' = FALSE
  /\ lost' = lost + Cardinality(clients) + Cardinality(accepting)
  /\ UNCHANGED <<running, catch_signal, loop_done, activecnt, doubled, timerVars, timeVars,
                 pollVars, tempfile_fd, watchdog_lasttime>>

GoesOn == loop_done /\ activecnt > 0

\* fire_timer on a timer just taken off its queue: a cancelled one is counted
\* off at once, another one runs first
FireTimer(t) ==
  IF called[t]
  THEN activecnt' = activecnt - 1 /\ UNCHANGED <<called, running>>
  ELSE /\ called' = [called EXCEPT ![t] = TRUE]
       /\ running' = t
       /\ UNCHANGED activecnt

FirePending ==
  /\ phase = "pendings" /\ Quiet
  /\ pendings # <<>> /\ GoesOn
  /\ pendings' = SubSeq(pendings, 1, Len(pendings) - 1)
  /\ FireTimer(pendings[Len(pendings)])
  /\ UNCHANGED <<phase, catch_signal, loop_done, clients, accepting, lost, doubled, stopVars,
                 timers, seconds, created, timeVars, pollVars, watchVars>>

PendingsDone ==
  /\ phase = "pendings" /\ Quiet
  /\ pendings = <<>> \/ ~GoesOn
  /\ phase' = "timers"
  /\ UNCHANGED <<running, catch_signal, countVars, timerVars, timeVars, pollVars, watchVars>>

TimerIsDue(t) == seconds[t] <= cached

\* heap[0]: which of several timers of the same second it is depends on the heap
IsFirst(t) == t \in timers /\ \A u \in timers : seconds[t] <= seconds[u]

FireDueTimer(t) ==
  /\ phase = "timers" /\ Quiet
  /\ GoesOn
  /\ IsFirst(t) /\ TimerIsDue(t)
  /\ timers' = timers \ {t}
  /\ FireTimer(t)
  /\ UNCHANGED <<phase, catch_signal, loop_done, clients, accepting, lost, doubled, stopVars,
                 pendings, seconds, created, timeVars, pollVars, watchVars>>

TimersDone ==
  /\ phase = "timers" /\ Quiet
  /\ ~GoesOn \/ \A t \in timers : IsFirst(t) => ~TimerIsDue(t)
  /\ phase' = "poll"
  /\ UNCHANGED <<running, catch_signal, countVars, timerVars, timeVars, pollVars, watchVars>>

\* a pending call or a timer returns; an exception ends the drain of its queue
TimerReturns(raised) ==
  /\ running \in Timers
  /\ running' = None /\ ops' = 0
  /\ activecnt' = activecnt - 1
  /\ phase' = CASE ~raised -> phase
                [] raised /\ phase = "pendings" -> "timers"
                [] raised /\ phase = "timers" -> "poll"
  /\ UNCHANGED <<stops, runs, catch_signal, loop_done, clients, accepting, lost,
                 doubled, stopVars, timerVars, timeVars, pollVars, watchVars>>

----------------------------------------------------------------------------
(* picoev_loop_once.                                                        *)

WaitedStale(tick) ==          \* faulty: cache_time_update is forgotten
  /\ Ticks(tick)
  /\ UNCHANGED <<now, cached>>

\* epoll_wait lasts at most a second
Waited(tick) ==
  /\ Ticks(tick)
  /\ cached' = clock'
  /\ UNCHANGED now

Poll(tick) ==
  /\ phase = "poll" /\ Quiet
  /\ Waited(tick)
  /\ batch' \in SUBSET (clients \cup accepting)
  /\ phase' = "deliver"
  /\ UNCHANGED <<running, catch_signal, countVars, timerVars, accepts, watchVars>>

\* EINTR, from a signal of any kind: neither now nor the timeouts are looked at
PollInterrupted(tick) ==
  /\ phase = "poll" /\ running = None
  /\ Waited(tick)
  /\ phase' = "signal"
  /\ UNCHANGED <<running, ops, stops, runs, catch_signal, countVars, timerVars, pollVars,
                 watchVars>>

Delivering(fd) ==
  /\ phase = "deliver" /\ Quiet
  /\ fd \in batch
  /\ batch' = batch \ {fd}
  /\ UNCHANGED <<catch_signal, loop_done, accepting, lost, stopVars, timerVars, timeVars,
                 watchVars>>

\* the callbacks of a client delete its registration before they run any
\* application code (or are done with it: close_client)
ClientCalledBack(c) ==
  /\ clients' = clients \ {c}
  /\ activecnt' = activecnt - 1
  /\ running' = c
  /\ UNCHANGED <<phase, accepts>>

DeliverClient(c) ==
  /\ Delivering(c)
  /\ c \in clients
  /\ ClientCalledBack(c)
  /\ UNCHANGED doubled

\* read_request returns 0: the request is not complete, the client stays
DeliverPart(c) ==
  /\ Delivering(c)
  /\ c \in clients
  /\ UNCHANGED <<phase, running, clients, activecnt, doubled, accepts>>

DeliverListener(l) ==
  /\ Delivering(l)
  /\ l \in accepting
  /\ accepts' = AcceptMax
  /\ phase' = "accept"
  /\ UNCHANGED <<running, clients, activecnt, doubled>>

DropStaleEvent(fd) ==
  /\ Delivering(fd)
  /\ fd \notin clients \cup accepting
  /\ UNCHANGED <<phase, running, clients, activecnt, doubled, accepts>>

ClientReturns ==
  /\ running \in Clients
  /\ running' = None /\ ops' = 0
  /\ UNCHANGED <<phase, stops, runs, catch_signal, countVars, timerVars, timeVars,
                 pollVars, watchVars>>

----------------------------------------------------------------------------
(* accept_callback.                                                         *)

Accepting ==
  /\ phase = "accept" /\ Quiet
  /\ UNCHANGED <<catch_signal, timerVars, now, clock, batch, watchVars>>

\* A connection.  read_request hands picoev_set_timeout the listening socket:
\* if that carries kill_callback by now (a request served by an earlier accept of
\* the same callback has called stop), its timeout is moved.  read_request
\* reads the clock if there is something to read.  Then the request is there and
\* its application runs (which may register the client again), or it is not and
\* the client is registered to be read.
Accept(c) ==
  /\ Accepting
  /\ accepts > 0 /\ accepts' = accepts - 1
  /\ c \notin clients
  /\ cached' \in {cached, clock}
  /\ \/ /\ killAt = Never \/ Len(ListenSocks) > 1    \* not on this socket
        /\ UNCHANGED stopVars
     \/ /\ killAt # Never
        /\ killAt' = now + ReadTimeout /\ moved' = TRUE
        /\ UNCHANGED deadline
  /\ \/ running' = c /\ UNCHANGED <<clients, activecnt>>
     \/ running' = None /\ clients' = clients \cup {c} /\ activecnt' = activecnt + 1
  /\ UNCHANGED <<phase, loop_done, accepting, lost, doubled>>

\* EAGAIN, or the eight accepts are made
AcceptDone ==
  /\ Accepting
  /\ phase' = "deliver" /\ accepts' = 0
  /\ UNCHANGED <<running, cached, countVars>>

\* setup_sock fails
AcceptFatal ==
  /\ Accepting
  /\ accepts > 0
  /\ loop_done' = FALSE
  /\ phase' = "deliver" /\ accepts' = 0
  /\ UNCHANGED <<running, cached, activecnt, clients, accepting, lost, doubled, stopVars>>

\* accept fails for good
AcceptFails ==
  /\ phase = "accept" /\ running = None
  /\ accepts > 0
  /\ MayStop
  /\ KillServer(0)
  /\ phase' = "deliver" /\ accepts' = 0
  /\ UNCHANGED <<running, ops, runs, catch_signal, timerVars, timeVars, batch, watchVars>>

----------------------------------------------------------------------------
(* The end of the turn.                                                     *)

Delivered ==
  /\ phase = "deliver" /\ Quiet
  /\ batch = {}
  /\ now' = cached
  /\ batch' \in SUBSET clients               \* those whose timeout has come
  /\ phase' = "scan"
  /\ UNCHANGED <<running, catch_signal, countVars, timerVars, cached, clock, accepts,
                 watchVars>>

KillCallbackIdle ==           \* faulty: loop_done stays
  /\ killAt' = Never
  /\ UNCHANGED loop_done

KillCallback ==
  /\ killAt' = Never
  /\ loop_done' = FALSE

\* A client whose timeout has come is called back like one that is ready.  One
\* that another callback of this scan has cancelled since is called back too, as
\* the assertion of picoev.h:367 is compiled out, and is counted off again.
ClientTimesOut(c) ==
  /\ phase = "scan" /\ Quiet
  /\ c \in batch /\ batch' = batch \ {c}
  /\ ClientCalledBack(c)
  /\ doubled' = doubled + (IF c \in clients THEN 0 ELSE 1)
  /\ UNCHANGED <<catch_signal, loop_done, accepting, lost, stopVars, timerVars, timeVars,
                 watchVars>>

KillIsDue == killAt # Never /\ killAt < now

Scan ==
  /\ phase = "scan" /\ Quiet
  /\ batch = {}
  /\ phase' = "signal"
  /\ IF KillIsDue THEN KillCallback ELSE UNCHANGED <<killAt, loop_done>>
  /\ UNCHANGED <<running, catch_signal, activecnt, clients, accepting, deadline, moved, lost,
                 doubled,
                 timerVars, timeVars, pollVars, watchVars>>

HandleSignal ==
  /\ phase = "signal" /\ Quiet
  /\ phase' = "watch"
  /\ IF catch_signal THEN KillServer(0) ELSE UNCHANGED countVars
  /\ catch_signal' = FALSE
  /\ UNCHANGED <<running, timerVars, timeVars, pollVars, watchVars>>

\* watch_loop is set with either of them; there is a look at them once a second
Watching ==
  /\ phase = "watch" /\ running = None
  /\ UNCHANGED <<ops, runs, catch_signal, timerVars, timeVars, pollVars, watchdog>>

WatchDue == (tempfile_fd \/ watchdog) /\ watchdog_lasttime # now

\* nothing to do, or fast_notify touches the file and finds the parent alive
WatchPasses ==
  /\ Watching
  /\ ~WatchDue \/ tempfile_fd
  /\ watchdog_lasttime' = IF WatchDue THEN now ELSE watchdog_lasttime
  /\ phase' = "top"
  /\ UNCHANGED <<running, stops, countVars, tempfile_fd>>

\* fast_notify finds that the parent has changed; timeout is gtimeout
ParentGone(timeout) ==
  /\ Watching
  /\ WatchDue /\ tempfile_fd
  /\ MayStop
  /\ KillServer(timeout)
  /\ watchdog_lasttime' = now /\ tempfile_fd' = FALSE
  /\ phase' = "top"
  /\ UNCHANGED running

CallWatchdog ==
  /\ Watching
  /\ WatchDue /\ ~tempfile_fd
  /\ watchdog_lasttime' = now
  /\ running' = Watchdog
  /\ UNCHANGED <<phase, stops, countVars, tempfile_fd>>

\* an exception is printed and forgotten
WatchdogReturns ==
  /\ running = Watchdog
  /\ running' = None /\ ops' = 0
  /\ phase' = "top"
  /\ UNCHANGED <<stops, runs, catch_signal, countVars, timerVars, timeVars, pollVars, watchVars>>

Returns ==
  \/ ClientReturns \/ WatchdogReturns
  \/ \E raised \in BOOLEAN : TimerReturns(raised)

Turn ==
  \/ Enter \/ Leave
  \/ FirePending \/ PendingsDone
  \/ TimersDone \/ \E t \in Timers : FireDueTimer(t)
  \/ \E c \in Clients : DeliverClient(c) \/ DeliverPart(c) \/ ClientTimesOut(c)
  \/ \E l \in Listeners : DeliverListener(l)
  \/ \E fd \in Clients \cup Listeners : DropStaleEvent(fd)
  \/ AcceptDone \/ Delivered \/ Scan
  \/ HandleSignal \/ WatchPasses \/ CallWatchdog

Next ==
  \/ Run \/ TimePasses \/ SetFastwatchdog \/ SetWatchdog
  \/ \E t \in Timers, secs \in SecsChoices : ScheduleIdle(t, secs)
  \/ Call \/ TakeTime \/ LogAccess \/ Returns \/ Signal
  \/ Turn
  \/ \E tick \in {0, 1} : Poll(tick) \/ PollInterrupted(tick)
  \/ \E c \in Clients : Accept(c)
  \/ AcceptFatal \/ AcceptFails
  \/ \E timeout \in StopChoices : ParentGone(timeout)

Spec == Init /\ [][Next]_vars

(* Application code returns to the loop, the loop's own steps are taken, and  *)
(* epoll_wait, which blocks for a second when nothing happens, lets the clock *)
(* advance again and again; signals do not interrupt every one of its calls. *)
Fairness ==
  /\ WF_vars(Returns)
  /\ WF_vars(Turn)
  /\ SF_vars(Poll(0)) /\ SF_vars(Poll(1))

FairSpec == Spec /\ Fairness

----------------------------------------------------------------------------
(* Properties.                                                              *)

LoopTypes ==
  /\ phase \in {"idle", "top", "pendings", "timers", "poll", "deliver", "accept",
                "scan", "signal", "watch"}
  /\ running \in Timers \cup Clients \cup {None, Watchdog}
  /\ catch_signal \in BOOLEAN
  /\ ops \in 0 .. MaxOps /\ stops \in 0 .. MaxStops /\ runs \in 0 .. MaxRuns
  /\ now \in Nat /\ cached \in Nat /\ clock \in Nat
  /\ batch \subseteq Clients \cup Listeners
  /\ accepts \in 0 .. AcceptMax

CountTypes ==
  /\ loop_done \in BOOLEAN
  /\ activecnt \in Int /\ lost \in Nat /\ doubled \in Nat /\ moved \in BOOLEAN
  /\ clients \subseteq Clients /\ accepting \subseteq Listeners
  /\ killAt \in Nat \cup {Never} /\ deadline \in Nat \cup {Never}

TimerTypes ==
  /\ pendings \in Seq(Timers) /\ timers \subseteq Timers /\ created \subseteq Timers
  /\ seconds \in [Timers -> Nat]
  /\ called \in [Timers -> BOOLEAN]

WatchTypes ==
  /\ tempfile_fd \in BOOLEAN /\ watchdog \in BOOLEAN
  /\ watchdog_lasttime \in Nat

TypeOK == LoopTypes /\ CountTypes /\ TimerTypes /\ WatchTypes

\* what the loop still has to wait for
Work == Cardinality(clients) + Cardinality(accepting) + Len(pendings)
        + Cardinality(timers) + (IF running \in Timers THEN 1 ELSE 0)

\* activecnt, which a dozen places of server.c count up and down, is the number
\* of registrations, queued calls and the call being made, apart from what a
\* forced end of an earlier run left in it, and from what was counted off twice:
\* the listening sockets by a second kill_server, and a client cancelled while
\* the timeouts are visited (server.c:1735, 426, 2079).
CountAgrees == activecnt = Work + lost - doubled

\* the count, and the types of what is counted (server.c:1735)
CountInv == TypeOK /\ CountAgrees

\* meinheld_run_loop returns only when nothing is left to do, unless shutdown
\* was forced by kill_callback or a fatal error: a graceful stop waits for the
\* requests being served and for the calls scheduled, but for as many of them as
\* have been counted off twice (server.c:1735).
GracefulExit ==
  [][phase = "top" /\ phase' = "idle" /\ loop_done => Work <= doubled]_vars

\* A run of the loop that was not told to stop goes on: whatever an earlier run
\* left in activecnt, which is never reset (server.c:52, 1735), the listening
\* sockets alone keep it positive, unless something was counted off twice.
ServesUntilStopped ==
  [][phase = "top" /\ phase' = "idle" /\ loop_done
       => deadline # Never \/ doubled > 0]_vars

\* The first turn that sees the time given to the last stop passed is the last
\* one: kill_callback's timeout is not overlooked and nothing but a further
\* accept of the same accept_callback moves it away (server.c:434-442, 1103).
DeadlineKept ==
  phase = "top" /\ deadline # Never /\ now > deadline => ~loop_done \/ moved

\* Every call scheduled is made or cancelled, or the loop ends (server.c:1579-1633).
CallsAreMade ==
  \A t \in Timers : t \in created /\ ~called[t] ~> called[t] \/ phase = "idle"

\* Once asked to stop, the loop ends whatever its clients do (server.c:395-452).
StopEndsLoop == deadline # Never ~> phase = "idle"

=============================================================================
