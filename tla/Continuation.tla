---------------------------- MODULE Continuation ----------------------------
(***************************************************************************)
(* The requests of src/meinheld/server/server.c as users of the event      *)
(* loop: a request is read, its application runs in a greenlet of its own, *)
(* and while that waits (suspend, trampoline, a response the socket cannot *)
(* take yet) the greenlet has switched to the hub and a registration of    *)
(* picoev stands for it.  The loop is the one of Picoev.tla, whose Poll    *)
(* and Scan are steps of this module; its callbacks and the application    *)
(* code they run are spelled out here.  A request is named by the          *)
(* descriptor of its connection.                                           *)
(*                                                                         *)
(* This is the build with NDEBUG, as Python's own flags make it: the       *)
(* assertions of picoev.h do not stop it.  The model ends, however, at the *)
(* first timeout called back for a bit of the wheel that the registration  *)
(* did not set (stale): what that callback then works on may be freed.     *)
(***************************************************************************)
EXTENDS PicoevOps, FiniteSets

CONSTANTS
  None, Main,
  Conns,         (* the descriptors accept may return                       *)
  WaitChoices,   (* the pairs event set, seconds an application waits with  *)
  SuspendChoices,(* the seconds it gives to suspend, 0 for none             *)
  KeepSecs,      (* keep_alive_timeout                                      *)
  ReadSecs,      (* READ_TIMEOUT_SECS                                       *)
  SuspendSecs,   (* 3, the timeout of a suspend without one                 *)
  AgainSecs,     (* 30, the next one                                        *)
  MaxOps,        (* bound: calls between two switches                       *)
  MaxClock       (* bound: the wall clock                                   *)

\* the callbacks of server.c, with the client they are given
Handlers == [fn : {"read", "trampoline", "timeout", "timeout_error"}, arg : Conns]

ASSUME ContinuationAssumption ==
  /\ None \notin Fds /\ Main \notin Fds /\ None # Main
  /\ Conns \subseteq Fds /\ Handlers \subseteq Callbacks
  /\ MaxOps \in Nat /\ MaxClock \in Nat
  /\ \A w \in WaitChoices :
       w[1] \in SUBSET RW /\ w[2] \in Nat /\ (w[1] = {} => w[2] > 0)
  /\ SuspendChoices \subseteq Nat
  /\ {KeepSecs, ReadSecs, SuspendSecs, AgainSecs} \subseteq Nat \ {0}

VARIABLES
  loop, clock, phase, running, batch, groups, vv, bits, inWord, ops,
  at,            (* at[r]: "free", "reading", "kept" alive, "running" or at *)
                 (* the "hub"                                               *)
  suspended,     (* the requests whose client object is suspended           *)
  closing,       (* those whose keep_alive a timeout has cleared            *)
  activecnt,
  abandoned,     (* history: those whose registration another request took  *)
                 (* or cancelled, and that have none since                  *)
  resumed,       (* history: those resumed that have not run, and whose     *)
                 (* wait was not cancelled, since                           *)
  stale

pollVars == <<clock, phase, batch, groups, vv, bits, inWord>>
requestVars == <<at, suspended, closing, activecnt, abandoned, resumed>>
vars == <<loop, running, ops, pollVars, requestVars, stale>>

(* Callbacks here take no time, and when a timeout was asked for is of no   *)
(* interest: cached is the clock and the two histories stay zero.           *)
P == INSTANCE Picoev WITH
       cached <- clock, asked <- [fd \in Fds |-> 0], due <- [fd \in Fds |-> 0],
       CrossFd <- TRUE, SlowCallbacks <- FALSE, Interrupts <- FALSE,
       StepBack <- 0, SecsChoices <- {}, EventChoices <- {}

Handler(fn, r) == [fn |-> fn, arg |-> r]

Init ==
  /\ P!Init
  /\ at = [r \in Conns |-> "free"]
  /\ suspended = {} /\ closing = {}
  /\ activecnt = 0
  /\ abandoned = {} /\ resumed = {}
  /\ stale = FALSE

----------------------------------------------------------------------------
(* What the callbacks and the calls are made of.                            *)

\* picoev_add, and the count if the descriptor was not active
AwaitCountsAlways(fd, evs, secs, cb) ==    \* faulty: active is not looked at
  /\ loop' = PAdd(loop, fd, evs, secs, cb)
  /\ activecnt' = activecnt + 1

Await(fd, evs, secs, cb) ==
  /\ loop' = PAdd(loop, fd, evs, secs, cb)
  /\ activecnt' = IF loop.active[fd] THEN activecnt ELSE activecnt + 1

\* picoev_del, which is 0 whether the descriptor is active or not
Drop(fd) == loop' = PDel(loop, fd) /\ activecnt' = activecnt - 1

Becomes(r, where) == at' = [at EXCEPT ![r] = where]

\* the callback returns to picoev, for the greenlet switches to its parent
Switch == running' = None /\ ops' = 0

NoneRuns == \A r \in Conns : at[r] # "running"

\* application code: of a request, or of the main loop's scheduled calls
InCode ==
  /\ \/ \E r \in Conns : at[r] = "running"
     \/ running = Main /\ phase = "main"
  /\ ops < MaxOps /\ ops' = ops + 1
  /\ UNCHANGED <<running, closing, pollVars, stale>>

\* the calling of fd's callback for request r, before it has run anything
Called(fd, fn, r) ==
  /\ running = fd /\ NoneRuns /\ ~stale
  /\ loop.cb[fd] = Handler(fn, r)
  /\ UNCHANGED <<pollVars, stale>>

TimedOut == phase = "scan"

\* the greenlet of r runs on: what it waited for is over
Wakes(r) ==
  /\ Becomes(r, "running")
  /\ suspended' = suspended \ {r} /\ resumed' = resumed \ {r}
  /\ UNCHANGED <<running, ops, abandoned>>

----------------------------------------------------------------------------
(* The callbacks.                                                           *)

\* close_client: the connection is closed, or read on with a new client
CloseClient(r, keep) ==
  LET L == IF loop.active[r] THEN PDel(loop, r) ELSE loop
      c == IF loop.active[r] THEN activecnt - 1 ELSE activecnt
  IN  /\ closing' = closing \ {r}
      /\ IF keep
         THEN /\ loop' = PAdd(L, r, {"READ"}, KeepSecs, Handler("read", r))
              /\ activecnt' = c + 1
              /\ Becomes(r, "kept")
         ELSE /\ loop' = SysClose(L, r)
              /\ activecnt' = c
              /\ Becomes(r, "free")
      /\ UNCHANGED <<suspended, abandoned, resumed>>

\* read_request moves the timeout of a client that is not kept alive
ReadTimeout(r) ==
  IF at[r] = "kept" THEN loop ELSE PSetTimeout(loop, r, ReadSecs)

ReadsPart(r) ==
  /\ Called(r, "read", r) /\ ~TimedOut
  /\ loop' = ReadTimeout(r)
  /\ Switch
  /\ UNCHANGED requestVars

ReadsAll(r) ==
  /\ Called(r, "read", r) /\ ~TimedOut
  /\ loop' = PDel(ReadTimeout(r), r) /\ activecnt' = activecnt - 1
  /\ Becomes(r, "running")
  /\ UNCHANGED <<running, ops, suspended, closing, abandoned, resumed>>

\* end of file, an error or the timeout
ReadFails(r) ==
  /\ Called(r, "read", r)
  /\ CloseClient(r, FALSE)
  /\ Switch

TrampolineCallback(fd, r) ==
  /\ Called(fd, "trampoline", r)
  /\ Drop(fd)
  /\ closing' = IF TimedOut THEN closing \cup {r} ELSE closing
  /\ Wakes(r)

TimeoutErrorKeepsSuspended(r) ==     \* faulty: suspended is not cleared
  /\ Called(r, "timeout_error", r) /\ TimedOut
  /\ Drop(r)
  /\ Becomes(r, "running")
  /\ UNCHANGED <<running, ops, suspended, closing, abandoned, resumed>>

TimeoutErrorCallback(r) ==
  /\ Called(r, "timeout_error", r) /\ TimedOut
  /\ Drop(r)
  /\ Wakes(r)
  /\ UNCHANGED closing

\* the peer is still there: the request stays suspended
TimeoutCallback(r) ==
  /\ Called(r, "timeout", r) /\ TimedOut
  /\ loop' = PSetTimeout(loop, r, AgainSecs)
  /\ Switch
  /\ UNCHANGED requestVars

\* it is gone: the request is resumed with the error of the write
TimeoutCallbackFails(r) ==
  /\ Called(r, "timeout", r) /\ TimedOut
  /\ loop' = PDel(PSetTimeout(loop, r, AgainSecs), r)
  /\ activecnt' = activecnt - 1
  /\ Wakes(r)
  /\ UNCHANGED closing

\* accept_callback of a listening socket, which is MainLoop.tla's
Accepts(r) ==
  /\ phase = "deliver" /\ running = None /\ ~stale
  /\ at[r] = "free"
  /\ UNCHANGED <<ops, suspended, closing, abandoned, resumed, pollVars, stale>>

AcceptReading(r) ==
  /\ Accepts(r)
  /\ Await(r, {"READ"}, KeepSecs, Handler("read", r))
  /\ Becomes(r, "reading")
  /\ UNCHANGED running

\* the request has arrived with the connection and runs in accept_callback
AcceptRunning(r) ==
  /\ Accepts(r)
  /\ Becomes(r, "running") /\ running' = Main
  /\ UNCHANGED <<loop, activecnt>>

----------------------------------------------------------------------------
(* The application.                                                         *)

\* the requests that a new registration of fd, or its deletion, leaves
\* without one
Holds(fd) == {q \in Conns : loop.active[fd] /\ loop.cb[fd].arg = q}

ToHub(r) ==
  /\ at[r] = "running"
  /\ Becomes(r, "hub")
  /\ Switch
  /\ UNCHANGED <<closing, resumed, pollVars, stale>>

Suspend(r, secs) ==
  /\ ToHub(r)
  /\ r \notin suspended
  /\ suspended' = suspended \cup {r}
  /\ IF secs > 0 THEN Await(r, {}, secs, Handler("timeout_error", r))
                 ELSE Await(r, {}, SuspendSecs, Handler("timeout", r))
  /\ UNCHANGED abandoned

\* trampoline, and the wait for a socket that takes no more of the response
Trampoline(r, fd, evs, secs) ==
  /\ ToHub(r)
  /\ Await(fd, evs, secs, Handler("trampoline", r))
  /\ abandoned' = abandoned \cup Holds(fd)
  /\ UNCHANGED suspended

ResumeWithoutEvents(r) ==           \* faulty: PICOEV_TIMEOUT for PICOEV_WRITE
  /\ InCode
  /\ r \in suspended
  /\ suspended' = suspended \ {r} /\ resumed' = resumed \cup {r}
  /\ Await(r, {}, 0, Handler("trampoline", r))
  /\ abandoned' = abandoned \ {r}
  /\ UNCHANGED at

Resume(r) ==
  /\ InCode
  /\ r \in suspended
  /\ suspended' = suspended \ {r} /\ resumed' = resumed \cup {r}
  /\ Await(r, {"WRITE"}, 0, Handler("trampoline", r))
  /\ abandoned' = abandoned \ {r}
  /\ UNCHANGED at

\* msocket's sockets do so when they are closed or shut down; the descriptor
\* may also be that of a connection, whose request then waits for nothing
CancelWait(fd) ==
  /\ InCode
  /\ loop.active[fd]
  /\ Drop(fd)
  /\ abandoned' = abandoned \cup Holds(fd)
  /\ resumed' = resumed \ Holds(fd)
  /\ UNCHANGED <<at, suspended>>

Finish(r, keep) ==
  /\ at[r] = "running"
  /\ keep => r \notin closing
  /\ CloseClient(r, keep)
  /\ Switch
  /\ UNCHANGED <<pollVars, stale>>

----------------------------------------------------------------------------
\* the descriptors that are not connections: those of the application
Sockets == Fds \ Conns

Callback ==
  \/ \E r \in Conns :
       \/ ReadsPart(r) \/ ReadsAll(r) \/ ReadFails(r)
       \/ TimeoutErrorCallback(r) \/ TimeoutCallback(r) \/ TimeoutCallbackFails(r)
       \/ \E fd \in Sockets \cup {r} : TrampolineCallback(fd, r)

Leaves ==
  \E r \in Conns :
    \/ \E secs \in SuspendChoices : Suspend(r, secs)
    \/ \E fd \in Sockets \cup {r}, w \in WaitChoices : Trampoline(r, fd, w[1], w[2])
    \/ \E keep \in BOOLEAN : Finish(r, keep)

\* Fire calls back a descriptor that is not armed in the slot
FiresStale ==
  \E fd \in bits \ bits' : ~(loop.active[fd] /\ loop.tidx[fd] = loop.base_idx)

Poll == ~stale /\ P!Poll /\ UNCHANGED <<requestVars, stale>>
Scan == ~stale /\ P!Scan /\ stale' = FiresStale /\ UNCHANGED requestVars

Next ==
  \/ Poll \/ Scan
  \/ Callback \/ Leaves
  \/ \E r \in Conns : AcceptReading(r) \/ AcceptRunning(r) \/ Resume(r)
  \/ \E fd \in Fds : CancelWait(fd)

Spec == Init /\ [][Next]_vars

(* The loop and its callbacks run on, also between the connections accepted *)
(* (eight at most are in one callback); an application comes to its next    *)
(* wait or its end; and a socket the kernel watches for writing is again    *)
(* and again one that can be written to.                                    *)
Reported(r) == P!EpollWait /\ r \in batch' /\ UNCHANGED <<requestVars, stale>>
Handled(r) == P!Deliver(r) /\ UNCHANGED <<requestVars, stale>>

FairSpec ==
  /\ Spec
  /\ SF_vars(Poll) /\ WF_vars(Scan) /\ WF_vars(Callback) /\ WF_vars(Leaves)
  /\ \A r \in Conns : SF_vars(Reported(r)) /\ SF_vars(Handled(r))

----------------------------------------------------------------------------
TypeOK ==
  /\ loop \in LoopState
  /\ at \in [Conns -> {"free", "reading", "kept", "running", "hub"}]
  /\ suspended \subseteq Conns /\ closing \subseteq Conns
  /\ abandoned \subseteq Conns /\ resumed \subseteq Conns
  /\ activecnt \in Int /\ stale \in BOOLEAN

RegistrationsOf(r) ==
  {fd \in Fds : loop.active[fd] /\ loop.cb[fd].arg = r}

(* activecnt counts the active registrations, whichever of the callbacks,   *)
(* calls and closings of server.c made them and took them away again.       *)
CountRegistered == activecnt = Cardinality({fd \in Fds : loop.active[fd]})

(* The count, and the types of what is counted (server.c:1735).             *)
CountInv == TypeOK /\ CountRegistered

(* A request that waits, for more of itself or at the hub, has exactly one  *)
(* registration to be woken by, and one that runs or is closed has none: it *)
(* is neither forgotten nor woken twice.  A request loses its registration  *)
(* only when another waits for the same descriptor or cancels the wait.     *)
OneWaitEach ==
  \A r \in Conns :
    Cardinality(RegistrationsOf(r)) =
      IF at[r] \in {"running", "free"} \/ r \in abandoned THEN 0 ELSE 1

(* A suspended request that is resumed runs again (server.c:2035-2057)      *)
(* unless its wait is cancelled, on kernels that forget EPOLLEXCLUSIVE when *)
(* a registration is modified.                                              *)
ResumeWakes ==
  \A r \in Conns : r \in resumed ~> r \notin resumed \/ stale

(* A timeout is called back only for a descriptor that is registered, which *)
(* picoev.h:367 asserts.                                                    *)
TimedOutBelongsToLoop == \A fd \in bits : loop.active[fd]

=============================================================================
