------------------------------- MODULE Picoev -------------------------------
(***************************************************************************)
(* The event loop: picoev_loop_once of src/meinheld/server/picoev.h over   *)
(* the epoll backend, driven by the loop of meinheld_run_loop.  One turn:  *)
(*                                                                         *)
(*   "main"     the code of the main loop between two picoev_loop_once     *)
(*              (pending calls, timers, signals) uses the API;             *)
(*   "deliver"  epoll_wait has returned a batch of ready descriptors and   *)
(*              their callbacks run, one after the other;                  *)
(*   "scan"     loop->now is set and picoev_handle_timeout_internal visits *)
(*              the slots that are due, calling back every descriptor of   *)
(*              the snapshots it takes of vec_of_vec and vec.              *)
(*                                                                         *)
(* While code of the server runs (running # None) it may call any of the   *)
(* API operations, up to MaxOps of them.  The preconditions that picoev    *)
(* asserts are part of those actions: what callers do when they break them *)
(* is the subject of the modules that compose the server with PicoevOps.   *)
(***************************************************************************)
EXTENDS PicoevOps

CONSTANTS
  None,          (* no code of the server is running                        *)
  Main,          (* the main loop is                                        *)
  CrossFd,       (* a timeout callback may also work on other descriptors   *)
  SlowCallbacks, (* a callback may take a second of real time               *)
  Interrupts,    (* epoll_wait may be interrupted by a signal               *)
  StepBack,      (* how far the wall clock may be set back between two polls*)
  SecsChoices,   (* the timeouts the callers ask for                        *)
  EventChoices,  (* the event sets they ask for                             *)
  MaxOps,        (* bound: API calls made by one callback                   *)
  MaxClock       (* bound: the wall clock                                   *)

ASSUME LoopAssumption ==
  /\ None \notin Fds /\ Main \notin Fds /\ None # Main
  /\ CrossFd \in BOOLEAN /\ SlowCallbacks \in BOOLEAN /\ Interrupts \in BOOLEAN
  /\ StepBack \in Nat /\ MaxOps \in Nat /\ MaxClock \in Nat
  /\ SecsChoices \subseteq Nat /\ EventChoices \subseteq SUBSET RW

VARIABLES
  loop,     (* the record of PicoevOps                                      *)
  clock,    (* the wall clock                                               *)
  cached,   (* current_msec / 1000: the clock as the last poll saw it       *)
  phase,
  running,  (* the descriptor whose callback runs, Main, or None            *)
  batch,    (* loop->events: descriptors reported and not yet handled       *)
  groups,   (* scan: the words i of vec_of_vec not yet finished             *)
  vv,       (* scan: the snapshot vv of such a word, {} when none is open   *)
  bits,     (* scan: the snapshot v of word Min(vv)                         *)
  inWord,   (* scan: that word is open                                      *)
  ops,      (* API calls made by the running code                           *)
  asked,    (* history: when by loop->now the timeout of fd shall be over,  *)
            (* the seconds asked for cut to what the wheel can hold         *)
  due       (* history: base_time of the slot fd was armed in               *)

scanVars == <<groups, vv, bits, inWord>>
vars == <<loop, clock, cached, phase, running, batch, scanVars, ops, asked, due>>

AllGroups   == {GroupOf(WordOf(fd)) : fd \in Fds}
IsLeast(x, S) == x \in S /\ \A y \in S : x <= y

Init ==
  /\ clock = StepBack /\ cached = StepBack /\ loop = FreshLoop(StepBack)
  /\ phase = "main" /\ running = Main
  /\ batch = {}
  /\ groups = {} /\ vv = {} /\ bits = {} /\ inWord = FALSE
  /\ ops = 0
  /\ asked = [fd \in Fds |-> 0] /\ due = [fd \in Fds |-> 0]

----------------------------------------------------------------------------
(* The API, called by the running code.                                     *)

\* A timeout callback is confined to its own descriptor unless CrossFd.
MayTouch(fd) == phase = "scan" /\ ~CrossFd => fd = running

Calling ==
  /\ running # None
  /\ ops < MaxOps
  /\ ops' = ops + 1
  /\ UNCHANGED <<cached, phase, running, batch, scanVars>>

\* the histories of the timeout of fd; both are 0 while it is disarmed
LatestDue == loop.base_time + VecSize - 1
Ends(secs) == IF loop.now + secs <= LatestDue THEN loop.now + secs ELSE LatestDue

Remember(fd, secs) ==
  /\ asked' = [asked EXCEPT ![fd] = IF secs = 0 THEN 0 ELSE Ends(secs)]
  /\ due'   = [due EXCEPT ![fd] = IF secs = 0 THEN 0
                                  ELSE loop.base_time + Delta(loop, secs)]

Forget(fd) == /\ asked' = [asked EXCEPT ![fd] = 0]
              /\ due'   = [due EXCEPT ![fd] = 0]

Add(fd, evs, secs, cb) ==
  /\ Calling
  /\ ~loop.active[fd]                                     \* picoev.h:225
  /\ loop' = PAdd(loop, fd, evs, secs, cb)
  /\ Remember(fd, secs)
  /\ UNCHANGED clock

Del(fd) ==
  /\ Calling /\ MayTouch(fd)
  /\ loop.active[fd]                                      \* picoev.h:187
  /\ loop' = PDel(loop, fd)
  /\ Forget(fd)
  /\ UNCHANGED clock

SetTimeout(fd, secs) ==
  /\ Calling /\ MayTouch(fd)
  /\ loop.active[fd]                                      \* picoev.h:187
  /\ loop' = PSetTimeout(loop, fd, secs)
  /\ Remember(fd, secs)
  /\ UNCHANGED clock

\* the server closes a descriptor it has deleted; accept may return it again
CloseFd(fd) ==
  /\ Calling
  /\ ~loop.active[fd] /\ loop.watched[fd] # {}
  /\ loop' = SysClose(loop, fd)
  /\ UNCHANGED <<clock, asked, due>>

\* the callback takes its time: nothing reads the clock until the next poll
TakeTime ==
  /\ SlowCallbacks
  /\ Calling
  /\ clock < MaxClock
  /\ clock' = clock + 1
  /\ UNCHANGED <<loop, asked, due>>

Call ==
  \/ \E fd \in Fds, evs \in EventChoices, secs \in SecsChoices, cb \in Callbacks :
       Add(fd, evs, secs, cb)
  \/ \E fd \in Fds : Del(fd)
  \/ \E fd \in Fds, secs \in SecsChoices : SetTimeout(fd, secs)
  \/ \E fd \in Fds : CloseFd(fd)
  \/ TakeTime

Return ==
  /\ running \in Fds
  /\ running' = None
  /\ ops' = 0
  /\ UNCHANGED <<loop, clock, cached, phase, batch, scanVars, asked, due>>

----------------------------------------------------------------------------
(* picoev_loop_once and picoev_poll_once_internal.                          *)

\* epoll_wait lasts at most Resolution: picoev_loop_once caps max_wait
Waited ==
  /\ phase = "main"
  /\ clock'  \in (clock - StepBack .. clock + Resolution) \cap (0 .. MaxClock)
  /\ cached' = clock'                                     \* cache_time_update
  /\ ops' = 0
  /\ UNCHANGED <<loop, scanVars, asked, due>>

EpollWait ==
  /\ Waited
  /\ batch' \in SUBSET {fd \in Fds : loop.watched[fd] # {}}
  /\ phase' = "deliver" /\ running' = None

\* EINTR: picoev_loop_once returns before it sets now and looks at timeouts
EpollWaitFails ==
  /\ Interrupts
  /\ Waited
  /\ UNCHANGED <<batch, phase, running>>

Delivering(fd) ==
  /\ phase = "deliver" /\ running = None
  /\ fd \in batch
  /\ batch' = batch \ {fd}
  /\ UNCHANGED <<clock, cached, phase, scanVars, ops, asked, due>>

\* an event of the batch meets whatever registration fd has by now
Deliver(fd) ==
  /\ Delivering(fd)
  /\ Deliverable(loop, fd)
  /\ running' = fd
  /\ UNCHANGED loop

\* nothing but EPOLLERR or EPOLLHUP was reported: revents is zero
DeliverNothing(fd) ==
  /\ Delivering(fd)
  /\ Deliverable(loop, fd)
  /\ UNCHANGED <<loop, running>>

\* the deferred deletion of the kernel's entry
DropStaleEvent(fd) ==
  /\ Delivering(fd)
  /\ ~Deliverable(loop, fd)
  /\ loop' = [loop EXCEPT !.watched[fd] = {}]
  /\ UNCHANGED running

StartScan ==
  /\ phase = "deliver" /\ running = None /\ batch = {}
  /\ loop' = [loop EXCEPT !.now = cached]
  /\ phase' = "scan"
  /\ groups' = AllGroups /\ vv' = {} /\ bits' = {} /\ inWord' = FALSE
  /\ UNCHANGED <<clock, cached, running, batch, ops, asked, due>>

----------------------------------------------------------------------------
(* picoev_handle_timeout_internal.                                          *)

SlotIsDueEarly == loop.base_time <= loop.now                \* faulty
SlotIsDue == loop.base_time <= loop.now - Resolution

Scanning ==
  /\ phase = "scan" /\ running = None
  /\ UNCHANGED <<clock, cached, batch, ops>>

EnterGroup(i) ==
  /\ Scanning /\ SlotIsDue
  /\ vv = {} /\ IsLeast(i, groups)
  /\ vv' = {w \in loop.vov[loop.base_idx] : GroupOf(w) = i}
  /\ groups' = IF vv' = {} THEN groups \ {i} ELSE groups
  /\ UNCHANGED <<loop, phase, running, bits, inWord, asked, due>>

EnterWord(j) ==
  /\ Scanning
  /\ ~inWord /\ IsLeast(j, vv)
  /\ bits' = {fd \in loop.vec[loop.base_idx] : WordOf(fd) = j}
  /\ inWord' = TRUE
  /\ UNCHANGED <<loop, phase, running, groups, vv, asked, due>>

Fire(fd) ==
  /\ Scanning
  /\ IsLeast(fd, bits)
  /\ bits' = bits \ {fd}
  /\ loop' = [loop EXCEPT !.tidx[fd] = Unused]
  /\ running' = fd
  /\ Forget(fd)
  /\ UNCHANGED <<phase, groups, vv, inWord>>

\* vec[j] = 0, and after the last word of the group vec_of_vec[i] = 0
ClearWord(L, j)  == [L EXCEPT !.vec[L.base_idx] = {fd \in @ : WordOf(fd) # j}]
ClearGroup(L, i) == [L EXCEPT !.vov[L.base_idx] = {w \in @ : GroupOf(w) # i}]

LeaveWord(j) ==
  /\ Scanning
  /\ inWord /\ bits = {} /\ IsLeast(j, vv)
  /\ vv' = vv \ {j} /\ inWord' = FALSE
  /\ IF vv' # {}
     THEN loop' = ClearWord(loop, j) /\ UNCHANGED groups
     ELSE /\ loop' = ClearGroup(ClearWord(loop, j), GroupOf(j))
          /\ groups' = groups \ {GroupOf(j)}
  /\ UNCHANGED <<phase, running, bits, asked, due>>

NextSlotKeepsTime ==      \* faulty: base_time does not advance with base_idx
  /\ Scanning /\ SlotIsDue
  /\ groups = {}
  /\ groups' = AllGroups
  /\ loop' = [loop EXCEPT !.base_idx = (@ + 1) % VecSize]
  /\ UNCHANGED <<phase, running, vv, bits, inWord, asked, due>>

NextSlot ==
  /\ Scanning /\ SlotIsDue
  /\ groups = {}
  /\ groups' = AllGroups
  /\ loop' = [loop EXCEPT !.base_idx  = (@ + 1) % VecSize,
                          !.base_time = @ + Resolution]
  /\ UNCHANGED <<phase, running, vv, bits, inWord, asked, due>>

EndScan ==
  /\ Scanning /\ ~SlotIsDue
  /\ phase' = "main" /\ running' = Main
  /\ groups' = {}
  /\ UNCHANGED <<loop, vv, bits, inWord, asked, due>>

Scan ==
  \/ \E i \in groups : EnterGroup(i)
  \/ \E j \in vv : EnterWord(j) \/ LeaveWord(j)
  \/ \E fd \in bits : Fire(fd)
  \/ NextSlot
  \/ EndScan

Poll ==
  \/ EpollWait
  \/ EpollWaitFails
  \/ \E fd \in batch : Deliver(fd) \/ DeliverNothing(fd) \/ DropStaleEvent(fd)
  \/ StartScan

Next == Call \/ Return \/ Poll \/ Scan

Spec == Init /\ [][Next]_vars

\* The loop is a thread that keeps running, and the callbacks return.
FairSpec == Spec /\ WF_vars(Return) /\ WF_vars(Scan) /\ WF_vars(Poll)

----------------------------------------------------------------------------
TypeOK ==
  /\ loop \in LoopState
  /\ clock \in Nat /\ cached \in Nat
  /\ phase \in {"main", "deliver", "scan"}
  /\ running \in Fds \cup {Main, None}
  /\ batch \in SUBSET Fds /\ bits \in SUBSET Fds
  /\ groups \in SUBSET AllGroups
  /\ vv \in SUBSET Words(Fds)
  /\ inWord \in BOOLEAN
  /\ ops \in Nat
  /\ asked \in [Fds -> Nat] /\ due \in [Fds -> Nat]

Armed(fd) == loop.active[fd] /\ loop.tidx[fd] # Unused

\* the bit of fd is still in the open word, its callback has been made
Handled(fd) == inWord /\ IsLeast(WordOf(fd), vv) /\ fd \notin bits

(* The table and the wheel agree (picoev_set_timeout, picoev_del and the    *)
(* scan keep them so): an armed descriptor has its bit in the slot that     *)
(* timeout_idx names, and a bit stands for an armed descriptor, except that *)
(* the open word of the slot being scanned keeps the bits of the callbacks  *)
(* already made until LeaveWord clears it.                                  *)
WheelAgrees ==
  /\ \A fd \in Fds : Armed(fd) => fd \in loop.vec[loop.tidx[fd]]
  /\ \A s \in Slots : \A fd \in loop.vec[s] :
       \/ Armed(fd) /\ loop.tidx[fd] = s
       \/ phase = "scan" /\ s = loop.base_idx /\ Handled(fd)

(* No timeout is invisible to the scan: every word of the wheel that has a  *)
(* bit is marked in vec_of_vec.                                             *)
WordsMarked == \A s \in Slots : Words(loop.vec[s]) \subseteq loop.vov[s]

(* The two assertions of the scan, picoev.h:363 (a word of the snapshot vv  *)
(* still has a bit when its turn comes) and :367 (a descriptor of the       *)
(* snapshot v still belongs to the loop when it is called back), and what   *)
(* they are for: a descriptor is only called back for a timeout it has.     *)
SnapshotIsCurrent ==
  /\ \A w \in vv : \E fd \in loop.vec[loop.base_idx] : WordOf(fd) = w
  /\ \A fd \in bits : Armed(fd) /\ loop.tidx[fd] = loop.base_idx

(* The slot of an armed descriptor is as far from base_idx as its due time  *)
(* is from base_time: turning the wheel neither loses nor shifts a timeout. *)
SlotTellsDue ==
  \A fd \in Fds : Armed(fd) =>
    (loop.tidx[fd] - loop.base_idx) % VecSize = due[fd] - loop.base_time

(* When picoev_loop_once returns, no timeout that is over at loop->now is   *)
(* left: a slot reached late, after a slow callback or in a poll that was   *)
(* interrupted, is still visited.                                           *)
NoneOverdue ==
  phase = "main" => \A fd \in Fds : Armed(fd) => due[fd] >= loop.now

(* A timeout is never delivered before the seconds asked for have passed by *)
(* loop->now, from its value when they were asked for: slow callbacks,      *)
(* interrupted polls and a clock set back make loop->now and base_time part *)
(* in either direction, and the slot is counted from both.                  *)
NoEarlyTimeout ==
  [][\A fd \in Fds : fd \in bits \ bits' => loop.now > asked[fd]]_vars

(* What a registration asks for is what the kernel watches: an event a      *)
(* callback waits for will be reported.  picoev_epoll.c:45 says the         *)
(* exclusive flag can always be passed safely.                              *)
KernelWatchesRegistered ==
  \A fd \in Fds :
    Deliverable(loop, fd) => loop.watched[fd] = loop.events[fd]

(* What every kernel gives: a registered descriptor has an epoll entry,     *)
(* though deletions are deferred, drop entries late and meet a close and a  *)
(* new registration first; and a kernel that lets an entry be modified has  *)
(* it watch the very events asked for.                                      *)
RegisteredHasEntry ==
  \A fd \in Fds : Deliverable(loop, fd) =>
    /\ loop.watched[fd] # {}
    /\ KernelExclusive \/ loop.watched[fd] = loop.events[fd]

(* The scan ends whatever the timeout callbacks do: re-arming a descriptor  *)
(* in its own timeout callback cannot keep the loop in the slot.            *)
ScanTerminates == phase = "scan" ~> phase = "main"

----------------------------------------------------------------------------
(* The inductive invariant behind WheelAgrees, WordsMarked and              *)
(* SnapshotIsCurrent when timeout callbacks keep to their own descriptor:   *)
(* how far the scan has come says which bits of the slot are left.          *)

\* a mark of vec_of_vec without a bit is one the scan has still to clear
MarksExplained ==
  \A s \in Slots : \A w \in loop.vov[s] :
    \/ w \in Words(loop.vec[s])
    \/ s = loop.base_idx /\ w \notin vv /\ \E x \in vv : GroupOf(x) = GroupOf(w)

ScanShape ==
  /\ (running = Main) <=> (phase = "main")
  /\ phase # "scan" => vv = {} /\ bits = {} /\ ~inWord
  /\ bits # {} => inWord
  /\ inWord => vv # {}
  /\ phase = "scan" /\ running \in Fds => Handled(running)
  /\ vv # {} => SlotIsDue
  /\ phase # "scan" => ~SlotIsDue

ScanCovers ==
  LET slot == loop.vec[loop.base_idx]
  IN  /\ phase = "scan" => \A fd \in slot : GroupOf(WordOf(fd)) \in groups
      /\ vv \subseteq loop.vov[loop.base_idx]
      /\ vv # {} => \E i \in groups :
                      /\ \A w \in vv : GroupOf(w) = i
                      /\ \A fd \in slot : GroupOf(WordOf(fd)) = i => WordOf(fd) \in vv

BitsUnhandled ==
  /\ \A fd \in bits : fd \in loop.vec[loop.base_idx] /\ IsLeast(WordOf(fd), vv)
  /\ \A fd \in Fds : Handled(fd) => ~(Armed(fd) /\ loop.tidx[fd] = loop.base_idx)

WheelInv ==
  /\ TypeOK /\ WheelAgrees /\ WordsMarked /\ MarksExplained
  /\ ScanShape /\ ScanCovers /\ BitsUnhandled

=============================================================================
