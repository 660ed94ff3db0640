----------------------------- MODULE PicoevOps -----------------------------
(***************************************************************************)
(* The data structure of the event loop in src/meinheld/server/picoev.h    *)
(* and its epoll backend picoev_epoll.c, as operators over a record L:     *)
(*                                                                         *)
(*   active[fd]   picoev.fds[fd].loop_id is the loop's (there is one loop) *)
(*   events[fd]   the events field, cut to PICOEV_READWRITE                *)
(*   cb[fd]       the pair callback, cb_arg                                *)
(*   tidx[fd]     timeout_idx                                              *)
(*   vec[s]       the descriptors whose bit is set in slot s of the wheel  *)
(*   vov[s]       the words of slot s marked in vec_of_vec                 *)
(*   base_idx, base_time, now                                              *)
(*   watched[fd]  the events of the kernel's epoll entry for fd, {} when   *)
(*                the epoll instance has no entry for it (external)        *)
(*                                                                         *)
(* Times are in seconds: the code divides current_msec by 1000 before it   *)
(* uses it.                                                                *)
(*                                                                         *)
(* An operator marked "faulty" is a wrong version of the definition after  *)
(* it, kept to see that the properties notice.                             *)
(***************************************************************************)
EXTENDS Integers

CONSTANTS
  Fds,             (* the descriptors below max_fd                          *)
  VecSize,         (* PICOEV_TIMEOUT_VEC_SIZE, the slots of the wheel       *)
  ShortBits,       (* PICOEV_SHORT_BITS, the bits of a word                 *)
  Callbacks,       (* what a registration may name as callback and argument *)
  NoCallback,      (* the NULL of a table entry never registered            *)
  KernelExclusive  (* the kernel is 4.5 or newer: it knows EPOLLEXCLUSIVE   *)

ASSUME PicoevAssumption ==
  /\ Fds \subseteq Nat
  /\ VecSize \in Nat /\ VecSize > 1
  /\ ShortBits \in Nat \ {0}
  /\ KernelExclusive \in BOOLEAN

RW         == {"READ", "WRITE"}
Unused     == -1                      \* PICOEV_TIMEOUT_IDX_UNUSED: no slot
Slots      == 0 .. VecSize - 1
WordOf(fd) == fd \div ShortBits       \* the index vi of the word of fd
GroupOf(w) == w \div ShortBits        \* the vec_of_vec word that marks w

\* resolution: PICOEV_RND_UP(60, 128) / 128, the loop is created with 60
Resolution == 1

Words(fds) == {WordOf(fd) : fd \in fds}

(* The record of a fresh loop at time t: every field of the table is zero,  *)
(* timeout_idx included, which picoev_add resets before it is read.         *)
FreshLoop(t) ==
  [active    |-> [fd \in Fds |-> FALSE],
   events    |-> [fd \in Fds |-> {}],
   cb        |-> [fd \in Fds |-> NoCallback],
   tidx      |-> [fd \in Fds |-> 0],
   vec       |-> [s \in Slots |-> {}],
   vov       |-> [s \in Slots |-> {}],
   base_idx  |-> 0,
   base_time |-> t,
   now       |-> t,
   watched   |-> [fd \in Fds |-> {}]]

LoopState ==
  [active    : [Fds -> BOOLEAN],
   events    : [Fds -> SUBSET RW],
   cb        : [Fds -> Callbacks \cup {NoCallback}],
   tidx      : [Fds -> Slots \cup {Unused}],
   vec       : [Slots -> SUBSET Fds],
   vov       : [Slots -> SUBSET Words(Fds)],
   base_idx  : Slots,
   base_time : Nat,
   now       : Nat,
   watched   : [Fds -> SUBSET RW]]

----------------------------------------------------------------------------
(* The kernel (external).  epoll_ctl(MOD) then, if it fails, epoll_ctl(ADD) *)
(* with EPOLLEXCLUSIVE.  An older kernel ignores the flag and the MOD of an *)
(* entry succeeds; from 4.5 on an exclusive entry refuses every MOD with    *)
(* EINVAL and the ADD fails with EEXIST, so the entry stays as it was.      *)
ModRefused(w)     == KernelExclusive /\ w # {}
EpollCtl(w, evs)  == IF ModRefused(w) THEN w ELSE evs

\* close(2) of a descriptor removes its entry from the epoll instance
SysClose(L, fd) == [L EXCEPT !.watched[fd] = {}]

----------------------------------------------------------------------------
(* picoev_update_events_internal of the epoll backend.  A deletion leaves   *)
(* the kernel's entry in place (PICOEV_EPOLL_DEFER_DELETES); an unchanged   *)
(* event set returns early.                                                 *)
UpdateEventsModOnly(L, fd, evs) ==   \* faulty: ENOENT is not followed by an ADD
  IF evs = L.events[fd] THEN L
  ELSE [L EXCEPT !.events[fd]  = evs,
                 !.watched[fd] = IF @ = {} THEN {} ELSE EpollCtl(@, evs)]

UpdateEvents(L, fd, evs) ==
  IF evs = L.events[fd] THEN L
  ELSE [L EXCEPT !.events[fd]  = evs,
                 !.watched[fd] = IF evs = {} THEN {} ELSE EpollCtl(@, evs)]

DeferDelete(L, fd) == [L EXCEPT !.events[fd] = {}]

(* picoev_set_timeout, first half: clear the bit of fd in its slot, and the *)
(* word's mark in vec_of_vec when that was the word's last bit.             *)
DisarmKeepsBit(L, fd) ==      \* faulty: the bit stays in the slot
  IF L.tidx[fd] = Unused THEN L ELSE [L EXCEPT !.tidx[fd] = Unused]

DisarmUnmarksWord(L, fd) ==   \* faulty: unmarks a word that has other bits
  LET s == L.tidx[fd]
  IN  IF s = Unused THEN L
      ELSE [L EXCEPT !.tidx[fd] = Unused,
                     !.vec[s]   = @ \ {fd},
                     !.vov[s]   = @ \ {WordOf(fd)}]

Disarm(L, fd) ==
  LET s    == L.tidx[fd]
      left == L.vec[s] \ {fd}
  IN  IF s = Unused THEN L
      ELSE [L EXCEPT !.tidx[fd] = Unused,
                     !.vec[s]   = left,
                     !.vov[s]   = IF WordOf(fd) \in Words(left)
                                  THEN @ ELSE @ \ {WordOf(fd)}]

(* The distance of the slot from base_idx.  delta is a size_t: a negative   *)
(* value, when the wall clock stepped back, is huge and takes the cap too.  *)
DeltaCapTooLate(L, secs) ==   \* faulty: the cap is one slot too far
  LET d == L.now + secs - L.base_time
  IN  IF d < 0 \/ d > VecSize THEN VecSize - 1 ELSE d

Delta(L, secs) ==
  LET d == L.now + secs - L.base_time
  IN  IF d < 0 \/ d >= VecSize THEN VecSize - 1 ELSE d

SlotOfNoWrap(L, secs) == L.base_idx + Delta(L, secs)   \* faulty: no modulo

SlotOf(L, secs) == (L.base_idx + Delta(L, secs)) % VecSize

Arm(L, fd, s) == [L EXCEPT !.tidx[fd] = s,
                           !.vec[s]   = @ \cup {fd},
                           !.vov[s]   = @ \cup {WordOf(fd)}]

PSetTimeout(L, fd, secs) ==
  IF secs = 0 THEN Disarm(L, fd)
  ELSE Arm(Disarm(L, fd), fd, SlotOf(L, secs))

(* picoev_add overwrites the registration of fd, whether or not it had one: *)
(* the slot an earlier registration was armed in keeps its bit.             *)
Register(L, fd, cb) == [L EXCEPT !.cb[fd]     = cb,
                                 !.active[fd] = TRUE,
                                 !.events[fd] = {},
                                 !.tidx[fd]   = Unused]

PAdd(L, fd, evs, secs, cb) ==
  PSetTimeout(UpdateEvents(Register(L, fd, cb), fd, evs), fd, secs)

PDelKeepsTimeout(L, fd) ==    \* faulty: no picoev_set_timeout(loop, fd, 0)
  [DeferDelete(L, fd) EXCEPT !.active[fd] = FALSE]

PDel(L, fd) == [Disarm(DeferDelete(L, fd), fd) EXCEPT !.active[fd] = FALSE]

\* the test under which picoev_poll_once_internal calls the callback of fd
Deliverable(L, fd) == L.active[fd] /\ L.events[fd] # {}

=============================================================================
