------------------------------- MODULE HeapQ -------------------------------
(***************************************************************************)
(* The timers of src/meinheld/server/heapq.c: an array of pointers kept as *)
(* a binary heap over the field seconds of a timer.  heappush and heappop  *)
(* are taken apart into the turns of the loops of _siftdown and _siftup,   *)
(* so that what holds between them can be said:                            *)
(*                                                                         *)
(*   "idle"  no operation is under way                                     *)
(*   "up"    _siftup moves smaller children up, the hole at pos sinks      *)
(*   "down"  _siftdown moves greater parents down, the hole at pos rises   *)
(*                                                                         *)
(* While an operation is under way the array has a hole at pos: what is    *)
(* still there was copied elsewhere, and newitem is in no place yet.  Both *)
(* callers sift from the root, startpos is 0.                              *)
(***************************************************************************)
EXTENDS Integers, FiniteSets

CONSTANTS
  None,       (* the NULL pointer                                          *)
  Timers,
  Due,        (* the values of seconds                                     *)
  QueueMax,   (* QUEUE_MAX, the first size of the array                    *)
  MaxSize     (* bound: the timers in the heap                             *)

ASSUME HeapAssumption ==
  /\ None \notin Timers
  /\ Due \subseteq Int /\ Due # {}
  /\ QueueMax \in Nat \ {0}
  /\ MaxSize \in Nat

VARIABLES
  heap, size, max,
  pc, pos, newitem,
  seconds,    (* seconds[t]: the field of the timer                        *)
  retitem,    (* what the last heappop returned, or will                   *)
  full        (* the last heappush returned -1                             *)

arrayVars == <<heap, size, max>>
siftVars  == <<pc, pos, newitem>>
vars == <<arrayVars, siftVars, seconds, retitem, full>>

Init ==
  /\ heap = [i \in 0 .. QueueMax - 1 |-> None]
  /\ size = 0 /\ max = QueueMax
  /\ pc = "idle" /\ pos = 0 /\ newitem = None
  /\ seconds \in [Timers -> Due]
  /\ retitem = None /\ full = FALSE

ParentOffByOne(i) == i \div 2    \* faulty: the index of an array from 1
Parent(i) == (i - 1) \div 2

----------------------------------------------------------------------------
(* heappush.                                                                *)

Sift(to, at, item) == pc' = to /\ pos' = at /\ newitem' = item
Free(t) == t # newitem /\ \A i \in 0 .. size - 1 : heap[i] # t

PushStaysSmall(t, s, fails) ==    \* faulty: max is doubled, the array is not
  /\ pc = "idle" /\ Free(t) /\ size < MaxSize /\ ~fails
  /\ max' = IF size >= max THEN 2 * max ELSE max
  /\ heap' = [heap EXCEPT ![size % QueueMax] = t]
  /\ size' = size + 1
  /\ seconds' = [seconds EXCEPT ![t] = s]
  /\ Sift("down", size, t)
  /\ full' = FALSE
  /\ UNCHANGED retitem

\* a new timer; realloc doubles the array when it is full, or fails
Push(t, s, fails) ==
  /\ pc = "idle" /\ Free(t) /\ size < MaxSize
  /\ IF size >= max /\ fails
     THEN /\ full' = TRUE
          /\ UNCHANGED <<arrayVars, siftVars, seconds>>
     ELSE /\ max' = IF size >= max THEN 2 * max ELSE max
          /\ heap' = [i \in 0 .. max' - 1 |->
                        IF i = size THEN t ELSE IF i < max THEN heap[i] ELSE None]
          /\ size' = size + 1
          /\ seconds' = [seconds EXCEPT ![t] = s]
          /\ Sift("down", size, t)
          /\ full' = FALSE
  /\ UNCHANGED retitem

----------------------------------------------------------------------------
(* heappop.                                                                 *)

Pop ==
  /\ pc = "idle" /\ size > 1
  /\ retitem' = heap[0]
  /\ size' = size - 1
  /\ heap' = [heap EXCEPT ![0] = heap[size - 1], ![size - 1] = None]
  /\ Sift("up", 0, heap[size - 1])
  /\ UNCHANGED <<max, seconds, full>>

PopLast ==
  /\ pc = "idle" /\ size = 1
  /\ retitem' = heap[0]
  /\ size' = 0
  /\ heap' = [heap EXCEPT ![0] = None]
  /\ UNCHANGED <<max, siftVars, seconds, full>>

PopEmpty ==
  /\ pc = "idle" /\ size = 0
  /\ retitem' = None
  /\ UNCHANGED <<arrayVars, siftVars, seconds, full>>

----------------------------------------------------------------------------
(* _siftup and _siftdown.                                                   *)

Greater(t, u) == seconds[t] > seconds[u]

SmallChildLeft(i) == 2 * i + 1    \* faulty: the right child is not looked at

\* childpos after the comparison of the two children
SmallChild(i) ==
  LET left == 2 * i + 1
      right == left + 1
  IN IF right < size /\ Greater(heap[left], heap[right]) THEN right ELSE left

MoveTo(child) ==
  /\ heap' = [heap EXCEPT ![pos] = heap[child]]
  /\ pos' = child
  /\ UNCHANGED <<size, max, pc, newitem, seconds, retitem, full>>

SiftUp ==
  /\ pc = "up" /\ 2 * pos + 1 < size
  /\ MoveTo(SmallChild(pos))

Place == heap' = [heap EXCEPT ![pos] = newitem]

\* at a leaf newitem is put down, and _siftdown takes it up from there
SiftUpEnds ==
  /\ pc = "up" /\ 2 * pos + 1 >= size
  /\ pc' = "down"
  /\ Place
  /\ UNCHANGED <<size, max, pos, newitem, seconds, retitem, full>>

Rises == pos > 0 /\ Greater(heap[Parent(pos)], newitem)

SiftDown ==
  /\ pc = "down" /\ Rises
  /\ MoveTo(Parent(pos))

SiftDownEnds ==
  /\ pc = "down" /\ ~Rises
  /\ Place
  /\ Sift("idle", 0, None)
  /\ UNCHANGED <<size, max, seconds, retitem, full>>

Next ==
  \/ \E t \in Timers, s \in Due, fails \in BOOLEAN : Push(t, s, fails)
  \/ Pop
  \/ PopLast
  \/ PopEmpty
  \/ SiftUp
  \/ SiftUpEnds
  \/ SiftDown
  \/ SiftDownEnds

Spec == Init /\ [][Next]_vars

----------------------------------------------------------------------------
(* Properties.                                                              *)

\* Types of the array and of the operation under way.  heapq.c: an index is
\* below size and the part of the array below it holds timers, also after a
\* realloc (src/meinheld/server/heapq.c:107) or a pop.
TypeOK ==
  /\ max \in Nat \ {0} /\ size \in 0 .. max
  /\ heap \in [0 .. max - 1 -> Timers \cup {None}]
  /\ \A i \in 0 .. size - 1 : heap[i] \in Timers
  /\ seconds \in [Timers -> Due]
  /\ retitem \in Timers \cup {None} /\ full \in BOOLEAN
  /\ \/ pc = "idle" /\ pos = 0 /\ newitem = None
     \/ pc \in {"up", "down"} /\ pos \in 0 .. size - 1 /\ newitem \in Timers

\* Whatever was pushed and popped, no timer is due before its parent in the
\* array when no operation is under way (heapq.c:31 and heapq.c:49).
HeapOrder ==
  pc = "idle" =>
    \A i \in 1 .. size - 1 : seconds[heap[Parent(i)]] <= seconds[heap[i]]

\* the places that count, and what is in them
Places == IF pc = "idle" THEN 0 .. size - 1 ELSE (0 .. size - 1) \ {pos}
Contents == {heap[i] : i \in Places} \cup (IF pc = "idle" THEN {} ELSE {newitem})

\* No timer is in the heap twice, however far a sift has come: a pointer that
\* is there twice would be released twice (heapq.c:31, heapq.c:49).
NoneTwice ==
  /\ \A i, j \in Places : heap[i] = heap[j] => i = j
  /\ \A i \in Places : heap[i] # newitem

Promise == INSTANCE TimerQueue WITH queue <- Contents, taken <- retitem

\* The array is a set of timers which gives a first one at every heappop,
\* gives each timer that was pushed once, and loses none of them, as
\* fire_timers (server.c:1602) expects of it.
GivesTheFirst == Promise!Spec
=============================================================================
