------------------------- MODULE ContinuationProofs -------------------------
(* That every request that waits has one registration to be woken by, and   *)
(* that activecnt is the number of registrations, for any number of         *)
(* connections and sockets and whatever the application waits for.          *)
EXTENDS Continuation, PicoevOpsProofs, FiniteSetTheorems

(* Request r is the one that the callback of fd would run.                  *)
Has(r, fd) == loop.active[fd] /\ loop.cb[fd].arg = r

Registered == {fd \in Fds : loop.active[fd]}

(* Who can have a registration: a request that is read has its own          *)
(* connection's, with that callback, and one at the hub any other's, on     *)
(* its connection or a socket.                                              *)
Holders ==
  \A r \in Conns, fd \in Fds : Has(r, fd) =>
    /\ fd \in Sockets \cup {r}
    /\ r \notin abandoned
    /\ IF loop.cb[fd].fn = "read" THEN at[r] \in {"reading", "kept"} /\ fd = r
                                  ELSE at[r] = "hub"

AtMostOne == \A r \in Conns, fd, g \in Fds : Has(r, fd) /\ Has(r, g) => fd = g

AtLeastOne ==
  \A r \in Conns :
    at[r] \in {"reading", "kept", "hub"} /\ r \notin abandoned => \E fd \in Fds : Has(r, fd)

(* A suspended request waits on its own connection, where resume finds it.  *)
Suspensions ==
  /\ \A r \in suspended : at[r] = "hub" /\ (r \notin abandoned => Has(r, r))
  /\ \A r \in abandoned : at[r] \in {"reading", "kept", "hub"}

Waits == Holders /\ AtMostOne /\ AtLeastOne /\ Suspensions

(* Where the thread is: in one request at most, in none when picoev runs or *)
(* the main loop, and a callback that begins is that of a registration.     *)
Thread ==
  /\ \A r, q \in Conns : at[r] = "running" /\ at[q] = "running" => r = q
  /\ phase = "main" => running = Main
  /\ running = None \/ phase = "main" => NoneRuns
  /\ running \in Fds /\ NoneRuns /\ ~stale => loop.active[running]

Counted == IsFiniteSet(Registered) /\ activecnt = Cardinality(Registered)

WaitInv == P!TypeOK /\ TypeOK /\ Waits /\ Thread /\ Counted

Tables == loop.active \in [Fds -> BOOLEAN] /\ DOMAIN loop.cb = Fds
          /\ at \in [Conns -> {"free", "reading", "kept", "running", "hub"}]

LEMMA TablesTyped ==
  ASSUME TypeOK
  PROVE  Tables /\ loop \in LoopState
BY DEF TypeOK, LoopState, Tables

----------------------------------------------------------------------------
(* What becomes of the registrations and of those who have them.            *)

LEMMA Unmoved ==
  ASSUME Waits, loop'.active = loop.active, loop'.cb = loop.cb,
         UNCHANGED <<at, suspended, abandoned>>
  PROVE  Waits'
BY DEF Waits, Holders, AtMostOne, AtLeastOne, Suspensions, Has

\* the registration of r is deleted, and r runs or is closed
LEMMA Releases ==
  ASSUME Waits, Tables, NEW r \in Conns, NEW fd \in Fds, Has(r, fd),
         loop'.active = [loop.active EXCEPT ![fd] = FALSE], loop'.cb = loop.cb,
         NEW where \in {"running", "free"}, at' = [at EXCEPT ![r] = where],
         suspended' = suspended \ {r}, suspended \subseteq Conns,
         abandoned' = abandoned, abandoned \subseteq Conns
  PROVE  Waits'
<1>1. \A g \in Fds : loop'.active[g] = IF g = fd THEN FALSE ELSE loop.active[g]
  BY DEF Tables
<1>2. \A q \in Conns : at'[q] = IF q = r THEN where ELSE at[q]
  BY DEF Tables
<1>3. \A q \in Conns, g \in Fds : Has(q, g)' <=> Has(q, g) /\ g # fd
  BY <1>1 DEF Has
<1>4. \A g \in Fds : Has(r, g) => g = fd
  BY DEF Waits, AtMostOne
<1>5. \A q \in Conns : q # r => ~Has(q, fd)
  BY DEF Has
<1>6. Holders'
  BY <1>2, <1>3, <1>4 DEF Waits, Holders
<1>7. AtMostOne'
  BY <1>3 DEF Waits, AtMostOne
<1>8. AtLeastOne'
  BY <1>2, <1>3, <1>5 DEF Waits, AtLeastOne
<1>9. Suspensions'
  <2>1. r \notin abandoned
    BY DEF Waits, Holders
  <2>2. \A q \in suspended' : q # r /\ q \in Conns /\ q \in Fds
    BY ContinuationAssumption
  <2>. QED
    BY <2>1, <2>2, <1>2, <1>3, <1>5 DEF Waits, Suspensions
<1>. QED
  BY <1>6, <1>7, <1>8, <1>9 DEF Waits

\* r, which ran or is new, waits for fd; who waited for it is forgotten
LEMMA Registers ==
  ASSUME Waits, Tables, NEW r \in Conns, NEW fd \in Fds, fd \in Sockets \cup {r},
         at[r] \in {"running", "free"}, NEW fn, NEW where,
         loop'.active = [loop.active EXCEPT ![fd] = TRUE],
         loop'.cb = [loop.cb EXCEPT ![fd] = Handler(fn, r)],
         at' = [at EXCEPT ![r] = where],
         \/ fn = "read" /\ where \in {"reading", "kept"} /\ fd = r
         \/ fn # "read" /\ where = "hub",
         \/ suspended' = suspended
         \/ suspended' = suspended \cup {r} /\ fd = r /\ where = "hub",
         suspended \subseteq Conns, abandoned \subseteq Conns,
         abandoned' = abandoned \cup Holds(fd)
  PROVE  Waits'
<1>. DEFINE h == Handler(fn, r)
<1>1. h.fn = fn /\ h.arg = r
  BY DEF Handler
<1>2. /\ \A g \in Fds : loop'.active[g] = IF g = fd THEN TRUE ELSE loop.active[g]
      /\ \A g \in Fds : loop'.cb[g] = IF g = fd THEN h ELSE loop.cb[g]
  BY DEF Tables
<1>. HIDE DEF h
<1>3. \A q \in Conns : at'[q] = IF q = r THEN where ELSE at[q]
  BY DEF Tables
<1>4. \A g \in Fds : ~Has(r, g)
  BY DEF Waits, Holders
<1>5. \A q \in Conns, g \in Fds : Has(q, g)' <=> IF g = fd THEN q = r ELSE Has(q, g)
  BY <1>1, <1>2 DEF Has
<1>6. \A q \in Conns : q \in Holds(fd) <=> Has(q, fd)
  BY DEF Holds, Has
<1>7. r \notin abandoned /\ r \notin suspended /\ r \notin Holds(fd)
  BY <1>4, <1>6 DEF Waits, Suspensions
<1>8. \A q \in Conns : Has(q, fd) => at[q] \in {"reading", "kept", "hub"} /\ q # r
  BY <1>4 DEF Waits, Holders
<1>9. \A q \in Conns : Has(q, fd) => q \in Holds(fd)
  BY <1>6
<1>10. \A q \in Conns, g \in Fds : g # fd /\ Has(q, g) => q \notin Holds(fd)
  BY <1>6 DEF Waits, AtMostOne
<1>11. Holders'
  <2>. SUFFICES ASSUME NEW q \in Conns, NEW g \in Fds, Has(q, g)'
                PROVE  /\ g \in Sockets \cup {q}
                       /\ q \notin abandoned'
                       /\ IF loop'.cb[g].fn = "read" THEN at'[q] \in {"reading", "kept"} /\ g = q
                                                   ELSE at'[q] = "hub"
    BY DEF Holders
  <2>1. CASE g = fd
    BY <2>1, <1>1, <1>2, <1>3, <1>5, <1>7
  <2>2. CASE g # fd
    <3>1. Has(q, g) /\ q # r
      BY <2>2, <1>4, <1>5
    <3>. QED
      BY <2>2, <3>1, <1>2, <1>3, <1>10 DEF Waits, Holders
  <2>. QED
    BY <2>1, <2>2
<1>12. AtMostOne'
  BY <1>4, <1>5 DEF Waits, AtMostOne
<1>13. AtLeastOne'
  <2>. SUFFICES ASSUME NEW q \in Conns, at'[q] \in {"reading", "kept", "hub"},
                       q \notin abandoned'
                PROVE  \E g \in Fds : Has(q, g)'
    BY DEF AtLeastOne
  <2>1. CASE q = r
    BY <2>1, <1>5
  <2>2. CASE q # r
    <3>1. PICK g \in Fds : Has(q, g)
      BY <2>2, <1>3 DEF Waits, AtLeastOne
    <3>2. g # fd
      BY <3>1, <1>9
    <3>. QED
      BY <3>1, <3>2, <1>5
  <2>. QED
    BY <2>1, <2>2
<1>14. Suspensions'
  <2>1. ASSUME NEW q \in suspended'
        PROVE  at'[q] = "hub" /\ (q \notin abandoned' => Has(q, q)')
    <3>1. q \in Conns /\ q \in Fds
      BY ContinuationAssumption
    <3>2. CASE q = r
      BY <3>2, <1>3, <1>5, <1>7
    <3>3. CASE q # r
      <4>1. q \in suspended /\ fd # q
        BY <3>1, <3>3 DEF Sockets
      <4>. QED
        BY <3>1, <3>3, <4>1, <1>3, <1>5 DEF Waits, Suspensions
    <3>. QED
      BY <3>2, <3>3
  <2>2. ASSUME NEW q \in abandoned' PROVE at'[q] \in {"reading", "kept", "hub"}
    <3>1. q \in Conns /\ q # r
      BY <1>7 DEF Holds
    <3>. QED
      BY <3>1, <1>3, <1>6, <1>8 DEF Waits, Suspensions
  <2>. QED
    BY <2>1, <2>2 DEF Suspensions
<1>. QED
  BY <1>11, <1>12, <1>13, <1>14 DEF Waits

\* a request that runs or is new has no registration, and its connection none
LEMMA NoneHasIt ==
  ASSUME Waits, NEW r \in Conns, at[r] \in {"running", "free"}
  PROVE  /\ \A q \in Conns : ~Has(q, r)
         /\ \A g \in Fds : ~Has(r, g)
         /\ Holds(r) = {} /\ r \notin suspended /\ r \notin abandoned
<1>1. \A g \in Fds : ~Has(r, g)
  BY DEF Waits, Holders
<1>2. \A q \in Conns : ~Has(q, r)
  BY <1>1, ContinuationAssumption DEF Waits, Holders, Sockets
<1>3. Holds(r) = {}
  BY <1>2 DEF Holds, Has
<1>4. r \notin suspended /\ r \notin abandoned
  BY DEF Waits, Suspensions
<1>. QED
  BY <1>1, <1>2, <1>3, <1>4

\* r runs or ends, and its connection, were it registered, would be no more
LEMMA Settles ==
  ASSUME Waits, Tables, NEW r \in Conns, at[r] \in {"running", "free"},
         \/ loop'.active = loop.active
         \/ loop'.active = [loop.active EXCEPT ![r] = FALSE],
         loop'.cb = loop.cb,
         NEW where \in {"running", "free"}, at' = [at EXCEPT ![r] = where],
         suspended \subseteq Conns, abandoned \subseteq Conns,
         UNCHANGED <<suspended, abandoned>>
  PROVE  Waits'
<1>1. \A q \in Conns : at'[q] = IF q = r THEN where ELSE at[q]
  BY DEF Tables
<1>2. /\ \A q \in Conns : ~Has(q, r)
      /\ \A g \in Fds : ~Has(r, g)
      /\ r \notin suspended /\ r \notin abandoned
  BY NoneHasIt
<1>3. \A q \in Conns, g \in Fds : Has(q, g)' <=> Has(q, g)
  <2>1. \A g \in Fds : g # r => loop'.active[g] = loop.active[g]
    BY DEF Tables
  <2>2. loop'.active[r] => loop.active[r]
    BY ContinuationAssumption DEF Tables
  <2>. QED
    BY <1>2, <2>1, <2>2 DEF Has
<1>4. Holders'
  BY <1>1, <1>2, <1>3 DEF Waits, Holders
<1>5. AtMostOne' /\ AtLeastOne'
  BY <1>1, <1>2, <1>3 DEF Waits, AtMostOne, AtLeastOne
<1>6. Suspensions'
  <2>1. \A q \in suspended : q \in Conns /\ q \in Fds /\ q # r
    BY <1>2, ContinuationAssumption
  <2>2. \A q \in abandoned : q \in Conns /\ q # r
    BY <1>2
  <2>. QED
    BY <2>1, <2>2, <1>1, <1>3 DEF Waits, Suspensions
<1>. QED
  BY <1>4, <1>5, <1>6 DEF Waits

\* a suspended request has a registration for its resumption: the one it
\* waited with, or a new one if that was cancelled
LEMMA Rearms ==
  ASSUME Waits, Tables, NEW r \in suspended, suspended \subseteq Conns,
         loop'.active = [loop.active EXCEPT ![r] = TRUE],
         loop'.cb = [loop.cb EXCEPT ![r] = Handler("trampoline", r)],
         suspended' = suspended \ {r}, abandoned' = abandoned \ {r}, at' = at,
         abandoned \subseteq Conns
  PROVE  Waits'
<1>. DEFINE h == Handler("trampoline", r)
<1>1. h.fn = "trampoline" /\ h.arg = r
  BY DEF Handler
<1>2. /\ r \in Conns /\ r \in Fds /\ at[r] = "hub"
      /\ r \notin abandoned => Has(r, r)
  BY ContinuationAssumption DEF Waits, Suspensions
<1>3. /\ \A g \in Fds : loop'.active[g] = IF g = r THEN TRUE ELSE loop.active[g]
      /\ \A g \in Fds : loop'.cb[g] = IF g = r THEN h ELSE loop.cb[g]
  BY DEF Tables
<1>. HIDE DEF h
<1>4. \A g \in Fds : Has(r, g) => g = r
  BY <1>2 DEF Waits, Holders, AtMostOne
<1>5. \A q \in Conns : Has(q, r) => q = r
  BY <1>2 DEF Waits, Holders, Sockets
<1>6. \A q \in Conns, g \in Fds : Has(q, g)' <=> IF g = r THEN q = r ELSE Has(q, g)
  BY <1>1, <1>3 DEF Has
<1>7. \A q \in Conns, g \in Fds : q # r => (Has(q, g)' <=> Has(q, g))
  BY <1>5, <1>6
<1>8. \A g \in Fds : Has(r, g)' <=> g = r
  BY <1>2, <1>4, <1>6
<1>9. Holders'
  <2>. SUFFICES ASSUME NEW q \in Conns, NEW g \in Fds, Has(q, g)'
                PROVE  /\ g \in Sockets \cup {q}
                       /\ q \notin abandoned'
                       /\ IF loop'.cb[g].fn = "read" THEN at'[q] \in {"reading", "kept"} /\ g = q
                                                   ELSE at'[q] = "hub"
    BY DEF Holders
  <2>1. CASE q = r
    BY <2>1, <1>1, <1>2, <1>3, <1>8
  <2>2. CASE q # r
    <3>1. Has(q, g) /\ g # r
      BY <2>2, <1>5, <1>7
    <3>. QED
      BY <3>1, <1>3 DEF Waits, Holders
  <2>. QED
    BY <2>1, <2>2
<1>10. AtMostOne'
  BY <1>7, <1>8 DEF Waits, AtMostOne
<1>11. AtLeastOne'
  BY <1>2, <1>7, <1>8 DEF Waits, AtLeastOne
<1>12. Suspensions'
  <2>1. \A q \in suspended' : q \in suspended /\ q \in Conns /\ q \in Fds /\ q # r
    BY ContinuationAssumption
  <2>2. \A q \in abandoned' : q \in abandoned
    OBVIOUS
  <2>3. \A q \in suspended' : q \notin abandoned' => q \notin abandoned
    BY <2>1
  <2>. QED
    BY <2>1, <2>2, <2>3, <1>7 DEF Waits, Suspensions
<1>. QED
  BY <1>9, <1>10, <1>11, <1>12 DEF Waits

\* a wait is cancelled; who waited is forgotten
LEMMA Cancels ==
  ASSUME Waits, Tables, NEW fd \in Fds,
         loop'.active = [loop.active EXCEPT ![fd] = FALSE], loop'.cb = loop.cb,
         suspended \subseteq Conns, abandoned \subseteq Conns,
         abandoned' = abandoned \cup Holds(fd), UNCHANGED <<at, suspended>>
  PROVE  Waits'
<1>1. \A g \in Fds : loop'.active[g] = IF g = fd THEN FALSE ELSE loop.active[g]
  BY DEF Tables
<1>2. \A q \in Conns, g \in Fds : Has(q, g)' <=> Has(q, g) /\ g # fd
  BY <1>1 DEF Has
<1>3. \A q \in Conns : q \in Holds(fd) <=> Has(q, fd)
  BY DEF Holds, Has
<1>4. \A q \in Conns : Has(q, fd) => at[q] \in {"reading", "kept", "hub"}
  BY DEF Waits, Holders
<1>5. Holders'
  BY <1>2, <1>3 DEF Waits, Holders, AtMostOne
<1>6. AtMostOne'
  BY <1>2 DEF Waits, AtMostOne
<1>7. AtLeastOne'
  BY <1>2, <1>3 DEF Waits, AtLeastOne
<1>8. Suspensions'
  <2>1. \A q \in suspended : q \in Conns /\ q \in Fds
    BY ContinuationAssumption
  <2>2. ASSUME NEW q \in suspended', q \notin abandoned' PROVE Has(q, q)'
    <3>1. q \in suspended /\ q \in Conns /\ q \in Fds /\ Has(q, q)
      BY <2>1, <2>2 DEF Waits, Suspensions
    <3>2. q # fd
      BY <2>2, <3>1, <1>3
    <3>. QED
      BY <3>1, <3>2, <1>2
  <2>3. \A q \in Holds(fd) : at[q] \in {"reading", "kept", "hub"}
    BY <1>3, <1>4 DEF Holds
  <2>. QED
    BY <2>2, <2>3 DEF Waits, Suspensions
<1>. QED
  BY <1>5, <1>6, <1>7, <1>8 DEF Waits

----------------------------------------------------------------------------
(* The count.                                                               *)

LEMMA CountsOneMore ==
  ASSUME Counted, Tables, NEW fd \in Fds,
         loop'.active = [loop.active EXCEPT ![fd] = TRUE],
         activecnt' = IF loop.active[fd] THEN activecnt ELSE activecnt + 1
  PROVE  Counted'
<1>1. Registered' = Registered \cup {fd}
  BY DEF Registered, Tables
<1>2. fd \in Registered <=> loop.active[fd]
  BY DEF Registered
<1>. QED
  BY <1>1, <1>2, FS_AddElement DEF Counted

LEMMA CountsOneLess ==
  ASSUME Counted, Tables, NEW fd \in Fds, loop.active[fd],
         loop'.active = [loop.active EXCEPT ![fd] = FALSE],
         activecnt' = activecnt - 1
  PROVE  Counted'
<1>1. Registered' = Registered \ {fd} /\ fd \in Registered
  BY DEF Registered, Tables
<1>. QED
  BY <1>1, FS_RemoveElement DEF Counted

LEMMA CountsAsMany ==
  ASSUME Counted, loop'.active = loop.active, activecnt' = activecnt
  PROVE  Counted'
BY DEF Counted, Registered

----------------------------------------------------------------------------
(* Types and the thread.                                                    *)

AtType == [Conns -> {"free", "reading", "kept", "running", "hub"}]

LEMMA SameState == P!LoopState = LoopState
BY DEF P!LoopState, LoopState, P!Slots, Slots, P!Words, Words, P!WordOf, WordOf,
       P!RW, RW, P!Unused, Unused

LEMMA CodeTypes ==
  ASSUME P!TypeOK, TypeOK, loop' \in LoopState, UNCHANGED pollVars,
         running' \in Fds \cup {Main, None}, ops' \in Nat, at' \in AtType,
         suspended' \subseteq Conns, closing' \subseteq Conns,
         abandoned' \subseteq Conns, resumed' \subseteq Conns,
         activecnt' \in Int, stale' \in BOOLEAN
  PROVE  P!TypeOK' /\ TypeOK'
<1>1. TypeOK'
  BY DEF TypeOK, AtType
<1>2. P!TypeOK'
  BY SameState DEF P!TypeOK, pollVars
<1>. QED
  BY <1>1, <1>2

LEMMA AtMoves ==
  ASSUME TypeOK, NEW r \in Conns,
         NEW where \in {"free", "reading", "kept", "running", "hub"}, Becomes(r, where)
  PROVE  at' \in AtType /\ \A q \in Conns : at'[q] = IF q = r THEN where ELSE at[q]
BY DEF TypeOK, Becomes, AtType

LEMMA ThreadWakes ==
  ASSUME TypeOK, Thread, NoneRuns, phase # "main", phase' = phase,
         running' # None, NEW r \in Conns, Becomes(r, "running")
  PROVE  Thread'
<1>1. \A q \in Conns : at'[q] = "running" <=> q = r
  BY AtMoves DEF NoneRuns
<1>. QED
  BY <1>1 DEF Thread, NoneRuns

LEMMA ThreadLeaves ==
  ASSUME Thread, phase # "main", phase' = phase, running' = None,
         \A q \in Conns : at'[q] # "running"
  PROVE  Thread'
BY ContinuationAssumption DEF Thread, NoneRuns

\* the request whose callback or code it was runs no more
LEMMA ThreadReturns ==
  ASSUME TypeOK, Thread, phase' = phase, running' = None, NEW r \in Conns,
         at[r] = "running" \/ (NoneRuns /\ phase # "main"),
         NEW where \in {"free", "reading", "kept", "hub"}, Becomes(r, where)
  PROVE  Thread'
<1>1. \A q \in Conns : at'[q] # "running"
  BY AtMoves DEF Thread, NoneRuns
<1>2. phase # "main"
  BY DEF Thread, NoneRuns
<1>. QED
  BY <1>1, <1>2, ThreadLeaves

\* a callback that begins has a registration, and r is who it is for
LEMMA Begins ==
  ASSUME WaitInv, NEW r \in Conns, NEW fd \in Fds, NEW fn, Called(fd, fn, r)
  PROVE  /\ Tables /\ loop \in LoopState /\ Has(r, fd) /\ loop.active[fd]
         /\ loop.cb[fd].fn = fn
         /\ fn = "read" => at[r] \in {"reading", "kept"} /\ fd = r /\ r \notin suspended
         /\ phase # "main" /\ phase' = phase /\ NoneRuns
         /\ UNCHANGED pollVars /\ stale' = stale
         /\ suspended \subseteq Conns /\ abandoned \subseteq Conns
<1>1. Tables /\ loop \in LoopState /\ suspended \subseteq Conns /\ abandoned \subseteq Conns
  BY TablesTyped DEF WaitInv, TypeOK
<1>2. running = fd /\ NoneRuns /\ ~stale /\ UNCHANGED <<pollVars, stale>>
      /\ loop.cb[fd] = Handler(fn, r)
  BY DEF Called
<1>3. loop.cb[fd].fn = fn /\ loop.cb[fd].arg = r
  BY <1>2 DEF Handler
<1>4. phase # "main" /\ phase' = phase
  BY <1>2, ContinuationAssumption DEF WaitInv, Thread, pollVars
<1>5. loop.active[fd] /\ Has(r, fd)
  BY <1>2, <1>3 DEF WaitInv, Thread, Has
<1>6. fn = "read" => at[r] \in {"reading", "kept"} /\ fd = r
  BY <1>3, <1>5 DEF WaitInv, Waits, Holders
<1>7. fn = "read" => r \notin suspended
  BY <1>6 DEF WaitInv, Waits, Suspensions
<1>. QED
  BY <1>1, <1>2, <1>3, <1>4, <1>5, <1>6, <1>7

----------------------------------------------------------------------------
(* The callbacks.                                                           *)

\* what a callback that deletes fd's registration, and with it ends the wait
\* of r, does to the invariant; the descriptor may be closed as well
LEMMA Deletes ==
  ASSUME WaitInv, NEW r \in Conns, NEW fd \in Fds, NEW fn, Called(fd, fn, r),
         loop' \in LoopState, loop'.cb = loop.cb,
         loop'.active = [loop.active EXCEPT ![fd] = FALSE],
         activecnt' = activecnt - 1,
         NEW where \in {"running", "free"}, Becomes(r, where),
         where = "free" => running' = None /\ ops' = 0,
         where = "running" => UNCHANGED <<running, ops>>,
         suspended' = suspended \ {r}, abandoned' = abandoned,
         closing' \subseteq Conns, resumed' \subseteq Conns
  PROVE  WaitInv'
<1>1. /\ Tables /\ loop.active[fd] /\ Has(r, fd) /\ phase # "main" /\ phase' = phase
      /\ NoneRuns /\ UNCHANGED pollVars /\ stale' = stale /\ running = fd
      /\ suspended \subseteq Conns /\ abandoned \subseteq Conns
  BY Begins DEF Called
<1>2. Waits'
  BY <1>1, Releases DEF WaitInv, Becomes
<1>3. Counted'
  BY <1>1, CountsOneLess DEF WaitInv
<1>4. Thread'
  <2>1. CASE where = "running"
    BY <1>1, <2>1, ContinuationAssumption, ThreadWakes DEF WaitInv
  <2>2. CASE where = "free"
    BY <1>1, <2>2, ThreadReturns DEF WaitInv
  <2>. QED
    BY <2>1, <2>2
<1>5. P!TypeOK' /\ TypeOK'
  <2>1. at' \in AtType
    BY AtMoves DEF WaitInv
  <2>2. running' \in Fds \cup {Main, None} /\ ops' \in Nat
    BY DEF WaitInv, P!TypeOK
  <2>3. activecnt' \in Int /\ stale' \in BOOLEAN
    BY <1>1 DEF WaitInv, TypeOK
  <2>. QED
    BY <1>1, <2>1, <2>2, <2>3, CodeTypes DEF WaitInv
<1>. QED
  BY <1>2, <1>3, <1>4, <1>5 DEF WaitInv

\* a callback after which the request waits on as before
LEMMA WaitsOn ==
  ASSUME WaitInv, NEW r \in Conns, NEW fn, Called(r, fn, r),
         loop' \in LoopState, loop'.active = loop.active, loop'.cb = loop.cb,
         Switch, UNCHANGED requestVars
  PROVE  WaitInv'
<1>1. /\ phase # "main" /\ phase' = phase /\ NoneRuns
      /\ UNCHANGED pollVars /\ stale' = stale
  BY Begins, ContinuationAssumption
<1>2. UNCHANGED <<at, suspended, closing, activecnt, abandoned, resumed>>
      /\ running' = None /\ ops' = 0
  BY DEF requestVars, Switch
<1>3. Waits'
  BY <1>2, Unmoved DEF WaitInv
<1>4. Counted'
  BY <1>2, CountsAsMany DEF WaitInv
<1>5. Thread'
  BY <1>1, <1>2, ThreadLeaves DEF WaitInv, NoneRuns
<1>6. P!TypeOK' /\ TypeOK'
  BY <1>1, <1>2, CodeTypes DEF WaitInv, TypeOK, AtType
<1>. QED
  BY <1>3, <1>4, <1>5, <1>6 DEF WaitInv

LEMMA SecsTyped == {KeepSecs, ReadSecs, SuspendSecs, AgainSecs} \subseteq Nat
BY ContinuationAssumption

LEMMA ReadTimeoutTable ==
  ASSUME NEW r \in Conns, loop \in LoopState
  PROVE  ReadTimeout(r) \in LoopState /\ SameTable(loop, ReadTimeout(r))
<1>1. r \in Fds /\ ReadSecs \in Nat
  BY ContinuationAssumption
<1>. QED
  BY <1>1, SetTimeoutType, SetTimeoutTable DEF ReadTimeout, SameTable

\* the deletion of a registration whose timeout was moved before
LEMMA DeletesOf ==
  ASSUME loop \in LoopState, NEW K \in LoopState, SameTable(loop, K), NEW fd \in Fds,
         loop' = PDel(K, fd)
  PROVE  /\ loop' \in LoopState /\ loop'.cb = loop.cb
         /\ loop'.active = [loop.active EXCEPT ![fd] = FALSE]
<1>1. K.active = loop.active /\ K.cb = loop.cb
  BY DEF SameTable
<1>2. loop' \in LoopState
  BY DelType
<1>3. loop'.cb = K.cb /\ loop'.active = [K.active EXCEPT ![fd] = FALSE]
  BY DelTable
<1>. QED
  BY <1>1, <1>2, <1>3

LEMMA ReadsKeep ==
  ASSUME WaitInv, NEW r \in Conns, ReadsPart(r) \/ ReadsAll(r) \/ ReadFails(r)
  PROVE  WaitInv'
<1>1. Called(r, "read", r) /\ r \in Fds
  BY ContinuationAssumption DEF ReadsPart, ReadsAll, ReadFails
<1>2. loop \in LoopState /\ loop.active[r] /\ r \notin suspended
  BY <1>1, Begins
<1>3. ReadTimeout(r) \in LoopState /\ SameTable(loop, ReadTimeout(r))
  BY <1>2, ReadTimeoutTable
<1>4. suspended = suspended \ {r}
  BY <1>2
<1>5. closing \subseteq Conns /\ resumed \subseteq Conns
  BY DEF WaitInv, TypeOK
<1>6. CASE ReadsPart(r)
  <2>1. loop' = ReadTimeout(r) /\ Switch /\ UNCHANGED requestVars
    BY <1>6 DEF ReadsPart
  <2>. QED
    BY <1>1, <1>3, <2>1, WaitsOn DEF SameTable
<1>7. CASE ReadsAll(r)
  <2>1. /\ loop' = PDel(ReadTimeout(r), r) /\ activecnt' = activecnt - 1
        /\ Becomes(r, "running")
        /\ UNCHANGED <<running, ops, suspended, closing, abandoned, resumed>>
    BY <1>7 DEF ReadsAll
  <2>2. /\ loop' \in LoopState /\ loop'.cb = loop.cb
        /\ loop'.active = [loop.active EXCEPT ![r] = FALSE]
    BY <1>1, <1>2, <1>3, <2>1, DeletesOf
  <2>. QED
    BY <1>1, <1>4, <1>5, <2>1, <2>2, Deletes
<1>8. CASE ReadFails(r)
  <2>1. /\ loop' = SysClose(PDel(loop, r), r) /\ activecnt' = activecnt - 1
        /\ Becomes(r, "free") /\ running' = None /\ ops' = 0
        /\ closing' = closing \ {r} /\ UNCHANGED <<suspended, abandoned, resumed>>
    BY <1>2, <1>8 DEF ReadFails, CloseClient, Switch
  <2>2. PDel(loop, r) \in LoopState /\ PDel(loop, r).cb = loop.cb
        /\ PDel(loop, r).active = [loop.active EXCEPT ![r] = FALSE]
    BY <1>1, <1>2, DelType, DelTable
  <2>3. /\ loop' \in LoopState /\ loop'.cb = loop.cb
        /\ loop'.active = [loop.active EXCEPT ![r] = FALSE]
    BY <1>1, <2>1, <2>2, CloseType
  <2>. QED
    BY <1>1, <1>4, <1>5, <2>1, <2>3, Deletes
<1>. QED
  BY <1>6, <1>7, <1>8

LEMMA DropTable ==
  ASSUME loop \in LoopState, NEW fd \in Fds, Drop(fd)
  PROVE  /\ loop' \in LoopState /\ loop'.cb = loop.cb
         /\ loop'.active = [loop.active EXCEPT ![fd] = FALSE]
         /\ activecnt' = activecnt - 1
BY DelType, DelTable DEF Drop

LEMMA WakingsKeep ==
  ASSUME WaitInv, NEW r \in Conns,
         \/ TimeoutErrorCallback(r) \/ TimeoutCallbackFails(r)
         \/ \E fd \in Sockets \cup {r} : TrampolineCallback(fd, r)
  PROVE  WaitInv'
<1>1. loop \in LoopState /\ r \in Fds /\ closing \subseteq Conns /\ resumed \subseteq Conns
  BY ContinuationAssumption DEF WaitInv, TypeOK
<1>2. ASSUME Wakes(r)
      PROVE  /\ Becomes(r, "running") /\ suspended' = suspended \ {r}
             /\ UNCHANGED <<running, ops, abandoned>> /\ resumed' \subseteq Conns
  BY <1>1, <1>2 DEF Wakes
<1>3. CASE TimeoutErrorCallback(r)
  <2>1. Called(r, "timeout_error", r) /\ Drop(r) /\ Wakes(r) /\ closing' = closing
    BY <1>3 DEF TimeoutErrorCallback
  <2>. QED
    BY <1>1, <1>2, <2>1, DropTable, Deletes
<1>4. CASE TimeoutCallbackFails(r)
  <2>1. /\ Called(r, "timeout", r) /\ Wakes(r) /\ closing' = closing
        /\ loop' = PDel(PSetTimeout(loop, r, AgainSecs), r)
        /\ activecnt' = activecnt - 1
    BY <1>4 DEF TimeoutCallbackFails
  <2>2. PSetTimeout(loop, r, AgainSecs) \in LoopState
        /\ SameTable(loop, PSetTimeout(loop, r, AgainSecs))
    BY <1>1, SecsTyped, SetTimeoutType, SetTimeoutTable
  <2>3. /\ loop' \in LoopState /\ loop'.cb = loop.cb
        /\ loop'.active = [loop.active EXCEPT ![r] = FALSE]
    BY <1>1, <2>1, <2>2, DeletesOf
  <2>. QED
    BY <1>1, <1>2, <2>1, <2>3, Deletes
<1>5. ASSUME NEW fd \in Sockets \cup {r}, TrampolineCallback(fd, r) PROVE WaitInv'
  <2>1. fd \in Fds
    BY <1>1 DEF Sockets
  <2>2. Called(fd, "trampoline", r) /\ Drop(fd) /\ Wakes(r) /\ closing' \subseteq Conns
    BY <1>1, <1>5 DEF TrampolineCallback
  <2>. QED
    BY <1>1, <1>2, <2>1, <2>2, DropTable, Deletes
<1>. QED
  BY <1>3, <1>4, <1>5

LEMMA TimeoutKeeps ==
  ASSUME WaitInv, NEW r \in Conns, TimeoutCallback(r)
  PROVE  WaitInv'
<1>1. loop \in LoopState /\ r \in Fds
  BY ContinuationAssumption DEF WaitInv, TypeOK
<1>2. /\ Called(r, "timeout", r) /\ loop' = PSetTimeout(loop, r, AgainSecs)
      /\ Switch /\ UNCHANGED requestVars
  BY DEF TimeoutCallback
<1>3. loop' \in LoopState /\ SameTable(loop, loop')
  BY <1>1, <1>2, SecsTyped, SetTimeoutType, SetTimeoutTable
<1>. QED
  BY <1>2, <1>3, WaitsOn DEF SameTable

LEMMA CallbackKeeps ==
  ASSUME WaitInv, Callback
  PROVE  WaitInv'
BY ReadsKeep, WakingsKeep, TimeoutKeeps DEF Callback

----------------------------------------------------------------------------
(* Accepting, waiting, resuming and finishing.                              *)

Fns == {"read", "trampoline", "timeout", "timeout_error"}

LEMMA HandlersTyped ==
  ASSUME NEW r \in Conns, NEW fn \in Fns
  PROVE  Handler(fn, r) \in Callbacks /\ r \in Fds
BY ContinuationAssumption DEF Handlers, Handler, Fns

LEMMA AwaitTable ==
  ASSUME loop \in LoopState, NEW fd \in Fds, NEW evs \in SUBSET RW, NEW secs \in Nat,
         NEW r \in Conns, NEW fn \in Fns, Await(fd, evs, secs, Handler(fn, r))
  PROVE  /\ loop' \in LoopState
         /\ loop'.active = [loop.active EXCEPT ![fd] = TRUE]
         /\ loop'.cb = [loop.cb EXCEPT ![fd] = Handler(fn, r)]
         /\ activecnt' = IF loop.active[fd] THEN activecnt ELSE activecnt + 1
<1>. DEFINE h == Handler(fn, r)
<1>1. h \in Callbacks
  BY HandlersTyped
<1>2. /\ loop' = PAdd(loop, fd, evs, secs, h)
      /\ activecnt' = IF loop.active[fd] THEN activecnt ELSE activecnt + 1
  BY DEF Await
<1>. HIDE DEF h
<1>3. loop' \in LoopState
  BY <1>1, <1>2, AddType
<1>4. /\ loop'.active = [loop.active EXCEPT ![fd] = TRUE]
      /\ loop'.cb = [loop.cb EXCEPT ![fd] = h]
  <2>1. Adds(loop, loop', fd, evs, h)
    BY <1>1, <1>2, AddTable
  <2>. QED
    BY <2>1 DEF Adds
<1>. QED
  BY <1>2, <1>3, <1>4 DEF h

\* r, which is new or runs, begins to wait for fd and leaves the thread
LEMMA Awaits ==
  ASSUME WaitInv, NEW r \in Conns, at[r] \in {"running", "free"},
         at[r] = "free" => NoneRuns /\ phase # "main",
         NEW fd \in Sockets \cup {r}, NEW fn \in Fns,
         NEW where \in {"reading", "kept", "hub"},
         IF fn = "read" THEN where \in {"reading", "kept"} /\ fd = r ELSE where = "hub",
         Becomes(r, where), loop' \in LoopState,
         loop'.active = [loop.active EXCEPT ![fd] = TRUE],
         loop'.cb = [loop.cb EXCEPT ![fd] = Handler(fn, r)],
         activecnt' = IF loop.active[fd] THEN activecnt ELSE activecnt + 1,
         \/ suspended' = suspended
         \/ suspended' = suspended \cup {r} /\ fd = r /\ where = "hub",
         abandoned' = abandoned \cup Holds(fd),
         running' = None, ops' \in Nat, closing' \subseteq Conns,
         UNCHANGED <<resumed, pollVars, stale>>
  PROVE  WaitInv'
<1>1. /\ Tables /\ fd \in Fds /\ phase' = phase
      /\ suspended \subseteq Conns /\ abandoned \subseteq Conns
  BY TablesTyped, ContinuationAssumption DEF WaitInv, TypeOK, Sockets, pollVars
<1>2. Waits'
  BY <1>1, Registers DEF WaitInv, Becomes
<1>3. Counted'
  BY <1>1, CountsOneMore DEF WaitInv
<1>4. Thread'
  BY <1>1, ThreadReturns DEF WaitInv
<1>5. P!TypeOK' /\ TypeOK'
  <2>1. at' \in AtType
    BY AtMoves DEF WaitInv
  <2>2. activecnt' \in Int
    BY DEF WaitInv, TypeOK
  <2>3. suspended' \subseteq Conns /\ abandoned' \subseteq Conns
    BY <1>1 DEF Holds
  <2>4. resumed' \subseteq Conns /\ stale' \in BOOLEAN
    BY DEF WaitInv, TypeOK
  <2>. QED
    BY <2>1, <2>2, <2>3, <2>4, CodeTypes DEF WaitInv
<1>. QED
  BY <1>2, <1>3, <1>4, <1>5 DEF WaitInv

LEMMA AcceptsKeep ==
  ASSUME WaitInv, NEW r \in Conns, AcceptReading(r) \/ AcceptRunning(r)
  PROVE  WaitInv'
<1>1. /\ phase = "deliver" /\ running = None /\ at[r] = "free" /\ phase' = phase
      /\ UNCHANGED <<ops, suspended, closing, abandoned, resumed, pollVars, stale>>
  BY DEF AcceptReading, AcceptRunning, Accepts, pollVars
<1>2. /\ NoneRuns /\ Holds(r) = {} /\ loop \in LoopState /\ Tables
      /\ suspended \subseteq Conns /\ abandoned \subseteq Conns
      /\ closing \subseteq Conns /\ resumed \subseteq Conns /\ ops \in Nat
      /\ activecnt \in Int /\ stale \in BOOLEAN
  BY <1>1, NoneHasIt, TablesTyped DEF WaitInv, Thread, TypeOK, P!TypeOK
<1>3. CASE AcceptReading(r)
  <2>1. Await(r, {"READ"}, KeepSecs, Handler("read", r)) /\ Becomes(r, "reading")
        /\ running' = running
    BY <1>3 DEF AcceptReading
  <2>2. r \in Fds /\ "read" \in Fns /\ {"READ"} \in SUBSET RW
    BY ContinuationAssumption DEF Fns, RW
  <2>3. /\ loop' \in LoopState
        /\ loop'.active = [loop.active EXCEPT ![r] = TRUE]
        /\ loop'.cb = [loop.cb EXCEPT ![r] = Handler("read", r)]
        /\ activecnt' = IF loop.active[r] THEN activecnt ELSE activecnt + 1
    BY <1>2, <2>1, <2>2, SecsTyped, AwaitTable
  <2>4. abandoned' = abandoned \cup Holds(r)
    BY <1>1, <1>2
  <2>. QED
    BY <1>1, <1>2, <2>1, <2>2, <2>3, <2>4, Awaits
<1>4. CASE AcceptRunning(r)
  <2>1. Becomes(r, "running") /\ running' = Main /\ UNCHANGED <<loop, activecnt>>
    BY <1>4 DEF AcceptRunning
  <2>2. Waits'
    BY <1>1, <1>2, <2>1, Settles DEF WaitInv, Becomes
  <2>3. Counted'
    BY <2>1, CountsAsMany DEF WaitInv
  <2>4. Thread'
    BY <1>1, <1>2, <2>1, ContinuationAssumption, ThreadWakes DEF WaitInv
  <2>5. P!TypeOK' /\ TypeOK'
    BY <1>1, <1>2, <2>1, AtMoves, CodeTypes DEF WaitInv
  <2>. QED
    BY <2>2, <2>3, <2>4, <2>5 DEF WaitInv
<1>. QED
  BY <1>3, <1>4

LEMMA SuspendKeeps ==
  ASSUME WaitInv, NEW r \in Conns, NEW secs \in SuspendChoices, Suspend(r, secs)
  PROVE  WaitInv'
<1>1. /\ at[r] = "running" /\ Becomes(r, "hub") /\ running' = None /\ ops' = 0
      /\ UNCHANGED <<closing, resumed, pollVars, stale, abandoned>>
      /\ suspended' = suspended \cup {r}
  BY DEF Suspend, ToHub, Switch
<1>2. PICK s \in Nat, fn \in Fns \ {"read"} : Await(r, {}, s, Handler(fn, r))
  BY SecsTyped, ContinuationAssumption DEF Suspend, Fns
<1>3. Holds(r) = {} /\ loop \in LoopState /\ closing \subseteq Conns
  BY <1>1, NoneHasIt DEF WaitInv, TypeOK
<1>4. r \in Fds /\ {} \in SUBSET RW /\ fn \in Fns
  BY ContinuationAssumption, <1>2
<1>5. /\ loop' \in LoopState
      /\ loop'.active = [loop.active EXCEPT ![r] = TRUE]
      /\ loop'.cb = [loop.cb EXCEPT ![r] = Handler(fn, r)]
      /\ activecnt' = IF loop.active[r] THEN activecnt ELSE activecnt + 1
  BY <1>2, <1>3, <1>4, AwaitTable
<1>6. abandoned' = abandoned \cup Holds(r)
  BY <1>1, <1>3
<1>. QED
  BY <1>1, <1>2, <1>3, <1>5, <1>6, Awaits

LEMMA TrampolineKeeps ==
  ASSUME WaitInv, NEW r \in Conns, NEW fd \in Sockets \cup {r},
         NEW w \in WaitChoices, Trampoline(r, fd, w[1], w[2])
  PROVE  WaitInv'
<1>1. /\ at[r] = "running" /\ Becomes(r, "hub") /\ running' = None /\ ops' = 0
      /\ UNCHANGED <<closing, resumed, pollVars, stale, suspended>>
      /\ Await(fd, w[1], w[2], Handler("trampoline", r))
      /\ abandoned' = abandoned \cup Holds(fd)
  BY DEF Trampoline, ToHub, Switch
<1>2. w[1] \in SUBSET RW /\ w[2] \in Nat /\ fd \in Fds /\ "trampoline" \in Fns
  BY ContinuationAssumption DEF Sockets, Fns
<1>3. loop \in LoopState /\ closing \subseteq Conns
  BY DEF WaitInv, TypeOK
<1>4. /\ loop' \in LoopState
      /\ loop'.active = [loop.active EXCEPT ![fd] = TRUE]
      /\ loop'.cb = [loop.cb EXCEPT ![fd] = Handler("trampoline", r)]
      /\ activecnt' = IF loop.active[fd] THEN activecnt ELSE activecnt + 1
  BY <1>1, <1>2, <1>3, AwaitTable
<1>. QED
  BY <1>1, <1>2, <1>3, <1>4, Awaits

LEMMA FinishKeeps ==
  ASSUME WaitInv, NEW r \in Conns, NEW keep \in BOOLEAN, Finish(r, keep)
  PROVE  WaitInv'
<1>. DEFINE L == IF loop.active[r] THEN PDel(loop, r) ELSE loop
            c == IF loop.active[r] THEN activecnt - 1 ELSE activecnt
<1>1. /\ at[r] = "running" /\ running' = None /\ ops' = 0 /\ closing' = closing \ {r}
      /\ UNCHANGED <<pollVars, stale, suspended, abandoned, resumed>>
      /\ keep => /\ loop' = PAdd(L, r, {"READ"}, KeepSecs, Handler("read", r))
                 /\ activecnt' = c + 1 /\ Becomes(r, "kept")
      /\ ~keep => loop' = SysClose(L, r) /\ activecnt' = c /\ Becomes(r, "free")
  BY DEF Finish, CloseClient, Switch
<1>2. /\ Holds(r) = {} /\ loop \in LoopState /\ Tables /\ r \in Fds
      /\ suspended \subseteq Conns /\ abandoned \subseteq Conns
      /\ closing' \subseteq Conns /\ resumed \subseteq Conns
      /\ activecnt \in Int /\ stale \in BOOLEAN
  BY <1>1, NoneHasIt, TablesTyped, ContinuationAssumption DEF WaitInv, TypeOK
<1>3. /\ L \in LoopState /\ L.cb = loop.cb
      /\ \/ loop.active[r] /\ L.active = [loop.active EXCEPT ![r] = FALSE]
         \/ ~loop.active[r] /\ L.active = loop.active
  BY <1>2, DelType, DelTable
<1>. HIDE DEF L
<1>4. CASE keep
  <2>1. "read" \in Fns /\ {"READ"} \in SUBSET RW /\ KeepSecs \in Nat
    BY SecsTyped DEF Fns, RW
  <2>2. /\ loop' \in LoopState
        /\ loop'.active = [L.active EXCEPT ![r] = TRUE]
        /\ loop'.cb = [L.cb EXCEPT ![r] = Handler("read", r)]
    <3>. DEFINE h == Handler("read", r)
    <3>1. h \in Callbacks /\ loop' = PAdd(L, r, {"READ"}, KeepSecs, h)
      BY <1>1, <1>4, <2>1, HandlersTyped
    <3>. HIDE DEF h
    <3>2. loop' \in LoopState
      BY <1>2, <1>3, <2>1, <3>1, AddType
    <3>3. /\ loop'.active = [L.active EXCEPT ![r] = TRUE]
          /\ loop'.cb = [L.cb EXCEPT ![r] = h]
      <4>1. Adds(L, loop', r, {"READ"}, h)
        BY <1>2, <1>3, <2>1, <3>1, AddTable
      <4>. QED
        BY <4>1 DEF Adds
    <3>. QED
      BY <3>2, <3>3 DEF h
  <2>3. loop'.active = [loop.active EXCEPT ![r] = TRUE]
    BY <1>2, <1>3, <2>2 DEF Tables
  <2>4. activecnt' = IF loop.active[r] THEN activecnt ELSE activecnt + 1
    BY <1>1, <1>2, <1>4
  <2>5. abandoned' = abandoned \cup Holds(r)
    BY <1>1, <1>2
  <2>6. Becomes(r, "kept") /\ loop'.cb = [loop.cb EXCEPT ![r] = Handler("read", r)]
    BY <1>1, <1>3, <1>4, <2>2
  <2>. QED
    BY <1>1, <1>2, <2>1, <2>2, <2>3, <2>4, <2>5, <2>6, Awaits
<1>5. CASE ~keep
  <2>1. /\ loop' = SysClose(L, r) /\ activecnt' = c /\ Becomes(r, "free")
    BY <1>1, <1>5
  <2>2. loop' \in LoopState /\ loop'.active = L.active /\ loop'.cb = loop.cb
    BY <1>2, <1>3, <2>1, CloseType
  <2>3. Waits'
    BY <1>1, <1>2, <1>3, <2>1, <2>2, Settles DEF WaitInv, Becomes
  <2>4. Counted'
    BY <1>2, <1>3, <2>1, <2>2, CountsOneLess, CountsAsMany DEF WaitInv
  <2>5. Thread'
    BY <1>1, <2>1, ThreadReturns DEF WaitInv, pollVars
  <2>6. P!TypeOK' /\ TypeOK'
    <3>1. at' \in AtType
      BY <2>1, AtMoves DEF WaitInv
    <3>2. activecnt' \in Int
      BY <1>2, <2>1
    <3>. QED
      BY <1>1, <1>2, <2>2, <3>1, <3>2, CodeTypes DEF WaitInv
  <2>. QED
    BY <2>3, <2>4, <2>5, <2>6 DEF WaitInv
<1>. QED
  BY <1>4, <1>5

\* code that goes on running
LEMMA CodeRuns ==
  ASSUME WaitInv, InCode, at' = at
  PROVE  Thread' /\ UNCHANGED <<running, closing, pollVars, stale>> /\ ops' \in Nat
<1>1. /\ \/ \E r \in Conns : at[r] = "running"
         \/ running = Main
      /\ UNCHANGED <<running, closing, pollVars, stale>> /\ ops' = ops + 1
  BY DEF InCode
<1>2. ops' \in Nat
  BY <1>1 DEF WaitInv, P!TypeOK
<1>3. ~NoneRuns \/ running \notin Fds
  BY <1>1, ContinuationAssumption DEF NoneRuns
<1>4. Thread'
  BY <1>1, <1>3 DEF WaitInv, Thread, NoneRuns, pollVars
<1>. QED
  BY <1>1, <1>2, <1>4

LEMMA ResumeKeeps ==
  ASSUME WaitInv, NEW r \in Conns, Resume(r)
  PROVE  WaitInv'
<1>1. /\ InCode /\ r \in suspended /\ at' = at /\ abandoned' = abandoned \ {r}
      /\ suspended' = suspended \ {r} /\ resumed' = resumed \cup {r}
      /\ Await(r, {"WRITE"}, 0, Handler("trampoline", r))
  BY DEF Resume
<1>2. /\ loop \in LoopState /\ Tables /\ r \in Fds
      /\ suspended \subseteq Conns /\ abandoned \subseteq Conns
      /\ closing \subseteq Conns /\ resumed \subseteq Conns
      /\ activecnt \in Int /\ stale \in BOOLEAN /\ at \in AtType
      /\ running \in Fds \cup {Main, None}
  BY TablesTyped, ContinuationAssumption DEF WaitInv, TypeOK, P!TypeOK, AtType
<1>3. {"WRITE"} \in SUBSET RW /\ "trampoline" \in Fns
  BY DEF Fns, RW
<1>4. /\ loop' \in LoopState
      /\ loop'.active = [loop.active EXCEPT ![r] = TRUE]
      /\ loop'.cb = [loop.cb EXCEPT ![r] = Handler("trampoline", r)]
      /\ activecnt' = IF loop.active[r] THEN activecnt ELSE activecnt + 1
  BY <1>1, <1>2, <1>3, AwaitTable
<1>5. Waits'
  BY <1>1, <1>2, <1>4, Rearms DEF WaitInv
<1>6. Counted'
  BY <1>2, <1>4, CountsOneMore DEF WaitInv
<1>7. Thread' /\ UNCHANGED <<running, closing, pollVars, stale>> /\ ops' \in Nat
  BY <1>1, CodeRuns
<1>8. P!TypeOK' /\ TypeOK'
  <2>1. /\ activecnt' \in Int /\ suspended' \subseteq Conns /\ resumed' \subseteq Conns
        /\ abandoned' \subseteq Conns /\ at' \in AtType
    BY <1>1, <1>2, <1>4
  <2>. QED
    BY <1>2, <1>4, <1>7, <2>1, CodeTypes DEF WaitInv
<1>. QED
  BY <1>5, <1>6, <1>7, <1>8 DEF WaitInv

LEMMA CancelKeeps ==
  ASSUME WaitInv, NEW fd \in Fds, CancelWait(fd)
  PROVE  WaitInv'
<1>1. /\ InCode /\ loop.active[fd] /\ Drop(fd)
      /\ abandoned' = abandoned \cup Holds(fd) /\ resumed' = resumed \ Holds(fd)
      /\ UNCHANGED <<at, suspended>>
  BY DEF CancelWait
<1>2. /\ loop \in LoopState /\ Tables /\ fd \in Fds
      /\ suspended \subseteq Conns /\ abandoned \subseteq Conns
      /\ closing \subseteq Conns /\ resumed \subseteq Conns
      /\ activecnt \in Int /\ stale \in BOOLEAN /\ at \in AtType
      /\ running \in Fds \cup {Main, None}
  BY TablesTyped DEF WaitInv, TypeOK, P!TypeOK, AtType
<1>3. /\ loop' \in LoopState /\ loop'.cb = loop.cb
      /\ loop'.active = [loop.active EXCEPT ![fd] = FALSE]
      /\ activecnt' = activecnt - 1
  BY <1>1, <1>2, DropTable
<1>4. Waits'
  BY <1>1, <1>2, <1>3, Cancels DEF WaitInv
<1>5. Counted'
  BY <1>1, <1>2, <1>3, CountsOneLess DEF WaitInv
<1>6. Thread' /\ UNCHANGED <<running, closing, pollVars, stale>> /\ ops' \in Nat
  BY <1>1, CodeRuns
<1>7. P!TypeOK' /\ TypeOK'
  <2>1. /\ activecnt' \in Int /\ abandoned' \subseteq Conns /\ at' \in AtType
        /\ resumed' \subseteq Conns
    BY <1>1, <1>2, <1>3 DEF Holds
  <2>. QED
    BY <1>1, <1>2, <1>3, <1>6, <2>1, CodeTypes DEF WaitInv
<1>. QED
  BY <1>4, <1>5, <1>6, <1>7 DEF WaitInv

----------------------------------------------------------------------------
(* The loop itself: it moves the wheel and the thread, and touches neither  *)
(* the registrations nor the requests.                                      *)

SameRegistrations == loop'.active = loop.active /\ loop'.cb = loop.cb

LEMMA PollTypes ==
  ASSUME P!TypeOK, P!Poll
  PROVE  P!TypeOK' /\ SameRegistrations
<1>. USE DEF P!TypeOK, SameRegistrations
<1>1. CASE P!EpollWait
  BY <1>1, ContinuationAssumption DEF P!EpollWait, P!Waited, P!scanVars
<1>2. CASE P!EpollWaitFails
  BY <1>2 DEF P!EpollWaitFails
<1>3. ASSUME NEW fd \in batch,
             P!Deliver(fd) \/ P!DeliverNothing(fd) \/ P!DropStaleEvent(fd)
      PROVE  P!TypeOK' /\ SameRegistrations
  <2>1. loop' \in P!LoopState /\ SameRegistrations
    BY <1>3 DEF P!Deliver, P!DeliverNothing, P!DropStaleEvent, P!LoopState
  <2>. QED
    BY <1>3, <2>1
       DEF P!Deliver, P!DeliverNothing, P!DropStaleEvent, P!Delivering, P!scanVars
<1>4. CASE P!StartScan
  <2>1. loop' \in P!LoopState /\ SameRegistrations
    BY <1>4 DEF P!StartScan, P!LoopState
  <2>. QED
    BY <1>4, <2>1 DEF P!StartScan
<1>. QED
  BY <1>1, <1>2, <1>3, <1>4 DEF P!Poll

LEMMA ClearTypes ==
  ASSUME NEW L \in P!LoopState, NEW j, NEW i
  PROVE  /\ P!ClearWord(L, j) \in P!LoopState /\ P!ClearGroup(L, i) \in P!LoopState
         /\ P!ClearWord(L, j).active = L.active /\ P!ClearWord(L, j).cb = L.cb
         /\ P!ClearGroup(L, i).active = L.active /\ P!ClearGroup(L, i).cb = L.cb
BY DEF P!ClearWord, P!ClearGroup, P!LoopState

LEMMA ScanTypes ==
  ASSUME P!TypeOK, P!Scan
  PROVE  P!TypeOK' /\ SameRegistrations
<1>. USE DEF P!TypeOK, SameRegistrations
<1>1. ASSUME NEW i \in groups, P!EnterGroup(i) PROVE P!TypeOK' /\ SameRegistrations
  BY <1>1 DEF P!EnterGroup, P!Scanning, P!LoopState
<1>2. ASSUME NEW j \in vv, P!EnterWord(j) PROVE P!TypeOK' /\ SameRegistrations
  BY <1>2 DEF P!EnterWord, P!Scanning, P!LoopState
<1>3. ASSUME NEW j \in vv, P!LeaveWord(j) PROVE P!TypeOK' /\ SameRegistrations
  <2>1. loop' \in P!LoopState /\ SameRegistrations
    BY <1>3, ClearTypes DEF P!LeaveWord
  <2>. QED
    BY <1>3, <2>1 DEF P!LeaveWord, P!Scanning
<1>4. ASSUME NEW fd \in bits, P!Fire(fd) PROVE P!TypeOK' /\ SameRegistrations
  <2>1. loop' \in P!LoopState /\ SameRegistrations
    BY <1>4 DEF P!Fire, P!LoopState, P!Unused
  <2>. QED
    BY <1>4, <2>1 DEF P!Fire, P!Scanning
<1>5. CASE P!NextSlot
  <2>1. (loop.base_idx + 1) % VecSize \in P!Slots
    BY ModRange, PicoevAssumption DEF P!LoopState, P!Slots
  <2>2. ASSUME NEW k \in P!Slots, NEW t \in Nat
        PROVE  LET M == [loop EXCEPT !.base_idx = k, !.base_time = t]
               IN  M \in P!LoopState /\ M.active = loop.active /\ M.cb = loop.cb
    BY DEF P!LoopState
  <2>3. loop.base_time + 1 \in Nat
    BY DEF P!LoopState
  <2>4. loop' \in P!LoopState /\ SameRegistrations
    BY <1>5, <2>1, <2>2, <2>3 DEF P!NextSlot, P!Resolution
  <2>. QED
    BY <1>5, <2>4 DEF P!NextSlot, P!Scanning
<1>6. CASE P!EndScan
  BY <1>6 DEF P!EndScan, P!Scanning
<1>. QED
  BY <1>1, <1>2, <1>3, <1>4, <1>5, <1>6 DEF P!Scan

\* a step of picoev that calls a callback, or that returns to the main loop
LEMMA ThreadMoves ==
  ASSUME Thread, at' = at, SameRegistrations,
         \/ running' = running /\ (phase' = "main" => phase = "main") /\ ~stale
         \/ NoneRuns /\ phase' = "main" /\ running' = Main
         \/ NoneRuns /\ phase' # "main" /\ running' = None
         \/ /\ NoneRuns /\ phase' # "main" /\ running' \in Fds
            /\ stale' \/ loop.active[running']
  PROVE  Thread'
BY ContinuationAssumption DEF Thread, NoneRuns, SameRegistrations

LEMMA PollKeeps ==
  ASSUME WaitInv, Poll
  PROVE  WaitInv'
<1>1. ~stale /\ P!Poll /\ UNCHANGED <<at, suspended, closing, activecnt, abandoned, resumed>>
      /\ stale' = stale
  BY DEF Poll, requestVars
<1>2. P!TypeOK' /\ SameRegistrations
  BY <1>1, PollTypes DEF WaitInv
<1>3. Waits' /\ Counted'
  BY <1>1, <1>2, Unmoved, CountsAsMany DEF WaitInv, SameRegistrations
<1>4. TypeOK'
  <2>1. loop' \in LoopState
    BY <1>2, SameState DEF P!TypeOK
  <2>. QED
    BY <1>1, <2>1 DEF WaitInv, TypeOK
<1>5. Thread'
  <2>1. CASE P!EpollWait
    <3>1. NoneRuns /\ phase' = "deliver" /\ running' = None
      BY <2>1 DEF P!EpollWait, P!Waited, WaitInv, Thread
    <3>. QED
      BY <1>1, <1>2, <3>1, ThreadMoves DEF WaitInv
  <2>2. CASE P!EpollWaitFails
    BY <2>2 DEF P!EpollWaitFails
  <2>3. ASSUME NEW fd \in batch, P!Deliver(fd) PROVE Thread'
    <3>1. /\ fd \in Fds /\ phase = "deliver" /\ phase' = phase /\ running = None
          /\ running' = fd /\ loop.active[fd]
      BY <2>3 DEF P!Deliver, P!Delivering, P!Deliverable, WaitInv, P!TypeOK
    <3>2. NoneRuns
      BY <3>1 DEF WaitInv, Thread
    <3>. QED
      BY <1>1, <1>2, <3>1, <3>2, ThreadMoves DEF WaitInv
  <2>4. ASSUME NEW fd \in batch, P!DeliverNothing(fd) \/ P!DropStaleEvent(fd) PROVE Thread'
    <3>1. phase' = phase /\ running' = running
      BY <2>4 DEF P!DeliverNothing, P!DropStaleEvent, P!Delivering
    <3>. QED
      BY <1>1, <1>2, <3>1, ThreadMoves DEF WaitInv
  <2>5. CASE P!StartScan
    <3>1. NoneRuns /\ phase' = "scan" /\ running' = None
      BY <2>5 DEF P!StartScan, WaitInv, Thread
    <3>. QED
      BY <1>1, <1>2, <3>1, ThreadMoves DEF WaitInv
  <2>. QED
    BY <1>1, <2>1, <2>2, <2>3, <2>4, <2>5 DEF P!Poll
<1>. QED
  BY <1>2, <1>3, <1>4, <1>5 DEF WaitInv

LEMMA ScanKeeps ==
  ASSUME WaitInv, Scan
  PROVE  WaitInv'
<1>1. ~stale /\ P!Scan /\ UNCHANGED <<at, suspended, closing, activecnt, abandoned, resumed>>
      /\ stale' = FiresStale
  BY DEF Scan, requestVars
<1>2. P!TypeOK' /\ SameRegistrations
  BY <1>1, ScanTypes DEF WaitInv
<1>3. Waits' /\ Counted'
  BY <1>1, <1>2, Unmoved, CountsAsMany DEF WaitInv, SameRegistrations
<1>4. TypeOK'
  <2>1. loop' \in LoopState
    BY <1>2, SameState DEF P!TypeOK
  <2>2. stale' \in BOOLEAN
    BY <1>1 DEF FiresStale
  <2>. QED
    BY <1>1, <2>1, <2>2 DEF WaitInv, TypeOK
<1>5. Thread'
  <2>1. /\ \A i \in groups : P!EnterGroup(i) => phase' = phase /\ running' = running
        /\ \A j \in vv : P!EnterWord(j) \/ P!LeaveWord(j) => phase' = phase /\ running' = running
        /\ P!NextSlot => phase' = phase /\ running' = running
    BY DEF P!EnterGroup, P!EnterWord, P!LeaveWord, P!NextSlot
  <2>2. ASSUME phase' = phase, running' = running PROVE Thread'
    BY <1>1, <1>2, <2>2, ThreadMoves DEF WaitInv
  <2>3. ASSUME NEW fd \in bits, P!Fire(fd) PROVE Thread'
    <3>1. /\ fd \in Fds /\ phase = "scan" /\ phase' = phase /\ running = None
          /\ running' = fd /\ bits' = bits \ {fd}
      BY <2>3 DEF P!Fire, P!Scanning, WaitInv, P!TypeOK
    <3>2. NoneRuns
      BY <3>1 DEF WaitInv, Thread
    <3>3. stale' \/ loop.active[fd]
      BY <1>1, <2>3, <3>1 DEF FiresStale
    <3>. QED
      BY <1>1, <1>2, <3>1, <3>2, <3>3, ThreadMoves DEF WaitInv
  <2>4. CASE P!EndScan
    <3>1. NoneRuns /\ phase' = "main" /\ running' = Main
      BY <2>4 DEF P!EndScan, P!Scanning, WaitInv, Thread
    <3>. QED
      BY <1>1, <1>2, <3>1, ThreadMoves DEF WaitInv
  <2>. QED
    BY <1>1, <2>1, <2>2, <2>3, <2>4 DEF P!Scan
<1>. QED
  BY <1>2, <1>3, <1>4, <1>5 DEF WaitInv

LEMMA StutterKeeps ==
  ASSUME WaitInv, UNCHANGED vars
  PROVE  WaitInv'
<1>1. /\ UNCHANGED <<loop, running, ops, stale>> /\ UNCHANGED pollVars
      /\ UNCHANGED <<at, suspended, closing, activecnt, abandoned, resumed>>
  BY DEF vars, requestVars
<1>2. Waits' /\ Counted'
  BY <1>1, Unmoved, CountsAsMany DEF WaitInv
<1>3. Thread'
  BY <1>1 DEF WaitInv, Thread, NoneRuns, pollVars
<1>4. TypeOK'
  BY <1>1 DEF WaitInv, TypeOK
<1>5. P!TypeOK'
  BY <1>1 DEF WaitInv, P!TypeOK, pollVars
<1>. QED
  BY <1>2, <1>3, <1>4, <1>5 DEF WaitInv

LEMMA InitWaits == Init => WaitInv
<1>. SUFFICES ASSUME Init PROVE WaitInv
  OBVIOUS
<1>1. /\ loop = P!FreshLoop(0) /\ clock = 0 /\ phase = "main" /\ running = Main
      /\ batch = {} /\ groups = {} /\ vv = {} /\ bits = {} /\ inWord = FALSE /\ ops = 0
      /\ at = [r \in Conns |-> "free"] /\ suspended = {} /\ closing = {}
      /\ activecnt = 0 /\ abandoned = {} /\ resumed = {} /\ stale = FALSE
  BY DEF Init, P!Init
<1>2. loop \in P!LoopState /\ loop.active = [fd \in Fds |-> FALSE]
  BY <1>1, PicoevAssumption DEF P!FreshLoop, P!LoopState, P!Slots
<1>3. P!TypeOK
  BY <1>1, <1>2 DEF P!TypeOK
<1>4. TypeOK
  <2>1. loop \in LoopState
    BY <1>2, SameState
  <2>2. at \in [Conns -> {"free", "reading", "kept", "running", "hub"}]
    BY <1>1
  <2>3. suspended \subseteq Conns /\ closing \subseteq Conns
        /\ abandoned \subseteq Conns /\ resumed \subseteq Conns /\ activecnt \in Int
    BY <1>1
  <2>4. stale \in BOOLEAN
    BY <1>1, Zenon
  <2>. QED
    BY <2>1, <2>2, <2>3, <2>4 DEF TypeOK
<1>5. Waits
  BY <1>1, <1>2 DEF Waits, Holders, AtMostOne, AtLeastOne, Suspensions, Has
<1>6. Thread
  BY <1>1, ContinuationAssumption DEF Thread, NoneRuns
<1>7. Counted
  <2>1. Registered = {}
    BY <1>2 DEF Registered
  <2>. QED
    BY <1>1, <2>1, FS_EmptySet DEF Counted
<1>. QED
  BY <1>3, <1>4, <1>5, <1>6, <1>7 DEF WaitInv

----------------------------------------------------------------------------
(* WaitInv is inductive: who waits, for what, and what is running agree     *)
(* with picoev's table whatever the callbacks of server.c do, suspend,      *)
(* trampoline, resume and cancel_wait in any order.                         *)
THEOREM WaitInductive == Spec => []WaitInv
<1>1. WaitInv /\ [Next]_vars => WaitInv'
  BY PollKeeps, ScanKeeps, CallbackKeeps, SuspendKeeps, TrampolineKeeps, FinishKeeps,
     AcceptsKeep, ResumeKeeps, CancelKeeps, StutterKeeps
     DEF Next, Leaves
<1>. QED
  BY <1>1, InitWaits, PTL DEF Spec

(* CountInv: activecnt, which server.c:1735 compares with zero to end the   *)
(* loop, is the number of active registrations, wherever the callbacks of   *)
(* server.c and its calls to picoev_add and picoev_del moved it.            *)
THEOREM CountCorrect == Spec => []CountInv
<1>1. WaitInv => CountInv
  BY DEF WaitInv, CountInv, CountRegistered, Counted, Registered
<1>. QED
  BY <1>1, WaitInductive, PTL

(* OneWaitEach: no request that waits is forgotten and none is woken twice, *)
(* except that a wait for a descriptor another took over or cancelled       *)
(* (trampoline_switch, cancel_wait) leaves its request without one.         *)
THEOREM OneWaitForEach == Spec => []OneWaitEach
<1>1. WaitInv => OneWaitEach
  <2>. SUFFICES ASSUME WaitInv, NEW r \in Conns
                PROVE  Cardinality(RegistrationsOf(r)) =
                         IF at[r] \in {"running", "free"} \/ r \in abandoned THEN 0 ELSE 1
    BY DEF OneWaitEach
  <2>1. RegistrationsOf(r) = {fd \in Fds : Has(r, fd)}
    BY DEF RegistrationsOf, Has
  <2>2. CASE at[r] \in {"running", "free"} \/ r \in abandoned
    <3>1. \A fd \in Fds : ~Has(r, fd)
      BY <2>2 DEF WaitInv, Waits, Holders
    <3>2. RegistrationsOf(r) = {}
      BY <2>1, <3>1
    <3>. QED
      BY <2>2, <3>2, FS_EmptySet
  <2>3. CASE ~(at[r] \in {"running", "free"} \/ r \in abandoned)
    <3>1. at[r] \in {"reading", "kept", "hub"} /\ r \notin abandoned
      BY <2>3 DEF WaitInv, TypeOK, Waits, Suspensions
    <3>2. PICK fd \in Fds : Has(r, fd)
      BY <3>1 DEF WaitInv, Waits, AtLeastOne
    <3>3. RegistrationsOf(r) = {fd}
      BY <2>1, <3>2 DEF WaitInv, Waits, AtMostOne
    <3>. QED
      BY <2>3, <3>3, FS_Singleton
  <2>. QED
    BY <2>2, <2>3
<1>. QED
  BY <1>1, WaitInductive, PTL
=============================================================================
