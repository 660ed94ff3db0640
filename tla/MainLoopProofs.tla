--------------------------- MODULE MainLoopProofs ---------------------------
(* For any number of listening sockets, clients, timers, runs, stops and    *)
(* signals: that activecnt counts the work left, what follows for the end   *)
(* of the loop, and that a stop keeps its time.                             *)
EXTENDS MainLoop, FiniteSetTheorems, TLAPS

(* The listening sockets are registered until a stop, or the signal caught, *)
(* has been looked at, which puts down a deadline.                          *)
SocketsOpen ==
  /\ phase = "idle" => accepting = {}
  /\ phase # "idle" /\ accepting # Listeners => deadline # Never

TimersKnown ==
  /\ timers \subseteq created
  /\ running # None => phase # "idle"
  /\ running \in Timers => phase \in {"pendings", "timers"}
  /\ running = Watchdog => phase = "watch"

\* the callbacks picoev makes
Delivery(fd) ==
  \/ fd \in Clients /\ (DeliverClient(fd) \/ DeliverPart(fd) \/ ClientTimesOut(fd))
  \/ fd \in Listeners /\ DeliverListener(fd)
  \/ DropStaleEvent(fd)

Shape == SocketsOpen /\ TimersKnown
LoopInv == TypeOK /\ Shape /\ CountAgrees

USE DEF countVars, stopVars, timerVars, timeVars, pollVars, watchVars, Never

----------------------------------------------------------------------------
LEMMA ListenersCounted ==
  IsFiniteSet(Listeners) /\ Cardinality(Listeners) = Len(ListenSocks)
<1>. DEFINE n == Len(ListenSocks)
<1>1. n \in Nat /\ ListenSocks \in [1 .. n -> Int]
  BY MainLoopAssumption
<1>2. IsFiniteSet(1 .. n) /\ Cardinality(1 .. n) = n
  BY <1>1, FS_Interval
<1>. DEFINE f == [i \in 1 .. n |-> ListenSocks[i]]
<1>3. f \in Bijection(1 .. n, Listeners)
  <2>1. f \in [1 .. n -> Listeners]
    BY DEF Listeners
  <2>2. \A i, j \in 1 .. n : f[i] = f[j] => i = j
    BY MainLoopAssumption
  <2>3. \A l \in Listeners : \E i \in 1 .. n : f[i] = l
    BY DEF Listeners
  <2>. QED
    BY <2>1, <2>2, <2>3 DEF Bijection, Injection, Surjection, IsInjective
<1>4. ExistsBijection(1 .. n, Listeners)
  BY <1>3 DEF ExistsBijection
<1>. QED
  BY <1>2, <1>4, FS_Bijection

\* everything that is counted is finite
LEMMA Counted ==
  ASSUME TypeOK
  PROVE  /\ IsFiniteSet(clients) /\ Cardinality(clients) \in Nat
         /\ IsFiniteSet(accepting) /\ Cardinality(accepting) \in Nat
         /\ IsFiniteSet(timers) /\ Cardinality(timers) \in Nat
         /\ Len(pendings) \in Nat
<1>1. IsFiniteSet(clients) /\ IsFiniteSet(accepting) /\ IsFiniteSet(timers)
  BY MainLoopAssumption, ListenersCounted, FS_Subset DEF TypeOK, CountTypes, TimerTypes
<1>. QED
  BY <1>1, FS_CardinalityType DEF TypeOK, CountTypes, TimerTypes

LEMMA OneShorter ==
  ASSUME NEW S, NEW s \in Seq(S), s # <<>>
  PROVE  Len(SubSeq(s, 1, Len(s) - 1)) = Len(s) - 1 /\ Len(s) - 1 \in Nat
OBVIOUS

LEMMA NoneCounted == Cardinality({}) = 0
BY FS_EmptySet

Running == IF running \in Timers THEN 1 ELSE 0
Parts == Cardinality(clients) + Cardinality(accepting) + Len(pendings) + Cardinality(timers)

\* the count moves as what it counts
LEMMA Balance ==
  ASSUME TypeOK, CountAgrees, NEW n \in Int, NEW d \in Nat,
         activecnt' = activecnt + n, lost' = lost, doubled' = doubled + d,
         Cardinality(clients') \in Nat, Cardinality(accepting') \in Nat,
         Len(pendings') \in Nat, Cardinality(timers') \in Nat,
         Parts' + Running' = Parts + Running + n + d
  PROVE  CountAgrees'
<1>1. Work = Parts + Running /\ Work' = Parts' + Running'
  BY DEF Work, Parts, Running
<1>2. Parts \in Nat /\ Parts' \in Nat
  BY Counted DEF Parts
<1>3. Running \in Nat /\ Running' \in Nat
  BY DEF Running
<1>4. /\ activecnt \in Int /\ lost \in Int /\ doubled \in Int
      /\ activecnt = Parts + Running + lost - doubled
  BY <1>1 DEF TypeOK, CountTypes, CountAgrees
<1>5. \E p, r, q, s \in Int : p = Parts /\ r = Running /\ q = Parts' /\ s = Running'
  BY <1>2, <1>3
<1>6. activecnt' = Parts' + Running' + lost' - doubled'
  <2>1. PICK p, r, q, s \in Int : p = Parts /\ r = Running /\ q = Parts' /\ s = Running'
    BY <1>5
  <2>2. q + s = p + r + n + d
    BY <2>1
  <2>3. activecnt' = p + r + lost - doubled + n
    BY <2>1, <1>4
  <2>4. activecnt' = q + s + lost - (doubled + d)
    BY <2>2, <2>3, <1>4
  <2>. QED
    BY <2>1, <2>4
<1>. QED
  BY <1>1, <1>6 DEF CountAgrees

----------------------------------------------------------------------------
(* Types and shape.                                                         *)

LEMMA InitTypes == Init => TypeOK
<1>. SUFFICES ASSUME Init PROVE TypeOK
  OBVIOUS
<1>1. LoopTypes
  <2>1. catch_signal \in BOOLEAN
    BY DEF Init
  <2>. QED
    BY <2>1, MainLoopAssumption DEF Init, LoopTypes
<1>2. CountTypes
  <2>1. loop_done \in BOOLEAN /\ moved \in BOOLEAN
    BY DEF Init
  <2>. QED
    BY <2>1 DEF Init, CountTypes
<1>3. TimerTypes
  BY DEF Init, TimerTypes
<1>4. WatchTypes
  <2>1. tempfile_fd \in BOOLEAN /\ watchdog \in BOOLEAN
    BY DEF Init
  <2>. QED
    BY <2>1 DEF Init, WatchTypes
<1>. QED
  BY <1>1, <1>2, <1>3, <1>4 DEF TypeOK

\* no more sockets are registered than there are
LEMMA SocketsCounted ==
  ASSUME TypeOK
  PROVE  Len(ListenSocks) - Cardinality(accepting) \in Nat
<1>1. Cardinality(accepting) <= Cardinality(Listeners)
  BY ListenersCounted, FS_Subset DEF TypeOK, CountTypes
<1>2. Len(ListenSocks) \in Nat /\ Cardinality(accepting) \in Nat
  BY Counted, MainLoopAssumption
<1>. QED
  BY <1>1, <1>2, ListenersCounted

LEMMA KillTypes ==
  ASSUME TypeOK, NEW timeout \in Nat, KillServer(timeout)
  PROVE  CountTypes' /\ accepting' = {} /\ deadline' # Never
<1>1. moved' \in BOOLEAN /\ loop_done' \in BOOLEAN
  BY DEF KillServer, TypeOK, CountTypes
<1>2. doubled' \in Nat
  <2>. DEFINE k == Len(ListenSocks) - Cardinality(accepting)
  <2>1. k \in Nat /\ doubled \in Nat /\ Len(ListenSocks) \in Nat /\ Cardinality(accepting) \in Nat
    BY SocketsCounted, Counted, MainLoopAssumption DEF TypeOK, CountTypes
  <2>2. doubled' = doubled + k
    BY <2>1 DEF KillServer
  <2>. QED
    BY <2>1, <2>2
<1>3. KillIn(timeout) \in Nat
  BY DEF KillIn
<1>4. activecnt' \in Int /\ clients' \subseteq Clients /\ accepting' = {} /\ lost' \in Nat
  BY MainLoopAssumption DEF KillServer, TypeOK, CountTypes
<1>5. killAt' \in Nat /\ deadline' \in Nat
  BY <1>3 DEF KillServer, TypeOK, LoopTypes
<1>. QED
  BY <1>1, <1>2, <1>4, <1>5 DEF CountTypes

LEMMA ScheduleTypes ==
  ASSUME TypeOK, NEW t \in Timers, NEW secs \in Nat, Schedule(t, secs)
  PROVE  TimerTypes' /\ CountTypes'
<1>1. pendings' \in Seq(Timers)
  <2>1. pendings \in Seq(Timers) /\ (pendings' = Append(pendings, t) \/ pendings' = pendings)
    BY DEF Schedule, TypeOK, TimerTypes
  <2>. QED
    BY <2>1
<1>2. timers' \subseteq Timers /\ created' \subseteq Timers
  BY DEF Schedule, TypeOK, TimerTypes
<1>3. seconds' \in [Timers -> Nat]
  <2>1. (IF secs > 0 THEN cached + secs ELSE 0) \in Nat
    BY DEF TypeOK, LoopTypes
  <2>2. seconds' = [seconds EXCEPT ![t] = IF secs > 0 THEN cached + secs ELSE 0]
    BY DEF Schedule
  <2>. QED
    BY <2>1, <2>2 DEF TypeOK, TimerTypes
<1>4. called' \in [Timers -> BOOLEAN]
  BY DEF Schedule, TypeOK, TimerTypes
<1>5. CountTypes'
  BY DEF Schedule, TypeOK, CountTypes
<1>. QED
  BY <1>1, <1>2, <1>3, <1>4, <1>5 DEF TimerTypes

LEMMA FireTypes ==
  ASSUME TypeOK, NEW t \in Timers, FireTimer(t)
  PROVE  called' \in [Timers -> BOOLEAN] /\ activecnt' \in Int
<1>1. called \in [Timers -> BOOLEAN] /\ activecnt \in Int
  BY DEF TypeOK, TimerTypes, CountTypes
<1>2. called' = called \/ called' = [called EXCEPT ![t] = TRUE]
  BY DEF FireTimer
<1>3. activecnt' = activecnt \/ activecnt' = activecnt - 1
  BY DEF FireTimer
<1>4. called' \in [Timers -> BOOLEAN]
  BY <1>1, <1>2
<1>5. activecnt' \in Int
  BY <1>1, <1>3
<1>. QED
  BY <1>4, <1>5

\* the actions that touch timers, and all the others
LEMMA TimerTypesStep ==
  ASSUME TypeOK, [Next]_vars
  PROVE  TimerTypes'
<1>1. ASSUME NEW t \in Timers, NEW secs \in Nat, Schedule(t, secs) PROVE TimerTypes'
  BY <1>1, ScheduleTypes
<1>2. ASSUME NEW t \in Timers, Cancel(t) PROVE TimerTypes'
  BY <1>2 DEF Cancel, TypeOK, TimerTypes
<1>3. ASSUME FirePending PROVE TimerTypes'
  <2>1. pendings \in Seq(Timers) /\ pendings # <<>>
    BY <1>3 DEF FirePending, TypeOK, TimerTypes
  <2>2. pendings[Len(pendings)] \in Timers /\ SubSeq(pendings, 1, Len(pendings) - 1) \in Seq(Timers)
    BY <2>1
  <2>3. called' \in [Timers -> BOOLEAN]
    BY <1>3, <2>2, FireTypes DEF FirePending
  <2>. QED
    BY <1>3, <2>2, <2>3 DEF FirePending, TypeOK, TimerTypes
<1>4. ASSUME NEW t \in Timers, FireDueTimer(t) PROVE TimerTypes'
  <2>1. called' \in [Timers -> BOOLEAN]
    BY <1>4, FireTypes DEF FireDueTimer
  <2>. QED
    BY <1>4, <2>1 DEF FireDueTimer, TypeOK, TimerTypes
<1>5. ASSUME UNCHANGED timerVars PROVE TimerTypes'
  BY <1>5 DEF TypeOK, TimerTypes
<1>6. CASE Call
  BY <1>6, <1>1, <1>2, <1>5, MainLoopAssumption
  DEF Call, ScheduleCall, Register, CancelWait, Stop
<1>7. CASE Turn
  BY <1>7, <1>3, <1>4, <1>5
  DEF Turn, Enter, Leave, PendingsDone, TimersDone, DeliverClient, DeliverPart, DeliverListener,
      DropStaleEvent, Delivering, ClientTimesOut, AcceptDone, Accepting, Delivered, Scan,
      HandleSignal, WatchPasses, CallWatchdog, Watching
<1>. QED
  BY <1>1, <1>5, <1>6, <1>7, MainLoopAssumption
  DEF Next, vars, Run, TimePasses, SetFastwatchdog, SetWatchdog, ScheduleIdle, TakeTime, LogAccess,
      Returns, ClientReturns, WatchdogReturns, TimerReturns, Signal, Poll, PollInterrupted, Accept,
      Accepting, AcceptFatal, AcceptFails, ParentGone, Watching

LEMMA CountTypesStep ==
  ASSUME TypeOK, [Next]_vars
  PROVE  CountTypes'
<1>1. ASSUME UNCHANGED countVars PROVE CountTypes'
  BY <1>1 DEF TypeOK, CountTypes
<1>2. ASSUME NEW t \in Timers, NEW secs \in Nat, Schedule(t, secs) PROVE CountTypes'
  BY <1>2, ScheduleTypes
<1>3. ASSUME NEW timeout \in Nat, KillServer(timeout) PROVE CountTypes'
  BY <1>3, KillTypes
<1>4. CASE Call
  <2>1. ASSUME NEW c \in Clients, Register(c) \/ CancelWait(c) PROVE CountTypes'
    BY <2>1 DEF Register, CancelWait, TypeOK, CountTypes
  <2>. QED
    BY <1>4, <1>1, <1>2, <1>3, <2>1, MainLoopAssumption DEF Call, ScheduleCall, Cancel, Stop
<1>5. CASE Run
  <2>1. loop_done' \in BOOLEAN
    BY <1>5 DEF Run
  <2>2. activecnt' \in Int
    BY <1>5, MainLoopAssumption DEF Run, TypeOK, CountTypes
  <2>. QED
    BY <1>5, <2>1, <2>2 DEF Run, TypeOK, CountTypes
<1>6. CASE Leave
  <2>1. Cardinality(clients) \in Nat /\ Cardinality(accepting) \in Nat
    BY Counted
  <2>2. moved' \in BOOLEAN
    BY <1>6 DEF Leave
  <2>. QED
    BY <1>6, <2>1, <2>2 DEF Leave, TypeOK, CountTypes
<1>7. ASSUME NEW t \in Timers, FireTimer(t), UNCHANGED <<loop_done, clients, accepting, stopVars, lost, doubled>>
      PROVE  CountTypes'
  BY <1>7, FireTypes DEF TypeOK, CountTypes
<1>8. CASE FirePending
  <2>1. pendings[Len(pendings)] \in Timers
    BY <1>8 DEF FirePending, TypeOK, TimerTypes
  <2>. QED
    BY <1>8, <1>7, <2>1 DEF FirePending
<1>9. ASSUME NEW fd, Delivery(fd)
      PROVE  CountTypes'
  <2>1. doubled' \in Nat
    <3>1. doubled \in Nat
      BY DEF TypeOK, CountTypes
    <3>2. doubled' = doubled \/ doubled' = doubled + 0 \/ doubled' = doubled + 1
      BY <1>9 DEF Delivery, DeliverClient, DeliverPart, DeliverListener, DropStaleEvent, ClientTimesOut
    <3>. QED
      BY <3>1, <3>2
  <2>2. activecnt' = activecnt \/ activecnt' = activecnt - 1
    BY <1>9 DEF Delivery, DeliverClient, DeliverPart, DeliverListener, DropStaleEvent, ClientTimesOut,
       ClientCalledBack
  <2>3. clients' \subseteq clients /\ UNCHANGED <<loop_done, accepting, lost, stopVars>>
    BY <1>9 DEF Delivery, DeliverClient, DeliverPart, DeliverListener, DropStaleEvent, Delivering,
       ClientTimesOut, ClientCalledBack
  <2>. QED
    BY <2>1, <2>2, <2>3 DEF TypeOK, CountTypes
<1>10. CASE Scan
  <2>1. loop_done' \in BOOLEAN
    BY <1>10 DEF Scan, KillCallback, TypeOK, CountTypes
  <2>2. killAt' \in Nat \cup {Never}
    BY <1>10 DEF Scan, KillCallback, TypeOK, CountTypes
  <2>. QED
    BY <1>10, <2>1, <2>2 DEF Scan, TypeOK, CountTypes
<1>11. CASE Turn
  BY <1>11, <1>1, <1>3, <1>6, <1>7, <1>8, <1>9, <1>10
  DEF Turn, Delivery, Enter, PendingsDone, TimersDone, FireDueTimer, AcceptDone, Delivered,
      HandleSignal, WatchPasses, CallWatchdog
<1>12. ASSUME NEW c \in Clients, Accept(c) PROVE CountTypes'
  <2>1. killAt' \in Nat \cup {Never}
    BY <1>12, MainLoopAssumption DEF Accept, TypeOK, CountTypes, LoopTypes
  <2>2. moved' \in BOOLEAN
    BY <1>12 DEF Accept, TypeOK, CountTypes
  <2>. QED
    BY <1>12, <2>1, <2>2 DEF Accept, TypeOK, CountTypes
<1>13. CASE AcceptFatal
  <2>1. loop_done' \in BOOLEAN
    BY <1>13 DEF AcceptFatal
  <2>. QED
    BY <1>13, <2>1 DEF AcceptFatal, TypeOK, CountTypes
<1>14. ASSUME NEW raised \in BOOLEAN, TimerReturns(raised) PROVE CountTypes'
  BY <1>14 DEF TimerReturns, TypeOK, CountTypes
<1>. QED
  BY <1>1, <1>2, <1>3, <1>4, <1>5, <1>11, <1>12, <1>13, <1>14, MainLoopAssumption
  DEF Next, vars, TimePasses, SetFastwatchdog, SetWatchdog, ScheduleIdle, TakeTime, LogAccess,
      Returns, ClientReturns, WatchdogReturns, Signal, Poll, PollInterrupted, AcceptFails, ParentGone

LEMMA WatchTypesStep ==
  ASSUME TypeOK, [Next]_vars
  PROVE  WatchTypes'
<1>1. now \in Nat /\ WatchTypes
  BY DEF TypeOK, LoopTypes
<1>2. ASSUME UNCHANGED watchVars PROVE WatchTypes'
  BY <1>1, <1>2 DEF WatchTypes
<1>3. CASE SetFastwatchdog \/ SetWatchdog
  <2>1. tempfile_fd' \in BOOLEAN /\ watchdog' \in BOOLEAN
    BY <1>1, <1>3 DEF SetFastwatchdog, SetWatchdog, WatchTypes
  <2>2. watchdog_lasttime' \in Nat
    BY <1>3 DEF SetFastwatchdog, SetWatchdog
  <2>. QED
    BY <2>1, <2>2 DEF WatchTypes
<1>4. CASE Leave
  <2>1. tempfile_fd' \in BOOLEAN /\ watchdog' \in BOOLEAN
    BY <1>1, <1>4 DEF Leave, WatchTypes
  <2>. QED
    BY <1>1, <1>4, <2>1 DEF Leave, WatchTypes
<1>5. ASSUME NEW timeout, WatchPasses \/ CallWatchdog \/ ParentGone(timeout) PROVE WatchTypes'
  <2>1. tempfile_fd' \in BOOLEAN /\ watchdog' \in BOOLEAN
    BY <1>1, <1>5 DEF WatchPasses, CallWatchdog, ParentGone, Watching, WatchTypes
  <2>2. watchdog_lasttime' \in Nat
    BY <1>1, <1>5 DEF WatchPasses, CallWatchdog, ParentGone, WatchTypes
  <2>. QED
    BY <2>1, <2>2 DEF WatchTypes
<1>6. CASE Call
  BY <1>2, <1>6 DEF Call, ScheduleCall, Cancel, Register, CancelWait, Stop, Calling
<1>7. CASE Turn
  BY <1>2, <1>4, <1>5, <1>7
  DEF Turn, Enter, FirePending, PendingsDone, FireDueTimer, TimersDone, DeliverClient, DeliverPart,
      DeliverListener, DropStaleEvent, Delivering, ClientTimesOut, AcceptDone, Accepting, Delivered,
      Scan, HandleSignal
<1>. QED
  BY <1>2, <1>3, <1>5, <1>6, <1>7
  DEF Next, vars, Run, TimePasses, ScheduleIdle, TakeTime, LogAccess, Returns, ClientReturns,
      WatchdogReturns, TimerReturns, Signal, Poll, PollInterrupted, Accept, Accepting, AcceptFatal,
      AcceptFails

\* where application code runs, and what of the timers is known
LEMMA KnownStep ==
  ASSUME TypeOK, TimersKnown, [Next]_vars
  PROVE  TimersKnown'
<1>1. CASE Call
  BY <1>1 DEF Call, ScheduleCall, Schedule, Cancel, Register, CancelWait, Stop, Calling, TimersKnown
<1>2. ASSUME NEW raised \in BOOLEAN, TimerReturns(raised) PROVE TimersKnown'
  BY <1>2, MainLoopAssumption DEF TimerReturns, TimersKnown
<1>3. CASE FirePending
  <2>1. pendings[Len(pendings)] \in Timers
    BY <1>3 DEF FirePending, TypeOK, TimerTypes
  <2>. QED
    BY <1>3, <2>1, MainLoopAssumption DEF FirePending, FireTimer, Quiet, TimersKnown
<1>4. ASSUME NEW t \in Timers, FireDueTimer(t) PROVE TimersKnown'
  BY <1>4, MainLoopAssumption DEF FireDueTimer, FireTimer, Quiet, TimersKnown
<1>5. ASSUME NEW fd, Delivery(fd)
      PROVE  TimersKnown'
  <2>1. running' = None \/ running' \in Clients
    BY <1>5 DEF Delivery, DeliverClient, DeliverPart, DeliverListener, DropStaleEvent, Delivering,
                ClientTimesOut, ClientCalledBack, Quiet
  <2>. QED
    BY <1>5, <2>1, MainLoopAssumption
    DEF Delivery, DeliverClient, DeliverPart, DeliverListener, DropStaleEvent, Delivering,
        ClientTimesOut, ClientCalledBack, Quiet, TimersKnown
<1>6. CASE Turn
  BY <1>6, <1>3, <1>4, <1>5, MainLoopAssumption
  DEF Turn, Delivery, Enter, Leave, PendingsDone, TimersDone, AcceptDone, Accepting, Delivered,
      Scan, HandleSignal, WatchPasses, CallWatchdog, Watching, Quiet, TimersKnown
<1>7. ASSUME NEW c \in Clients, Accept(c) PROVE TimersKnown'
  BY <1>7, MainLoopAssumption DEF Accept, Accepting, Quiet, TimersKnown
<1>8. CASE \/ ClientReturns \/ WatchdogReturns \/ Signal \/ AcceptFatal \/ AcceptFails
           \/ Run \/ TimePasses \/ SetFastwatchdog \/ SetWatchdog \/ TakeTime \/ LogAccess
           \/ \E timeout \in StopChoices : ParentGone(timeout)
  BY <1>8, MainLoopAssumption
  DEF ClientReturns, WatchdogReturns, Signal, Run, TimePasses, SetFastwatchdog, SetWatchdog, Idle,
      TakeTime, LogAccess, AcceptFatal, AcceptFails, Accepting, ParentGone, Watching, Quiet,
      TimersKnown
<1>9. ASSUME NEW t \in Timers, NEW secs \in SecsChoices, ScheduleIdle(t, secs) PROVE TimersKnown'
  BY <1>9 DEF ScheduleIdle, Idle, Schedule, TimersKnown
<1>10. ASSUME NEW tick, Poll(tick) \/ PollInterrupted(tick) PROVE TimersKnown'
  BY <1>10, MainLoopAssumption DEF Poll, PollInterrupted, Quiet, TimersKnown
<1>. QED
  BY <1>1, <1>2, <1>6, <1>7, <1>8, <1>9, <1>10 DEF Next, vars, Returns, TimersKnown

LEMMA LoopTypesStep ==
  ASSUME TypeOK, TimersKnown, [Next]_vars
  PROVE  LoopTypes'
<1>. USE DEF LoopTypes
<1>1. LoopTypes
  BY DEF TypeOK
<1>2. CASE Call
  <2>1. /\ ops' \in 0 .. MaxOps
        /\ UNCHANGED <<phase, running, runs, catch_signal, timeVars, pollVars>>
    BY <1>1, <1>2, MainLoopAssumption
    DEF Call, ScheduleCall, Cancel, Register, CancelWait, Stop, Calling
  <2>2. stops' \in 0 .. MaxStops
    BY <1>1, <1>2, MainLoopAssumption
    DEF Call, ScheduleCall, Cancel, Register, CancelWait, Stop, MayStop
  <2>. QED
    BY <1>1, <2>1, <2>2
<1>3. ASSUME NEW raised \in BOOLEAN, TimerReturns(raised) PROVE LoopTypes'
  <2>1. phase' \in {"pendings", "timers", "poll"}
    BY <1>3 DEF TimerReturns, TimersKnown
  <2>2. ops' \in 0 .. MaxOps /\ running' = None
    BY <1>3, MainLoopAssumption DEF TimerReturns
  <2>3. UNCHANGED <<stops, runs, catch_signal, timeVars, pollVars>>
    BY <1>3 DEF TimerReturns
  <2>. QED
    BY <1>1, <2>1, <2>2, <2>3
<1>4. CASE FirePending
  <2>1. pendings[Len(pendings)] \in Timers
    BY <1>4 DEF FirePending, TypeOK, TimerTypes
  <2>. QED
    BY <1>1, <1>4, <2>1 DEF FirePending, FireTimer, Quiet
<1>5. ASSUME NEW t \in Timers, FireDueTimer(t) PROVE LoopTypes'
  BY <1>1, <1>5 DEF FireDueTimer, FireTimer, Quiet
<1>6. ASSUME NEW fd, Delivery(fd)
      PROVE  LoopTypes'
  <2>1. running' \in Clients \cup {None}
    BY <1>6
    DEF Delivery, DeliverClient, DeliverPart, DeliverListener, DropStaleEvent, Delivering,
        ClientTimesOut, ClientCalledBack, Quiet
  <2>2. phase' \in {phase, "accept"} /\ accepts' \in {accepts, AcceptMax} /\ batch' = batch \ {fd}
    BY <1>6
    DEF Delivery, DeliverClient, DeliverPart, DeliverListener, DropStaleEvent, Delivering,
        ClientTimesOut, ClientCalledBack, Quiet
  <2>3. UNCHANGED <<ops, stops, runs, catch_signal, timeVars>>
    BY <1>6
    DEF Delivery, DeliverClient, DeliverPart, DeliverListener, DropStaleEvent, Delivering,
        ClientTimesOut, ClientCalledBack, Quiet
  <2>. QED
    BY <1>1, <2>1, <2>2, <2>3, MainLoopAssumption
<1>7. CASE HandleSignal
  <2>1. catch_signal' \in BOOLEAN
    BY <1>7 DEF HandleSignal
  <2>. QED
    BY <1>1, <1>7, <2>1 DEF HandleSignal, Quiet
<1>8. CASE Delivered
  BY <1>1, <1>8 DEF Delivered, Quiet, TypeOK, CountTypes
<1>9. CASE Turn
  <2>1. CASE Enter \/ Leave \/ PendingsDone \/ TimersDone \/ Scan
    BY <1>1, <2>1 DEF Enter, Leave, PendingsDone, TimersDone, Scan, Quiet
  <2>2. CASE AcceptDone
    BY <1>1, <2>2, MainLoopAssumption DEF AcceptDone, Accepting, Quiet
  <2>3. CASE WatchPasses \/ CallWatchdog
    BY <1>1, <2>3 DEF WatchPasses, CallWatchdog, Watching
  <2>. QED
    BY <1>4, <1>5, <1>6, <1>7, <1>8, <1>9, <2>1, <2>2, <2>3 DEF Turn, Delivery
<1>10. CASE Signal
  <2>1. catch_signal' \in BOOLEAN
    BY <1>10 DEF Signal
  <2>. QED
    BY <1>1, <1>10, <2>1, MainLoopAssumption DEF Signal, MayStop
<1>11. ASSUME NEW c \in Clients, Accept(c) PROVE LoopTypes'
  BY <1>1, <1>11, MainLoopAssumption DEF Accept, Accepting, Quiet
<1>12. CASE \/ ClientReturns \/ WatchdogReturns \/ AcceptFatal \/ AcceptFails
            \/ \E timeout \in StopChoices : ParentGone(timeout)
  <2>1. CASE ClientReturns \/ WatchdogReturns
    BY <1>1, <2>1, MainLoopAssumption DEF ClientReturns, WatchdogReturns
  <2>2. CASE AcceptFatal
    BY <1>1, <2>2, MainLoopAssumption DEF AcceptFatal, Accepting, Quiet
  <2>3. CASE AcceptFails
    BY <1>1, <2>3, MainLoopAssumption DEF AcceptFails, MayStop
  <2>4. ASSUME NEW timeout, ParentGone(timeout) PROVE LoopTypes'
    BY <1>1, <2>4, MainLoopAssumption DEF ParentGone, Watching, MayStop
  <2>. QED
    BY <1>12, <2>1, <2>2, <2>3, <2>4
<1>13. CASE Run \/ TimePasses \/ SetFastwatchdog \/ SetWatchdog \/ TakeTime \/ LogAccess
  <2>1. CASE Run
    BY <1>1, <2>1, MainLoopAssumption DEF Run, Idle
  <2>2. CASE TimePasses \/ TakeTime
    BY <1>1, <2>2 DEF TimePasses, Idle, TakeTime, Ticks
  <2>3. CASE SetFastwatchdog \/ SetWatchdog \/ LogAccess
    BY <1>1, <2>3 DEF SetFastwatchdog, SetWatchdog, Idle, LogAccess
  <2>. QED
    BY <1>13, <2>1, <2>2, <2>3
<1>14. ASSUME NEW t \in Timers, NEW secs \in SecsChoices, ScheduleIdle(t, secs) PROVE LoopTypes'
  BY <1>1, <1>14 DEF ScheduleIdle, Idle
<1>15. ASSUME NEW tick \in {0, 1}, Poll(tick) \/ PollInterrupted(tick) PROVE LoopTypes'
  BY <1>1, <1>15 DEF Poll, PollInterrupted, Waited, Ticks, Quiet, TypeOK, CountTypes
<1>. QED
  BY <1>1, <1>2, <1>3, <1>9, <1>10, <1>11, <1>12, <1>13, <1>14, <1>15
  DEF Next, vars, Returns

LEMMA SocketsStep ==
  ASSUME TypeOK, SocketsOpen, TimersKnown, [Next]_vars
  PROVE  SocketsOpen'
<1>1. ASSUME UNCHANGED <<phase, accepting, deadline>> PROVE SocketsOpen'
  BY <1>1 DEF SocketsOpen
<1>2. ASSUME phase # "idle", phase' # "idle", UNCHANGED <<accepting, deadline>>
      PROVE  SocketsOpen'
  BY <1>2 DEF SocketsOpen
<1>3. ASSUME NEW timeout \in Nat, KillServer(timeout), phase' # "idle"
      PROVE  SocketsOpen'
  BY <1>3, KillTypes DEF SocketsOpen
<1>4. CASE Call
  <2>1. ASSUME NEW timeout \in StopChoices, Stop(timeout) PROVE SocketsOpen'
    <3>1. timeout \in Nat /\ phase' # "idle"
      BY <2>1, MainLoopAssumption DEF Stop, Calling, TimersKnown
    <3>. QED
      BY <2>1, <3>1, <1>3 DEF Stop
  <2>. QED
    BY <1>4, <1>1, <2>1
    DEF Call, ScheduleCall, Schedule, Cancel, Register, CancelWait, Calling
<1>5. CASE HandleSignal
  BY <1>5, <1>2, <1>3 DEF HandleSignal
<1>6. CASE Run
  BY <1>6 DEF Run, SocketsOpen
<1>7. CASE Leave
  BY <1>7 DEF Leave, Quiet, SocketsOpen
<1>8. CASE AcceptFails
  BY <1>8, <1>3 DEF AcceptFails
<1>9. ASSUME NEW timeout \in StopChoices, ParentGone(timeout) PROVE SocketsOpen'
  BY <1>9, <1>3, MainLoopAssumption DEF ParentGone
<1>11. ASSUME NEW fd, Delivery(fd)
       PROVE  SocketsOpen'
  BY <1>11, <1>2
  DEF Delivery, DeliverClient, DeliverPart, DeliverListener, DropStaleEvent, Delivering,
      ClientTimesOut, ClientCalledBack, Quiet
<1>12. CASE Turn
  BY <1>12, <1>2, <1>5, <1>7, <1>11
  DEF Turn, Delivery, Enter, FirePending, PendingsDone, FireDueTimer, TimersDone, AcceptDone,
      Accepting, Delivered, Scan, WatchPasses, CallWatchdog, Watching, Quiet
<1>13. ASSUME NEW raised \in BOOLEAN, TimerReturns(raised) PROVE SocketsOpen'
  <2>1. phase # "idle" /\ phase' # "idle"
    BY <1>13 DEF TimerReturns, TimersKnown
  <2>. QED
    BY <1>13, <2>1, <1>2 DEF TimerReturns
<1>14. ASSUME NEW c \in Clients, Accept(c) PROVE SocketsOpen'
  BY <1>14, <1>1 DEF Accept, Accepting, Quiet
<1>15. CASE \/ ClientReturns \/ Signal \/ TakeTime \/ LogAccess
            \/ TimePasses \/ SetFastwatchdog \/ SetWatchdog
  BY <1>15, <1>1
  DEF ClientReturns, Signal, TakeTime, LogAccess, TimePasses, SetFastwatchdog, SetWatchdog, Idle
<1>16. CASE WatchdogReturns
  <2>1. phase # "idle"
    BY <1>16 DEF WatchdogReturns, TimersKnown
  <2>. QED
    BY <1>16, <2>1, <1>2 DEF WatchdogReturns
<1>17. ASSUME NEW t \in Timers, NEW secs, ScheduleIdle(t, secs) PROVE SocketsOpen'
  BY <1>17, <1>1 DEF ScheduleIdle, Idle, Schedule
<1>18. ASSUME NEW tick, Poll(tick) \/ PollInterrupted(tick) PROVE SocketsOpen'
  BY <1>18, <1>2 DEF Poll, PollInterrupted, Quiet
<1>19. CASE AcceptFatal
  BY <1>19, <1>2 DEF AcceptFatal, Accepting, Quiet
<1>. QED
  BY <1>1, <1>4, <1>6, <1>8, <1>9, <1>12, <1>13, <1>14, <1>15, <1>16, <1>17, <1>18, <1>19
  DEF Next, vars, Returns

----------------------------------------------------------------------------
(* The count.                                                               *)

LEMMA ScheduleCounts ==
  ASSUME TypeOK, TimersKnown, CountAgrees, NEW t \in Timers, NEW secs, Schedule(t, secs),
         UNCHANGED running
  PROVE  CountAgrees'
<1>1. /\ activecnt' = activecnt + 1 /\ doubled' = doubled + 0
      /\ UNCHANGED <<clients, accepting, lost, doubled>>
  BY DEF Schedule, TypeOK, CountTypes
<1>2. CASE secs = 0
  <2>1. Len(pendings') = Len(pendings) + 1 /\ UNCHANGED timers
    BY <1>2 DEF Schedule, TypeOK, TimerTypes
  <2>2. Parts' + Running' = Parts + Running + 1 + 0
    BY <1>1, <2>1, Counted DEF Parts, Running
  <2>. QED
    BY <1>1, <2>1, <2>2, Counted, Balance
<1>3. CASE secs # 0
  <2>1. timers' = timers \cup {t} /\ t \notin timers /\ UNCHANGED pendings
    BY <1>3 DEF Schedule, TimersKnown
  <2>2. Cardinality(timers') = Cardinality(timers) + 1
    BY <2>1, Counted, FS_AddElement
  <2>. QED
    BY <1>1, <2>1, <2>2, Counted DEF CountAgrees, Work, TypeOK, CountTypes
<1>. QED
  BY <1>2, <1>3

\* kill_server counts all the listening sockets off; those that were not
\* registered any more are the doubled ones
LEMMA KillCounts ==
  ASSUME TypeOK, CountAgrees, NEW timeout, KillServer(timeout),
         UNCHANGED <<running, pendings, timers>>
  PROVE  CountAgrees'
<1>. DEFINE n == Len(ListenSocks)
            a == Cardinality(accepting)
            d == n - a
<1>1. n \in Nat /\ a \in Nat /\ d \in Nat /\ activecnt \in Int /\ doubled \in Nat
  BY Counted, SocketsCounted, MainLoopAssumption DEF TypeOK, CountTypes
<1>2. /\ activecnt' = activecnt + (0 - n) /\ accepting' = {}
      /\ doubled' = doubled + d /\ UNCHANGED <<clients, lost>>
  BY <1>1 DEF KillServer
<1>3. Cardinality(accepting') = 0
  BY <1>2, NoneCounted
<1>4. Parts' + Running' = Parts + Running + (0 - n) + d
  <2>1. Running' = Running /\ Running \in Nat
    BY DEF Running
  <2>2. Parts' = Parts - a /\ Parts \in Nat
    BY <1>1, <1>2, <1>3, Counted DEF Parts
  <2>3. \E p, q \in Nat : p = Parts /\ q = Running
    BY <2>1, <2>2
  <2>. QED
    BY <1>1, <2>1, <2>2, <2>3
<1>5. 0 - n \in Int
  BY <1>1
<1>. HIDE DEF n, a, d
<1>. QED
  BY <1>1, <1>2, <1>3, <1>4, <1>5, Counted, Balance

\* a timer taken off its queue is running, or is counted off
LEMMA FireCounts ==
  ASSUME TypeOK, CountAgrees, running = None, NEW t \in Timers, FireTimer(t),
         UNCHANGED <<clients, accepting, lost, doubled>>,
         Len(pendings') \in Nat, Cardinality(timers') \in Nat,
         Len(pendings') + Cardinality(timers') = Len(pendings) + Cardinality(timers) - 1
  PROVE  CountAgrees'
<1>1. activecnt \in Int /\ -1 \in Int /\ 0 \in Nat /\ 0 \in Int /\ doubled' = doubled + 0
  BY DEF TypeOK, CountTypes
<1>2. Running = 0
  BY MainLoopAssumption DEF Running
<1>3. Parts \in Int /\ Parts' = Parts - 1
  BY Counted DEF Parts
<1>4. CASE called[t]
  <2>1. activecnt' = activecnt + (-1) /\ Running' = 0
    BY <1>1, <1>2, <1>4 DEF FireTimer, Running
  <2>2. Parts' + Running' = Parts + Running + (-1) + 0
    BY <1>2, <1>3, <2>1
  <2>. QED
    BY <1>1, <2>1, <2>2, Counted, Balance
<1>5. CASE ~called[t]
  <2>1. activecnt' = activecnt + 0 /\ Running' = 1
    BY <1>1, <1>5 DEF FireTimer, Running
  <2>2. Parts' + Running' = Parts + Running + 0 + 0
    BY <1>2, <1>3, <2>1
  <2>. QED
    BY <1>1, <2>1, <2>2, Counted, Balance
<1>. QED
  BY <1>4, <1>5

\* a client more, or one less
LEMMA ClientCounts ==
  ASSUME TypeOK, CountAgrees, NEW c,
         \/ c \notin clients /\ clients' = clients \cup {c} /\ activecnt' = activecnt + 1
         \/ c \in clients /\ clients' = clients \ {c} /\ activecnt' = activecnt - 1,
         UNCHANGED <<accepting, pendings, timers, lost, doubled>>,
         running' \in Timers <=> running \in Timers
  PROVE  CountAgrees'
<1>1. activecnt \in Int /\ lost \in Int /\ doubled \in Int
  BY DEF TypeOK, CountTypes
<1>2. CASE c \notin clients /\ clients' = clients \cup {c} /\ activecnt' = activecnt + 1
  <2>1. Cardinality(clients') = Cardinality(clients) + 1
    BY <1>2, Counted, FS_AddElement
  <2>. QED
    BY <1>1, <1>2, <2>1, Counted DEF CountAgrees, Work
<1>3. CASE c \in clients /\ clients' = clients \ {c} /\ activecnt' = activecnt - 1
  <2>1. Cardinality(clients') = Cardinality(clients) - 1
    BY <1>3, Counted, FS_RemoveElement
  <2>. QED
    BY <1>1, <1>3, <2>1, Counted DEF CountAgrees, Work
<1>. QED
  BY <1>2, <1>3

LEMMA CountStep ==
  ASSUME TypeOK, Shape, CountAgrees, [Next]_vars
  PROVE  CountAgrees'
<1>. USE DEF Shape
<1>1. ASSUME UNCHANGED <<activecnt, clients, accepting, pendings, timers, lost, doubled>>,
             running' \in Timers <=> running \in Timers
      PROVE  CountAgrees'
  BY <1>1 DEF CountAgrees, Work
<1>2. None \notin Timers /\ Watchdog \notin Timers /\ Timers \cap Clients = {}
  BY MainLoopAssumption
<1>4. CASE Call
  <2>1. ASSUME NEW timeout \in StopChoices, Stop(timeout) PROVE CountAgrees'
    BY <2>1, KillCounts DEF Stop, Calling
  <2>2. ASSUME NEW c \in Clients, Register(c) \/ CancelWait(c) PROVE CountAgrees'
    BY <2>2, ClientCounts DEF Register, CancelWait, Calling
  <2>3. ASSUME NEW t \in Timers, Cancel(t) PROVE CountAgrees'
    BY <2>3, <1>1 DEF Cancel, Calling
  <2>4. ASSUME NEW t \in Timers, NEW secs, ScheduleCall(t, secs) PROVE CountAgrees'
    BY <2>4, ScheduleCounts DEF ScheduleCall, Calling
  <2>. QED
    BY <1>4, <2>1, <2>2, <2>3, <2>4 DEF Call
<1>5. CASE HandleSignal
  BY <1>5, <1>1, KillCounts DEF HandleSignal
<1>6. CASE AcceptFails \/ \E timeout \in StopChoices : ParentGone(timeout)
  BY <1>6, KillCounts DEF AcceptFails, ParentGone, Watching
<1>7. CASE Run
  <2>1. Cardinality(accepting) = 0 /\ Cardinality(accepting') = Len(ListenSocks)
    BY <1>7, ListenersCounted, NoneCounted DEF Run, SocketsOpen
  <2>2. /\ activecnt' = activecnt + Len(ListenSocks) /\ Len(ListenSocks) \in Nat
        /\ UNCHANGED <<clients, pendings, timers, running, lost, doubled>>
        /\ doubled' = doubled + 0
    BY <1>7, MainLoopAssumption DEF Run, TypeOK, CountTypes
  <2>3. Parts' + Running' = Parts + Running + Len(ListenSocks) + 0
    BY <2>1, <2>2, Counted DEF Parts, Running
  <2>. QED
    BY <2>1, <2>2, <2>3, Counted, Balance
<1>8. CASE Leave
  <2>1. Cardinality(clients') = 0 /\ Cardinality(accepting') = 0
    BY <1>8, NoneCounted DEF Leave
  <2>2. activecnt \in Int /\ lost \in Int /\ doubled \in Int
    BY DEF TypeOK, CountTypes
  <2>. QED
    BY <1>8, <2>1, <2>2, Counted DEF Leave, CountAgrees, Work
<1>9. CASE FirePending
  <2>1. pendings \in Seq(Timers) /\ pendings # <<>>
    BY <1>9 DEF FirePending, TypeOK, TimerTypes
  <2>2. pendings[Len(pendings)] \in Timers
    BY <2>1
  <2>3. Len(pendings') = Len(pendings) - 1 /\ Len(pendings') \in Nat
    <3>1. pendings' = SubSeq(pendings, 1, Len(pendings) - 1)
      BY <1>9 DEF FirePending
    <3>. QED
      BY <2>1, <3>1, OneShorter
  <2>. QED
    BY <1>9, <2>2, <2>3, Counted, FireCounts DEF FirePending, Quiet
<1>10. ASSUME NEW t \in Timers, FireDueTimer(t) PROVE CountAgrees'
  <2>1. Cardinality(timers') = Cardinality(timers) - 1 /\ Cardinality(timers') \in Nat
    BY <1>10, Counted, FS_RemoveElement, FS_CardinalityType DEF FireDueTimer, IsFirst
  <2>. QED
    BY <1>10, <2>1, Counted, FireCounts DEF FireDueTimer, Quiet
<1>11. ASSUME NEW fd, Delivery(fd)
       PROVE  CountAgrees'
  <2>1. CASE fd \in Clients /\ (DeliverClient(fd) \/ ClientTimesOut(fd))
    <3>1. /\ clients' = clients \ {fd} /\ activecnt' = activecnt - 1
          /\ UNCHANGED <<accepting, pendings, timers, lost>> /\ running = None /\ running' = fd
          /\ doubled' = doubled + (IF fd \in clients THEN 0 ELSE 1)
      BY <2>1
      DEF DeliverClient, Delivering, ClientTimesOut, ClientCalledBack, Quiet, TypeOK, CountTypes
    <3>2. fd \notin Timers
      BY <2>1, <1>2
    <3>3. CASE fd \in clients
      BY <3>1, <3>2, <3>3, <1>2, ClientCounts DEF TypeOK, CountTypes
    <3>4. CASE fd \notin clients
      <4>1. UNCHANGED <<clients, accepting, pendings, timers, lost>> /\ doubled' = doubled + 1
        BY <3>1, <3>4
      <4>2. Running = 0 /\ Running' = 0
        BY <1>2, <3>1, <3>2 DEF Running
      <4>3. Parts' = Parts
        BY <4>1 DEF Parts
      <4>4. Parts \in Nat
        BY Counted DEF Parts
      <4>5. /\ activecnt' = activecnt + (-1) /\ -1 \in Int /\ 1 \in Nat
            /\ Parts' + Running' = Parts + Running + (-1) + 1
        BY <3>1, <4>2, <4>3, <4>4 DEF TypeOK, CountTypes
      <4>. QED
        BY <4>1, <4>5, Counted, Balance
    <3>. QED
      BY <3>3, <3>4
  <2>2. CASE DeliverPart(fd) \/ DeliverListener(fd) \/ DropStaleEvent(fd)
    BY <2>2, <1>1 DEF DeliverPart, DeliverListener, DropStaleEvent, Delivering
  <2>. QED
    BY <1>11, <2>1, <2>2 DEF Delivery
<1>12. CASE Turn
  BY <1>12, <1>1, <1>2, <1>5, <1>8, <1>9, <1>10, <1>11
  DEF Turn, Delivery, Enter, PendingsDone, TimersDone, AcceptDone, Accepting, Delivered, Scan,
      KillCallback, WatchPasses, CallWatchdog, Watching, Quiet
<1>13. ASSUME NEW raised \in BOOLEAN, TimerReturns(raised) PROVE CountAgrees'
  <2>1. activecnt \in Int /\ lost \in Int /\ doubled \in Int
    BY DEF TypeOK, CountTypes
  <2>. QED
    BY <1>2, <1>13, <2>1, Counted DEF TimerReturns, CountAgrees, Work
<1>14. ASSUME NEW c \in Clients, Accept(c) PROVE CountAgrees'
  <2>1. c \notin clients /\ c \notin Timers /\ running = None
        /\ UNCHANGED <<accepting, pendings, timers, lost, doubled>>
    BY <1>2, <1>14 DEF Accept, Accepting, Quiet
  <2>2. CASE running' = c /\ UNCHANGED <<clients, activecnt>>
    BY <1>1, <1>2, <2>1, <2>2
  <2>3. CASE running' = None /\ clients' = clients \cup {c} /\ activecnt' = activecnt + 1
    BY <2>1, <2>3, ClientCounts
  <2>. QED
    BY <1>14, <2>2, <2>3 DEF Accept
<1>15. CASE \/ ClientReturns \/ WatchdogReturns \/ AcceptFatal \/ Signal \/ TakeTime \/ LogAccess
            \/ TimePasses \/ SetFastwatchdog \/ SetWatchdog
  BY <1>1, <1>2, <1>15
  DEF ClientReturns, WatchdogReturns, AcceptFatal, Accepting, Signal, TakeTime, LogAccess,
      TimePasses, SetFastwatchdog, SetWatchdog, Idle, Quiet
<1>16. ASSUME NEW t \in Timers, NEW secs \in SecsChoices, ScheduleIdle(t, secs) PROVE CountAgrees'
  BY <1>16, ScheduleCounts DEF ScheduleIdle, Idle
<1>17. ASSUME NEW tick, Poll(tick) \/ PollInterrupted(tick) PROVE CountAgrees'
  BY <1>17, <1>1 DEF Poll, PollInterrupted, Quiet
<1>. QED
  BY <1>1, <1>4, <1>6, <1>7, <1>12, <1>13, <1>14, <1>15, <1>16, <1>17 DEF Next, vars, Returns

----------------------------------------------------------------------------
\* LoopInv, the types, where code runs, that an open socket or a deadline
\* accompanies every turn, and the count, is inductive: for any number of stops,
\* signals and runs, whatever application code calls and however long it takes
\* (server.c:1735).
THEOREM LoopInductive == Spec => []LoopInv
<1>1. Init => LoopInv
  <2>. SUFFICES ASSUME Init PROVE LoopInv
    OBVIOUS
  <2>1. TypeOK
    BY InitTypes
  <2>2. Shape
    BY MainLoopAssumption DEF Init, Shape, SocketsOpen, TimersKnown
  <2>3. CountAgrees
    BY MainLoopAssumption, NoneCounted DEF Init, CountAgrees, Work
  <2>. QED
    BY <2>1, <2>2, <2>3 DEF LoopInv
<1>2. LoopInv /\ [Next]_vars => LoopInv'
  <2>. SUFFICES ASSUME LoopInv, [Next]_vars PROVE LoopInv'
    OBVIOUS
  <2>1. TypeOK'
    BY LoopTypesStep, CountTypesStep, TimerTypesStep, WatchTypesStep DEF LoopInv, Shape, TypeOK
  <2>2. Shape'
    BY SocketsStep, KnownStep DEF LoopInv, Shape
  <2>3. CountAgrees'
    BY CountStep DEF LoopInv
  <2>. QED
    BY <2>1, <2>2, <2>3 DEF LoopInv
<1>. QED
  BY <1>1, <1>2, PTL DEF Spec

\* activecnt is the work left and what earlier runs lost, less what has been
\* counted off twice, whatever clients, timers, listening sockets and stops there
\* are (server.c:1735).
THEOREM CountCorrect == Spec => []CountInv
<1>1. LoopInv => CountInv
  BY DEF LoopInv, CountInv
<1>. QED
  BY <1>1, LoopInductive, PTL

\* only the test at the top of the loop ends a run
LEMMA EndIsLeave ==
  ASSUME LoopInv, [Next]_vars, phase = "top", phase' = "idle"
  PROVE  Leave
<1>1. running \notin Timers /\ running # Watchdog
  BY DEF LoopInv, Shape, TimersKnown
<1>2. ~Call
  BY DEF Call, ScheduleCall, Cancel, Register, CancelWait, Stop, Calling
<1>3. Turn => Leave
  BY DEF Turn, Enter, FirePending, PendingsDone, FireDueTimer, TimersDone, DeliverClient,
         DeliverPart, DeliverListener, DropStaleEvent, Delivering, ClientTimesOut, AcceptDone,
         Accepting, Delivered, Scan, HandleSignal, WatchPasses, CallWatchdog, Watching
<1>. QED
  BY <1>1, <1>2, <1>3
  DEF Next, vars, Run, TimePasses, SetFastwatchdog, SetWatchdog, ScheduleIdle, Idle, TakeTime,
      LogAccess, Returns, ClientReturns, WatchdogReturns, TimerReturns, Signal, Poll,
      PollInterrupted, Accept, Accepting, AcceptFatal, AcceptFails, ParentGone, Watching

LEMMA EndsWithoutWork ==
  ASSUME LoopInv, Leave, loop_done
  PROVE  Work <= doubled /\ (accepting = {} \/ doubled > 0)
<1>1. /\ activecnt <= 0 /\ activecnt \in Int /\ lost \in Nat /\ doubled \in Nat
      /\ activecnt = Work + lost - doubled
  BY DEF LoopInv, CountAgrees, Leave, TypeOK, CountTypes
<1>. DEFINE c == Cardinality(clients)
            a == Cardinality(accepting)
            p == Len(pendings)
            t == Cardinality(timers)
            r == IF running \in Timers THEN 1 ELSE 0
<1>2. c \in Nat /\ a \in Nat /\ p \in Nat /\ t \in Nat /\ r \in Nat
  BY Counted DEF LoopInv
<1>3. Work = c + a + p + t + r
  BY DEF Work
<1>4. Work <= doubled /\ (a = 0 \/ doubled > 0)
  <2>. HIDE DEF c, a, p, t, r
  <2>. QED
    BY <1>1, <1>2, <1>3
<1>5. a = 0 => accepting = {}
  BY Counted, FS_EmptySet DEF LoopInv
<1>. QED
  BY <1>4, <1>5

\* A run that nothing forced to end leaves no client, call or timer behind,
\* or no more of them than have been counted off twice (server.c:1735, 1584).
THEOREM EndsGracefully == Spec => GracefulExit
<1>1. LoopInv /\ [Next]_vars
        => [phase = "top" /\ phase' = "idle" /\ loop_done => Work <= doubled]_vars
  BY EndIsLeave, EndsWithoutWork
<1>. QED
  BY <1>1, LoopInductive, PTL DEF Spec, GracefulExit

\* A run that was not told to stop never ends by itself, whatever a forced
\* end of an earlier run has left in the count, unless something was counted
\* off twice (server.c:52, 1735).
THEOREM ServesOn == Spec => ServesUntilStopped
<1>1. Listeners # {}
  <2>1. 1 \in 1 .. Len(ListenSocks)
    BY MainLoopAssumption
  <2>. QED
    BY <2>1 DEF Listeners
<1>2. LoopInv /\ [Next]_vars
        => [phase = "top" /\ phase' = "idle" /\ loop_done => deadline # Never \/ doubled > 0]_vars
  <2>. SUFFICES ASSUME LoopInv, [Next]_vars, phase = "top", phase' = "idle", loop_done
                PROVE  deadline # Never \/ doubled > 0
    OBVIOUS
  <2>1. accepting # Listeners \/ doubled > 0
    BY <1>1, EndIsLeave, EndsWithoutWork
  <2>. QED
    BY <2>1 DEF LoopInv, Shape, SocketsOpen
<1>. QED
  BY <1>2, LoopInductive, PTL DEF Spec, ServesUntilStopped

----------------------------------------------------------------------------
(* The deadline.  A stop arms kill_callback no later than its deadline;     *)
(* only accept_callback moves it, and says so in moved; and it is overdue   *)
(* nowhere but in the scan, which fires it.  That the clock runs while code *)
(* runs, and that interrupted polls leave now behind, only delays the turn  *)
(* that sees the deadline passed.                                           *)
TimeOrdered == now <= clock /\ cached <= clock

KillArmed ==
  deadline # Never /\ loop_done /\ ~moved => killAt # Never /\ killAt <= deadline

KillNotMissed == phase # "scan" /\ killAt # Never => now <= killAt

DeadlineInv ==
  TimeOrdered /\ KillArmed /\ KillNotMissed /\ (phase = "idle" => deadline = Never /\ killAt = Never)

\* kill_server puts the deadline and the timeout where they belong
LEMMA KillServerKept ==
  ASSUME LoopInv, DeadlineInv, NEW timeout \in Nat, KillServer(timeout), UNCHANGED timeVars,
         phase' # "idle"
  PROVE  DeadlineInv'
<1>. USE DEF LoopInv, TypeOK, LoopTypes, CountTypes
<1>1. KillIn(timeout) \in Nat /\ KillIn(timeout) >= 1
  BY DEF KillIn
<1>2. killAt' = now + KillIn(timeout) /\ deadline' = clock + KillIn(timeout)
  BY DEF KillServer
<1>3. now \in Nat /\ clock \in Nat /\ now <= clock
  BY DEF DeadlineInv, TimeOrdered
<1>4. killAt' # Never /\ killAt' <= deadline' /\ now <= killAt'
  BY <1>1, <1>2, <1>3
<1>. QED
  BY <1>4 DEF DeadlineInv, TimeOrdered, KillArmed, KillNotMissed

\* the clock only goes forward, and is read from itself
LEMMA TimeStep ==
  ASSUME LoopInv, DeadlineInv, [Next]_vars
  PROVE  TimeOrdered'
<1>. USE DEF LoopInv, TypeOK, LoopTypes, DeadlineInv, TimeOrdered
<1>1. ASSUME UNCHANGED timeVars PROVE TimeOrdered'
  BY <1>1
<1>2. CASE Run
  BY <1>2 DEF Run
<1>3. CASE TimePasses \/ TakeTime \/ LogAccess
  BY <1>3 DEF TimePasses, TakeTime, Ticks, LogAccess
<1>4. ASSUME NEW tick \in {0, 1}, Poll(tick) \/ PollInterrupted(tick) PROVE TimeOrdered'
  BY <1>4 DEF Poll, PollInterrupted, Waited, Ticks
<1>5. ASSUME NEW c \in Clients, Accept(c) PROVE TimeOrdered'
  BY <1>5 DEF Accept, Accepting
<1>6. CASE Delivered
  BY <1>6 DEF Delivered
<1>7. CASE Call
  BY <1>1, <1>7 DEF Call, ScheduleCall, Cancel, Register, CancelWait, Stop, Calling
<1>8. CASE Turn
  BY <1>1, <1>6, <1>8
  DEF Turn, Enter, Leave, FirePending, PendingsDone, FireDueTimer, TimersDone, DeliverClient,
      DeliverPart, DeliverListener, DropStaleEvent, Delivering, ClientTimesOut, AcceptDone,
      Accepting, Scan, HandleSignal, WatchPasses, CallWatchdog, Watching
<1>. QED
  BY <1>1, <1>2, <1>3, <1>4, <1>5, <1>7, <1>8
  DEF Next, vars, SetFastwatchdog, SetWatchdog, ScheduleIdle, Returns, ClientReturns,
      WatchdogReturns, TimerReturns, Signal, AcceptFatal, Accepting, AcceptFails, ParentGone, Watching

LEMMA DeadlineStep ==
  ASSUME LoopInv, DeadlineInv, [Next]_vars
  PROVE  DeadlineInv'
<1>. DEFINE Kept == UNCHANGED <<now, loop_done, stopVars>>
<1>1. TimeOrdered'
  BY TimeStep
<1>2. ASSUME Kept, phase' = phase \/ phase \notin {"idle", "scan"}, phase' # "idle" \/ phase = "idle"
      PROVE  DeadlineInv'
  BY <1>1, <1>2 DEF DeadlineInv, KillArmed, KillNotMissed
<1>3. ASSUME NEW timeout \in Nat, KillServer(timeout), UNCHANGED timeVars, phase' # "idle"
      PROVE  DeadlineInv'
  BY <1>3, KillServerKept
<1>4. CASE Call
  <2>1. running # None /\ UNCHANGED <<phase, timeVars>>
    BY <1>4 DEF Call, ScheduleCall, Cancel, Register, CancelWait, Stop, Calling
  <2>2. phase # "idle"
    BY <2>1 DEF LoopInv, Shape, TimersKnown
  <2>3. Kept \/ \E timeout \in StopChoices : KillServer(timeout)
    BY <1>4, <2>1 DEF Call, ScheduleCall, Schedule, Cancel, Register, CancelWait, Stop
  <2>. QED
    BY <1>2, <1>3, <2>1, <2>2, <2>3, MainLoopAssumption
<1>5. ASSUME AcceptFails \/ \E timeout \in StopChoices : ParentGone(timeout) PROVE DeadlineInv'
  BY <1>3, <1>5, MainLoopAssumption DEF AcceptFails, ParentGone, Watching
<1>6. CASE HandleSignal
  BY <1>2, <1>3, <1>6 DEF HandleSignal
<1>7. CASE Run
  <2>1. phase = "idle" /\ phase' = "top" /\ now' = clock /\ UNCHANGED stopVars
    BY <1>7 DEF Run
  <2>2. deadline' = Never
    BY <2>1 DEF DeadlineInv
  <2>3. killAt' = Never
    BY <2>1 DEF DeadlineInv
  <2>. QED
    BY <1>1, <2>1, <2>2, <2>3 DEF DeadlineInv, KillArmed, KillNotMissed
<1>8. CASE Leave
  BY <1>1, <1>8 DEF Leave, DeadlineInv, KillArmed, KillNotMissed
<1>9. ASSUME NEW c \in Clients, Accept(c) PROVE DeadlineInv'
  <2>1. phase = "accept" /\ UNCHANGED <<phase, now, loop_done, deadline>>
    BY <1>9 DEF Accept, Accepting
  <2>2. CASE UNCHANGED stopVars
    BY <1>2, <2>1, <2>2
  <2>3. CASE killAt' = now + ReadTimeout /\ moved' = TRUE
    <3>1. now \in Nat /\ ReadTimeout \in Nat
      BY MainLoopAssumption DEF LoopInv, TypeOK, LoopTypes
    <3>2. now <= killAt'
      BY <2>3, <3>1
    <3>. QED
      BY <1>1, <2>1, <2>3, <3>2 DEF DeadlineInv, KillArmed, KillNotMissed
  <2>. QED
    BY <1>9, <2>2, <2>3 DEF Accept
<1>10. CASE AcceptFatal
  <2>1. /\ phase = "accept" /\ phase' = "deliver" /\ loop_done' = FALSE
        /\ UNCHANGED <<now, stopVars>>
    BY <1>10 DEF AcceptFatal, Accepting
  <2>. QED
    BY <1>1, <2>1 DEF DeadlineInv, KillArmed, KillNotMissed
<1>11. CASE Delivered
  <2>1. /\ phase = "deliver" /\ phase' = "scan" /\ UNCHANGED <<loop_done, stopVars>>
    BY <1>11 DEF Delivered
  <2>. QED
    BY <1>1, <2>1 DEF DeadlineInv, KillArmed, KillNotMissed
<1>12. CASE Scan
  <2>1. phase = "scan" /\ phase' = "signal" /\ UNCHANGED <<now, deadline, moved>>
    BY <1>12 DEF Scan
  <2>2. CASE KillIsDue
    <3>1. killAt' = Never /\ loop_done' = FALSE
      BY <1>12, <2>2 DEF Scan, KillCallback
    <3>. QED
      BY <1>1, <2>1, <3>1 DEF DeadlineInv, KillArmed, KillNotMissed
  <2>3. CASE ~KillIsDue
    <3>1. UNCHANGED <<killAt, loop_done>>
      BY <1>12, <2>3 DEF Scan
    <3>2. killAt # Never => now <= killAt
      BY <2>3 DEF KillIsDue, LoopInv, TypeOK, LoopTypes, CountTypes
    <3>. QED
      BY <1>1, <2>1, <3>1, <3>2 DEF DeadlineInv, KillArmed, KillNotMissed
  <2>. QED
    BY <2>2, <2>3
<1>13. ASSUME NEW fd, Delivery(fd) PROVE DeadlineInv'
  <2>1. /\ phase \in {"deliver", "scan"}
        /\ \/ phase' = phase
           \/ phase = "deliver" /\ phase' = "accept"
        /\ UNCHANGED <<now, loop_done, stopVars>>
    BY <1>13
    DEF Delivery, DeliverClient, DeliverPart, DeliverListener, DropStaleEvent, Delivering,
        ClientTimesOut, ClientCalledBack
  <2>. QED
    BY <1>2, <2>1
<1>14. CASE Turn
  BY <1>2, <1>6, <1>8, <1>11, <1>12, <1>13, <1>14
  DEF Turn, Delivery, Enter, FirePending, PendingsDone, FireDueTimer, TimersDone, AcceptDone,
      Accepting, WatchPasses, CallWatchdog, Watching
<1>15. ASSUME NEW raised \in BOOLEAN, TimerReturns(raised) PROVE DeadlineInv'
  <2>1. phase \in {"pendings", "timers"} /\ phase' \in {"pendings", "timers", "poll"}
    BY <1>15 DEF TimerReturns, LoopInv, Shape, TimersKnown
  <2>. QED
    BY <1>2, <1>15, <2>1 DEF TimerReturns
<1>16. CASE WatchdogReturns
  <2>1. phase = "watch"
    BY <1>16 DEF WatchdogReturns, LoopInv, Shape, TimersKnown
  <2>. QED
    BY <1>2, <1>16, <2>1 DEF WatchdogReturns
<1>17. CASE \/ ClientReturns \/ Signal \/ TakeTime \/ LogAccess \/ UNCHANGED vars
            \/ TimePasses \/ SetFastwatchdog \/ SetWatchdog
  BY <1>2, <1>17
  DEF ClientReturns, Signal, TakeTime, LogAccess, TimePasses, SetFastwatchdog, SetWatchdog, Idle, vars
<1>18. ASSUME NEW t \in Timers, NEW secs, ScheduleIdle(t, secs) PROVE DeadlineInv'
  BY <1>2, <1>18 DEF ScheduleIdle, Schedule, Idle
<1>19. ASSUME NEW tick, Poll(tick) \/ PollInterrupted(tick) PROVE DeadlineInv'
  BY <1>2, <1>19 DEF Poll, PollInterrupted, Waited
<1>. QED
  BY <1>4, <1>5, <1>7, <1>9, <1>10, <1>14, <1>15, <1>16, <1>17, <1>18, <1>19 DEF Next, Returns

\* The first turn that sees the time given to the last stop passed is the last
\* one, unless an accept made by the same accept_callback after the stop has moved
\* kill_callback: however many clients, calls, signals and stops there are, and
\* however long application code takes (server.c:434-442, 1103).
THEOREM DeadlineHolds == Spec => []DeadlineKept
<1>1. Init => DeadlineInv
  BY MainLoopAssumption DEF Init, DeadlineInv, TimeOrdered, KillArmed, KillNotMissed
<1>2. LoopInv /\ DeadlineInv /\ [Next]_vars => DeadlineInv'
  BY DeadlineStep
<1>3. LoopInv /\ DeadlineInv => DeadlineKept
  BY DEF LoopInv, TypeOK, LoopTypes, CountTypes, DeadlineInv, KillArmed, KillNotMissed, DeadlineKept
<1>. QED
  BY <1>1, <1>2, <1>3, LoopInductive, PTL DEF Spec
=============================================================================
