---------------------------- MODULE PicoevProofs ----------------------------
EXTENDS Picoev, PicoevOpsProofs

LEMMA ClearGroupType ==
  ASSUME NEW L \in LoopState, NEW i
  PROVE  ClearGroup(L, i) \in LoopState
BY DEF ClearGroup, LoopState

----------------------------------------------------------------------------
(* Type correctness of the loop, for every size of the wheel and of a word, *)
(* whatever the callbacks call and however the clock moves.                 *)
THEOREM TypeCorrect == Spec => []TypeOK
<1>1. Init => TypeOK
  <2> SUFFICES ASSUME Init PROVE TypeOK
    OBVIOUS
  <2>1. loop \in LoopState
    BY PicoevAssumption, LoopAssumption DEF Init, FreshLoop, LoopState, Slots
  <2> QED BY <2>1, LoopAssumption DEF Init, TypeOK
<1>2. TypeOK /\ [Next]_vars => TypeOK'
  <2> SUFFICES ASSUME TypeOK, [Next]_vars PROVE TypeOK'
    OBVIOUS
  <2> USE DEF TypeOK
  <2>1. CASE Call
    <3>1. ASSUME NEW fd \in Fds, NEW evs \in EventChoices,
                 NEW secs \in SecsChoices, NEW cb \in Callbacks,
                 Add(fd, evs, secs, cb)
          PROVE  TypeOK'
      <4>1. secs \in Nat /\ evs \in SUBSET RW
        BY LoopAssumption
      <4>2. loop' \in LoopState
        BY <3>1, <4>1, AddType DEF Add
      <4>3. Delta(loop, secs) \in Nat /\ loop.base_time \in Nat
        BY <4>1, DeltaInRange DEF LoopState
      <4>4. Ends(secs) \in Nat
        BY <4>1, PicoevAssumption DEF Ends, LatestDue, LoopState
      <4> QED BY <3>1, <4>1, <4>2, <4>3, <4>4 DEF Add, Calling, Remember, scanVars
    <3>2. ASSUME NEW fd \in Fds, Del(fd) PROVE TypeOK'
      BY <3>2, DelType DEF Del, Calling, Forget, scanVars
    <3>3. ASSUME NEW fd \in Fds, NEW secs \in SecsChoices, SetTimeout(fd, secs)
          PROVE  TypeOK'
      <4>1. secs \in Nat
        BY LoopAssumption
      <4>2. loop' \in LoopState
        BY <3>3, <4>1, SetTimeoutType DEF SetTimeout
      <4>3. Delta(loop, secs) \in Nat /\ loop.base_time \in Nat
        BY <4>1, DeltaInRange DEF LoopState
      <4>4. Ends(secs) \in Nat
        BY <4>1, PicoevAssumption DEF Ends, LatestDue, LoopState
      <4> QED BY <3>3, <4>1, <4>2, <4>3, <4>4
              DEF SetTimeout, Calling, Remember, scanVars
    <3>4. ASSUME NEW fd \in Fds, CloseFd(fd) PROVE TypeOK'
      <4>1. loop' \in LoopState
        BY <3>4 DEF CloseFd, SysClose, LoopState
      <4> QED BY <3>4, <4>1 DEF CloseFd, Calling, scanVars
    <3>5. CASE TakeTime
      BY <3>5 DEF TakeTime, Calling, scanVars
    <3> QED BY <2>1, <3>1, <3>2, <3>3, <3>4, <3>5 DEF Call
  <2>2. CASE Return
    BY <2>2 DEF Return, scanVars
  <2>3. CASE Poll
    <3>1. CASE EpollWait
      BY <3>1, LoopAssumption DEF EpollWait, Waited, scanVars
    <3>2. CASE EpollWaitFails
      BY <3>2, LoopAssumption DEF EpollWaitFails, Waited, scanVars
    <3>3. ASSUME NEW fd \in batch,
                 Deliver(fd) \/ DeliverNothing(fd) \/ DropStaleEvent(fd)
          PROVE  TypeOK'
      <4>1. loop' \in LoopState
        BY <3>3 DEF Deliver, DeliverNothing, DropStaleEvent, LoopState
      <4> QED BY <3>3, <4>1
              DEF Deliver, DeliverNothing, DropStaleEvent, Delivering, scanVars
    <3>4. CASE StartScan
      <4>1. loop' \in LoopState
        BY <3>4 DEF StartScan, LoopState
      <4> QED BY <3>4, <4>1 DEF StartScan
    <3> QED BY <2>3, <3>1, <3>2, <3>3, <3>4 DEF Poll
  <2>4. CASE Scan
    <3>1. ASSUME NEW i \in groups, EnterGroup(i) PROVE TypeOK'
      BY <3>1 DEF EnterGroup, Scanning, LoopState
    <3>2. ASSUME NEW j \in vv, EnterWord(j) PROVE TypeOK'
      BY <3>2 DEF EnterWord, Scanning, LoopState
    <3>3. ASSUME NEW j \in vv, LeaveWord(j) PROVE TypeOK'
      <4>1. ClearWord(loop, j) \in LoopState
        BY DEF ClearWord, LoopState
      <4>2. loop' \in LoopState
        BY <3>3, <4>1, ClearGroupType DEF LeaveWord
      <4> QED BY <3>3, <4>2 DEF LeaveWord, Scanning
    <3>4. ASSUME NEW fd \in bits, Fire(fd) PROVE TypeOK'
      <4>1. loop' \in LoopState
        BY <3>4 DEF Fire, LoopState, Unused
      <4> QED BY <3>4, <4>1 DEF Fire, Scanning, Forget
    <3>5. CASE NextSlot
      <4>1. (loop.base_idx + 1) % VecSize \in Slots
        BY ModRange, PicoevAssumption DEF LoopState, Slots
      <4>2. ASSUME NEW k \in Slots
            PROVE  [loop EXCEPT !.base_idx = k, !.base_time = @ + 1] \in LoopState
        <5>1. loop.base_time + 1 \in Nat
          BY DEF LoopState
        <5>2. ASSUME NEW t \in Nat
              PROVE  [loop EXCEPT !.base_idx = k, !.base_time = t] \in LoopState
          BY DEF LoopState
        <5> QED BY <5>1, <5>2
      <4>3. loop' \in LoopState
        BY <3>5, <4>1, <4>2 DEF NextSlot, Resolution
      <4> QED BY <3>5, <4>3 DEF NextSlot, Scanning
    <3>6. CASE EndScan
      BY <3>6 DEF EndScan, Scanning
    <3> QED BY <2>4, <3>1, <3>2, <3>3, <3>4, <3>5, <3>6 DEF Scan
  <2>5. CASE UNCHANGED vars
    BY <2>5 DEF vars, scanVars
  <2> QED BY <2>1, <2>2, <2>3, <2>4, <2>5 DEF Next
<1> QED BY <1>1, <1>2, PTL DEF Spec

----------------------------------------------------------------------------
\* the exceptions that the scan makes to Agree and Marks
HandledFds   == {fd \in Fds : phase = "scan" /\ Handled(fd)}
HandledWords == {w \in Words(Fds) : w \notin vv /\ \E x \in vv : GroupOf(x) = GroupOf(w)}

LEMMA WheelAsAgree ==
  ASSUME TypeOK
  PROVE  /\ WheelAgrees <=> Agree(loop, HandledFds)
         /\ WordsMarked /\ MarksExplained <=> Marks(loop, HandledWords)
<1>1. /\ \A s \in Slots : loop.vec[s] \subseteq Fds /\ loop.vov[s] \subseteq Words(Fds)
  BY DEF TypeOK, LoopState
<1>2. WheelAgrees <=> Agree(loop, HandledFds)
  BY <1>1 DEF WheelAgrees, Agree, HandledFds, Armed
<1>3. WordsMarked /\ MarksExplained => Marks(loop, HandledWords)
  BY <1>1 DEF WordsMarked, MarksExplained, Marks, HandledWords, Words
<1>4. Marks(loop, HandledWords) => WordsMarked /\ MarksExplained
  BY <1>1 DEF WordsMarked, MarksExplained, Marks, HandledWords, Words
<1> QED BY <1>2, <1>3, <1>4

(* A call on fd by the running code: enough is that the operation keeps     *)
(* Agree and Marks and, during the scan, stays out of the current slot.     *)
LEMMA CallKeepsWheel ==
  ASSUME WheelInv, TypeOK', NEW fd \in Fds,
         UNCHANGED <<phase, running, groups, vv, bits, inWord>>,
         Agree(loop', HandledFds), Marks(loop', HandledWords),
         Frame(loop, loop', fd),
         phase = "scan" => /\ SameSlot(loop, loop', loop.base_idx)
                           /\ loop'.tidx[fd] # loop.base_idx
  PROVE  WheelInv'
<1> USE DEF WheelInv
<1>1. HandledFds' = HandledFds /\ HandledWords' = HandledWords
  BY DEF HandledFds, HandledWords, Handled, IsLeast
<1>2. WheelAgrees' /\ WordsMarked' /\ MarksExplained'
  <2>1. \A s \in Slots : loop'.vec[s] \subseteq Fds /\ loop'.vov[s] \subseteq Words(Fds)
    BY DEF TypeOK, LoopState
  <2>2. WheelAgrees'
    BY <1>1, <2>1 DEF WheelAgrees, Agree, HandledFds, Armed
  <2>3. WordsMarked' /\ MarksExplained'
    BY <1>1, <2>1 DEF WordsMarked, MarksExplained, Marks, HandledWords, Words
  <2> QED BY <2>2, <2>3
<1>3. ScanShape'
  BY DEF ScanShape, Handled, IsLeast, SlotIsDue, Frame
<1>4. ScanCovers'
  BY DEF ScanCovers, ScanShape, SameSlot, Frame
<1>5. BitsUnhandled'
  <2>1. ASSUME NEW g \in bits
        PROVE  g \in loop'.vec[loop'.base_idx] /\ IsLeast(WordOf(g), vv)
    BY <2>1 DEF BitsUnhandled, ScanShape, SameSlot, Frame
  <2>2. ASSUME NEW g \in Fds, Handled(g)
        PROVE  ~(/\ loop'.active[g] /\ loop'.tidx[g] # Unused
                 /\ loop'.tidx[g] = loop'.base_idx)
    BY <2>2 DEF BitsUnhandled, ScanShape, Frame, Armed, Handled
  <2> QED BY <2>1, <2>2 DEF BitsUnhandled, Handled, Armed, IsLeast
<1> QED BY <1>2, <1>3, <1>4, <1>5

\* a step that leaves the wheel and the state of the scan as they were
LEMMA QuietStepKeepsWheel ==
  ASSUME WheelInv, TypeOK',
         UNCHANGED <<groups, vv, bits, inWord>>,
         \/ phase' = phase
         \/ phase # "scan" /\ phase' # "scan",
         (running' = Main) <=> (phase' = "main"),
         running' = None \/ running' = running \/ phase' # "scan",
         loop'.vec = loop.vec, loop'.vov = loop.vov, loop'.tidx = loop.tidx,
         loop'.active = loop.active, loop'.base_idx = loop.base_idx,
         loop'.base_time = loop.base_time, loop'.now = loop.now
  PROVE  WheelInv'
<1> USE DEF WheelInv
<1>1. WheelAgrees'
  BY DEF WheelAgrees, Armed, Handled, ScanShape, IsLeast
<1>2. WordsMarked' /\ MarksExplained'
  BY DEF WordsMarked, MarksExplained
<1>3. ScanShape'
  BY LoopAssumption DEF ScanShape, Handled, IsLeast, SlotIsDue
<1>4. ScanCovers'
  BY DEF ScanCovers, ScanShape
<1>5. BitsUnhandled'
  BY DEF BitsUnhandled, Handled, Armed, IsLeast
<1> QED BY <1>1, <1>2, <1>3, <1>4, <1>5

(* The facts of the running code that a call in the scan may rely on.       *)
LEMMA CallDuringScan ==
  ASSUME WheelInv, running # None, phase = "scan"
  PROVE  /\ running \in Fds /\ Handled(running)
         /\ loop.base_time <= loop.now - 1
         /\ loop.active[running] => loop.tidx[running] # loop.base_idx
<1>1. running \in Fds
  BY DEF WheelInv, TypeOK, ScanShape
<1>2. Handled(running) /\ SlotIsDue
  BY <1>1 DEF WheelInv, ScanShape, Handled
<1>3. loop.base_idx # Unused
  BY PicoevAssumption DEF WheelInv, TypeOK, LoopState, Slots, Unused
<1> QED BY <1>1, <1>2, <1>3
        DEF WheelInv, BitsUnhandled, Armed, SlotIsDue, Resolution

LEMMA CallStep ==
  ASSUME ~CrossFd, WheelInv, TypeOK', Call
  PROVE  WheelInv'
<1>1. Agree(loop, HandledFds) /\ Marks(loop, HandledWords) /\ loop \in LoopState
  BY WheelAsAgree DEF WheelInv, TypeOK
<1>2. UNCHANGED <<phase, running, groups, vv, bits, inWord>> /\ running # None
  BY DEF Call, Add, Del, SetTimeout, CloseFd, TakeTime, Calling, scanVars
<1>3. ASSUME NEW fd \in Fds, NEW evs \in EventChoices,
             NEW secs \in SecsChoices, NEW cb \in Callbacks,
             Add(fd, evs, secs, cb)
      PROVE  WheelInv'
  <2>1. evs \in SUBSET RW /\ secs \in Nat /\ ~loop.active[fd]
    BY <1>3, LoopAssumption DEF Add
  <2>2. loop' = PAdd(loop, fd, evs, secs, cb)
    BY <1>3 DEF Add
  <2>3. /\ Agree(loop', HandledFds) /\ Marks(loop', HandledWords)
        /\ Frame(loop, loop', fd)
        /\ loop.base_time <= loop.now - 1 =>
             SameSlot(loop, loop', loop.base_idx) /\ loop'.tidx[fd] # loop.base_idx
    BY <1>1, <2>1, <2>2, AddAgree
  <2>4. phase = "scan" => loop.base_time <= loop.now - 1
    BY <1>2, CallDuringScan
  <2> QED BY <1>2, <2>3, <2>4, CallKeepsWheel
<1>4. ASSUME NEW fd \in Fds, Del(fd) PROVE WheelInv'
  <2>1. loop.active[fd] /\ loop' = PDel(loop, fd)
    BY <1>4 DEF Del
  <2>2. /\ Agree(loop', HandledFds) /\ Marks(loop', HandledWords)
        /\ Frame(loop, loop', fd) /\ loop'.tidx[fd] = Unused
        /\ loop.tidx[fd] # loop.base_idx => SameSlot(loop, loop', loop.base_idx)
    BY <1>1, <2>1, DelAgree
  <2>3. phase = "scan" => fd = running
    BY <1>4 DEF Del, MayTouch
  <2>4. phase = "scan" => loop.tidx[fd] # loop.base_idx
    BY <1>2, <2>1, <2>3, CallDuringScan
  <2>5. Unused # loop.base_idx
    BY <1>1, PicoevAssumption DEF LoopState, Slots, Unused
  <2> QED BY <1>2, <2>2, <2>4, <2>5, CallKeepsWheel
<1>5. ASSUME NEW fd \in Fds, NEW secs \in SecsChoices, SetTimeout(fd, secs)
      PROVE  WheelInv'
  <2>1. loop.active[fd] /\ secs \in Nat /\ loop' = PSetTimeout(loop, fd, secs)
    BY <1>5, LoopAssumption DEF SetTimeout
  <2>2. /\ Agree(loop', HandledFds) /\ Marks(loop', HandledWords)
        /\ Frame(loop, loop', fd)
        /\ loop.tidx[fd] # loop.base_idx /\ loop.base_time <= loop.now - 1 =>
             SameSlot(loop, loop', loop.base_idx) /\ loop'.tidx[fd] # loop.base_idx
    BY <1>1, <2>1, SetTimeoutAgree
  <2>3. phase = "scan" => fd = running
    BY <1>5 DEF SetTimeout, MayTouch
  <2>4. phase = "scan" =>
          loop.tidx[fd] # loop.base_idx /\ loop.base_time <= loop.now - 1
    BY <1>2, <2>1, <2>3, CallDuringScan
  <2> QED BY <1>2, <2>2, <2>4, CallKeepsWheel
<1>6. ASSUME NEW fd \in Fds, CloseFd(fd) PROVE WheelInv'
  <2>1. loop' = [loop EXCEPT !.watched[fd] = {}]
    BY <1>6 DEF CloseFd, SysClose
  <2>2. /\ loop'.vec = loop.vec /\ loop'.vov = loop.vov
        /\ loop'.tidx = loop.tidx /\ loop'.active = loop.active
        /\ loop'.base_idx = loop.base_idx
        /\ loop'.base_time = loop.base_time /\ loop'.now = loop.now
    BY <1>1, <2>1 DEF LoopState
  <2> QED BY <1>2, <2>2, QuietStepKeepsWheel DEF WheelInv, ScanShape
<1>7. CASE TakeTime
  BY <1>2, <1>7, QuietStepKeepsWheel DEF TakeTime, WheelInv, ScanShape
<1> QED BY <1>3, <1>4, <1>5, <1>6, <1>7 DEF Call

LEMMA PollStep ==
  ASSUME WheelInv, TypeOK', Poll
  PROVE  WheelInv'
<1> USE DEF WheelInv
<1>1. CASE EpollWait
  BY <1>1, QuietStepKeepsWheel, LoopAssumption
     DEF EpollWait, Waited, scanVars, ScanShape
<1>2. CASE EpollWaitFails
  BY <1>2, QuietStepKeepsWheel DEF EpollWaitFails, Waited, scanVars, ScanShape
<1>3. ASSUME NEW fd \in batch, Deliver(fd) \/ DeliverNothing(fd)
      PROVE  WheelInv'
  <2>1. fd \in Fds
    BY DEF TypeOK
  <2> QED BY <1>3, <2>1, QuietStepKeepsWheel, LoopAssumption
          DEF Deliver, DeliverNothing, Delivering, scanVars, ScanShape
<1>4. ASSUME NEW fd \in batch, DropStaleEvent(fd)
      PROVE  WheelInv'
  <2>1. /\ loop'.vec = loop.vec /\ loop'.vov = loop.vov
        /\ loop'.tidx = loop.tidx /\ loop'.active = loop.active
        /\ loop'.base_idx = loop.base_idx
        /\ loop'.base_time = loop.base_time /\ loop'.now = loop.now
    BY <1>4 DEF DropStaleEvent, TypeOK, LoopState
  <2> QED BY <1>4, <2>1, QuietStepKeepsWheel
          DEF DropStaleEvent, Delivering, scanVars, ScanShape
<1>5. CASE StartScan
  <2>1. /\ loop'.vec = loop.vec /\ loop'.vov = loop.vov
        /\ loop'.tidx = loop.tidx /\ loop'.active = loop.active
        /\ loop'.base_idx = loop.base_idx
    BY <1>5 DEF StartScan, TypeOK, LoopState
  <2>2. /\ phase = "deliver" /\ phase' = "scan" /\ running = None /\ running' = None
        /\ groups' = AllGroups /\ vv' = {} /\ bits' = {} /\ ~inWord'
        /\ vv = {} /\ ~inWord
    BY <1>5 DEF StartScan, ScanShape
  <2>3. WheelAgrees'
    BY <2>1, <2>2 DEF WheelAgrees, Armed, Handled
  <2>4. WordsMarked' /\ MarksExplained'
    BY <2>1, <2>2 DEF WordsMarked, MarksExplained
  <2>5. ScanShape'
    BY <2>2, LoopAssumption DEF ScanShape
  <2>6. ScanCovers'
    <3>1. \A fd \in loop.vec[loop.base_idx] : fd \in Fds
      BY DEF TypeOK, LoopState
    <3> QED BY <2>1, <2>2, <3>1 DEF ScanCovers, AllGroups
  <2>7. BitsUnhandled'
    BY <2>2 DEF BitsUnhandled, Handled
  <2> QED BY <2>3, <2>4, <2>5, <2>6, <2>7
<1> QED BY <1>1, <1>2, <1>3, <1>4, <1>5 DEF Poll

LEMMA ScanStep ==
  ASSUME WheelInv, TypeOK', Scan
  PROVE  WheelInv'
<1> USE DEF WheelInv
<1> DEFINE b == loop.base_idx
<1>0. /\ b \in Slots /\ b # Unused
      /\ \A s \in Slots : loop.vec[s] \subseteq Fds /\ loop.vov[s] \subseteq Words(Fds)
      /\ phase = "scan" /\ running = None
  BY PicoevAssumption
     DEF TypeOK, LoopState, Slots, Unused, Scan, EnterGroup, EnterWord, Fire,
         LeaveWord, NextSlot, EndScan, Scanning
<1>1. ASSUME NEW i \in groups, EnterGroup(i) PROVE WheelInv'
  <2>1. /\ vv = {} /\ vv' = {w \in loop.vov[b] : GroupOf(w) = i}
        /\ groups' = IF vv' = {} THEN groups \ {i} ELSE groups
        /\ UNCHANGED <<loop, phase, running, bits, inWord>>
        /\ ~inWord /\ bits = {} /\ SlotIsDue
    BY <1>1 DEF EnterGroup, ScanShape
  <2>2. WheelAgrees'
    BY <2>1 DEF WheelAgrees, Armed, Handled
  <2>3. WordsMarked' /\ MarksExplained'
    BY <1>0, <2>1 DEF WordsMarked, MarksExplained
  <2>4. ScanShape'
    BY <1>0, <2>1, LoopAssumption DEF ScanShape, SlotIsDue
  <2>5. ScanCovers'
    <3>1. \A fd \in loop.vec[b] : WordOf(fd) \in loop.vov[b]
      BY <1>0 DEF WordsMarked, Words
    <3>2. \A fd \in loop.vec[b] : GroupOf(WordOf(fd)) \in groups
      BY <1>0 DEF ScanCovers
    <3> QED BY <1>0, <2>1, <3>1, <3>2 DEF ScanCovers
  <2>6. BitsUnhandled'
    BY <2>1 DEF BitsUnhandled, Handled
  <2> QED BY <2>2, <2>3, <2>4, <2>5, <2>6
<1>2. ASSUME NEW j \in vv, EnterWord(j) PROVE WheelInv'
  <2>1. /\ ~inWord /\ inWord' /\ IsLeast(j, vv)
        /\ bits' = {fd \in loop.vec[b] : WordOf(fd) = j}
        /\ UNCHANGED <<loop, phase, running, groups, vv>>
    BY <1>2 DEF EnterWord
  <2>2. vv \subseteq Int
    BY PicoevAssumption DEF TypeOK, Words, WordOf
  <2>3. \A w \in vv : IsLeast(w, vv) => w = j
    BY <2>1, <2>2 DEF IsLeast
  <2>4. \A fd \in loop.vec[b] : Armed(fd) /\ loop.tidx[fd] = b
    BY <1>0, <2>1 DEF WheelAgrees, Handled
  <2>5. WheelAgrees'
    BY <1>0, <2>1 DEF WheelAgrees, Armed, Handled
  <2>6. WordsMarked' /\ MarksExplained'
    BY <2>1 DEF WordsMarked, MarksExplained
  <2>7. ScanShape'
    BY <1>0, <2>1, LoopAssumption DEF ScanShape, SlotIsDue
  <2>8. ScanCovers'
    BY <2>1 DEF ScanCovers
  <2>9. BitsUnhandled'
    <3>1. ASSUME NEW fd \in Fds, Handled(fd)'
          PROVE  ~(Armed(fd)' /\ loop'.tidx[fd] = loop'.base_idx)
      <4>1. WordOf(fd) = j /\ fd \notin bits'
        BY <2>1, <2>3, <3>1 DEF Handled, IsLeast
      <4>2. fd \notin loop.vec[b]
        BY <2>1, <4>1
      <4> QED BY <1>0, <2>1, <4>2 DEF WheelAgrees, Armed
    <3> QED BY <2>1, <3>1 DEF BitsUnhandled
  <2> QED BY <2>5, <2>6, <2>7, <2>8, <2>9
<1>3. ASSUME NEW k \in bits, Fire(k) PROVE WheelInv'
  <2>1. /\ bits' = bits \ {k} /\ running' = k /\ k \in Fds
        /\ loop' = [loop EXCEPT !.tidx[k] = Unused]
        /\ UNCHANGED <<phase, groups, vv, inWord>>
    BY <1>3 DEF Fire, TypeOK
  <2>2. /\ loop'.vec = loop.vec /\ loop'.vov = loop.vov
        /\ loop'.active = loop.active /\ loop'.base_idx = b
        /\ loop'.base_time = loop.base_time /\ loop'.now = loop.now
        /\ loop'.tidx = [loop.tidx EXCEPT ![k] = Unused]
        /\ loop.tidx \in [Fds -> Slots \cup {Unused}]
    BY <2>1 DEF TypeOK, LoopState
  <2>3. /\ k \in loop.vec[b] /\ IsLeast(WordOf(k), vv) /\ inWord
    BY <1>3 DEF BitsUnhandled, ScanShape
  <2>4. \A s \in Slots : k \in loop.vec[s] => s = b
    <3>1. ~Handled(k)
      BY DEF Handled
    <3>2. loop.tidx[k] = b
      BY <1>0, <2>3, <3>1 DEF WheelAgrees
    <3> QED BY <3>1, <3>2 DEF WheelAgrees
  <2>5. Handled(k)'
    BY <2>1, <2>3 DEF Handled, IsLeast
  <2>6. \A fd \in Fds : fd # k => (Handled(fd)' <=> Handled(fd))
    BY <2>1 DEF Handled, IsLeast
  <2>7. WheelAgrees'
    <3>1. ASSUME NEW fd \in Fds, Armed(fd)' PROVE fd \in loop'.vec[loop'.tidx[fd]]
      BY <2>1, <2>2, <3>1 DEF WheelAgrees, Armed
    <3>2. ASSUME NEW s \in Slots, NEW fd \in loop'.vec[s]
          PROVE  \/ Armed(fd)' /\ loop'.tidx[fd] = s
                 \/ phase' = "scan" /\ s = loop'.base_idx /\ Handled(fd)'
      <4>1. fd \in Fds /\ fd \in loop.vec[s]
        BY <1>0, <2>2, <3>2
      <4>2. \/ Armed(fd) /\ loop.tidx[fd] = s
            \/ phase = "scan" /\ s = b /\ Handled(fd)
        BY <4>1 DEF WheelAgrees
      <4> QED BY <1>0, <2>1, <2>2, <2>4, <2>5, <2>6, <4>1, <4>2 DEF Armed
    <3> QED BY <3>1, <3>2 DEF WheelAgrees
  <2>8. WordsMarked' /\ MarksExplained'
    BY <2>1, <2>2 DEF WordsMarked, MarksExplained
  <2>9. ScanShape'
    BY <1>0, <2>1, <2>2, <2>3, <2>5, LoopAssumption DEF ScanShape, SlotIsDue
  <2>10. ScanCovers'
    BY <2>1, <2>2 DEF ScanCovers
  <2>11. BitsUnhandled'
    <3>1. \A fd \in bits' : fd \in loop'.vec[loop'.base_idx] /\ IsLeast(WordOf(fd), vv')
      BY <2>1, <2>2 DEF BitsUnhandled, IsLeast
    <3>2. ASSUME NEW fd \in Fds, Handled(fd)'
          PROVE  ~(Armed(fd)' /\ loop'.tidx[fd] = loop'.base_idx)
      BY <2>1, <2>2, <2>6, <3>2 DEF BitsUnhandled, Armed
    <3> QED BY <3>1, <3>2 DEF BitsUnhandled
  <2> QED BY <2>7, <2>8, <2>9, <2>10, <2>11
<1>4. ASSUME NEW j \in vv, LeaveWord(j) PROVE WheelInv'
  <2>1. /\ inWord /\ ~inWord' /\ bits = {} /\ IsLeast(j, vv)
        /\ vv' = vv \ {j}
        /\ UNCHANGED <<phase, running, bits>>
    BY <1>4 DEF LeaveWord
  <2>2. PICK i \in groups :
          /\ \A w \in vv : GroupOf(w) = i
          /\ \A fd \in loop.vec[b] : GroupOf(WordOf(fd)) = i => WordOf(fd) \in vv
    BY <1>4 DEF ScanCovers
  <2>3. GroupOf(j) = i
    BY <2>2
  <2>4. /\ loop'.vec = [loop.vec EXCEPT ![b] = {fd \in loop.vec[b] : WordOf(fd) # j}]
        /\ loop'.active = loop.active /\ loop'.tidx = loop.tidx
        /\ loop'.base_idx = b
        /\ loop'.base_time = loop.base_time /\ loop'.now = loop.now
        /\ \A s \in Slots : s # b => loop'.vov[s] = loop.vov[s]
        /\ vv' # {} => loop'.vov = loop.vov /\ groups' = groups
        /\ vv' = {} => /\ loop'.vov[b] = {w \in loop.vov[b] : GroupOf(w) # i}
                       /\ groups' = groups \ {i}
    <3> DEFINE C == ClearWord(loop, j)
    <3>1. /\ C.vec = [loop.vec EXCEPT ![b] = {fd \in loop.vec[b] : WordOf(fd) # j}]
          /\ C.active = loop.active /\ C.tidx = loop.tidx
          /\ C.base_idx = b
          /\ C.base_time = loop.base_time /\ C.now = loop.now
          /\ C.vov = loop.vov
      BY DEF ClearWord, TypeOK, LoopState
    <3>2. C \in LoopState
      BY DEF ClearWord, TypeOK, LoopState
    <3> HIDE DEF C
    <3>3. CASE vv' # {}
      <4>1. loop' = C /\ groups' = groups
        BY <1>4, <3>3 DEF LeaveWord, C
      <4> QED BY <3>1, <3>3, <4>1
    <3>4. CASE vv' = {}
      <4> DEFINE G == ClearGroup(C, i)
      <4>1. loop' = G /\ groups' = groups \ {i}
        BY <1>4, <2>3, <3>4 DEF LeaveWord, C
      <4>2. /\ G.vec = C.vec /\ G.active = C.active /\ G.tidx = C.tidx
            /\ G.base_idx = C.base_idx
            /\ G.base_time = C.base_time /\ G.now = C.now
        BY <3>2 DEF ClearGroup, LoopState
      <4>3. G.vov = [C.vov EXCEPT ![b] = {w \in C.vov[b] : GroupOf(w) # i}]
        BY <3>1, <3>2 DEF ClearGroup, LoopState
      <4>4. C.vov \in [Slots -> SUBSET Words(Fds)]
        BY <3>2 DEF LoopState
      <4> HIDE DEF G
      <4> QED BY <1>0, <3>1, <3>4, <4>1, <4>2, <4>3, <4>4
    <3> QED BY <3>3, <3>4
  <2>5. /\ loop'.vec[b] = {fd \in loop.vec[b] : WordOf(fd) # j}
        /\ \A s \in Slots : s # b => loop'.vec[s] = loop.vec[s]
    BY <1>0, <2>4 DEF TypeOK, LoopState
  <2>6. vv \subseteq Int
    BY PicoevAssumption DEF TypeOK, Words, WordOf
  <2>7. \A w \in vv : IsLeast(w, vv) => w = j
    BY <2>1, <2>6 DEF IsLeast
  <2>8. \A fd \in Fds : WordOf(fd) = j => Handled(fd)
    BY <2>1 DEF Handled
  <2>9. \A fd \in Fds : Handled(fd) => WordOf(fd) = j
    BY <2>7 DEF Handled, IsLeast
  <2>10. WheelAgrees'
    <3>1. ASSUME NEW fd \in Fds, Armed(fd)' PROVE fd \in loop'.vec[loop'.tidx[fd]]
      <4>1. Armed(fd) /\ fd \in loop.vec[loop.tidx[fd]]
        BY <2>4, <3>1 DEF WheelAgrees, Armed
      <4>2. loop.tidx[fd] \in Slots
        BY <4>1 DEF Armed, TypeOK, LoopState
      <4>3. loop.tidx[fd] = b => WordOf(fd) # j
        BY <2>8, <4>1 DEF BitsUnhandled
      <4> QED BY <2>4, <2>5, <4>1, <4>2, <4>3
    <3>2. ASSUME NEW s \in Slots, NEW fd \in loop'.vec[s]
          PROVE  Armed(fd)' /\ loop'.tidx[fd] = s
      <4>1. fd \in Fds /\ fd \in loop.vec[s] /\ (s = b => WordOf(fd) # j)
        BY <1>0, <2>5, <3>2
      <4>2. Armed(fd) /\ loop.tidx[fd] = s
        BY <2>9, <4>1 DEF WheelAgrees
      <4> QED BY <2>4, <4>2 DEF Armed
    <3> QED BY <3>1, <3>2 DEF WheelAgrees
  <2>11. WordsMarked'
    <3>1. ASSUME NEW s \in Slots, NEW fd \in loop'.vec[s]
          PROVE  WordOf(fd) \in loop'.vov[s]
      <4>1. fd \in loop.vec[s] /\ WordOf(fd) \in loop.vov[s]
        BY <2>5, <3>1 DEF WordsMarked, Words
      <4>2. CASE s # b \/ vv' # {}
        BY <2>4, <4>1, <4>2
      <4>3. CASE s = b /\ vv' = {}
        <5>1. GroupOf(WordOf(fd)) # i
          BY <2>1, <2>2, <2>5, <3>1, <4>1, <4>3
        <5> QED BY <2>4, <4>1, <4>3, <5>1
      <4> QED BY <4>2, <4>3
    <3> QED BY <3>1 DEF WordsMarked, Words
  <2>12. MarksExplained'
    <3>1. ASSUME NEW s \in Slots, NEW w \in loop'.vov[s]
          PROVE  \/ w \in Words(loop'.vec[s])
                 \/ s = loop'.base_idx /\ w \notin vv' /\ \E x \in vv' : GroupOf(x) = GroupOf(w)
      <4>1. w \in loop.vov[s]
        BY <2>4, <3>1
      <4>2. CASE s # b
        <5>1. w \in Words(loop.vec[s])
          BY <4>1, <4>2 DEF MarksExplained
        <5> QED BY <2>5, <4>2, <5>1
      <4>3. CASE s = b /\ w # j
        <5>1. CASE w \in Words(loop.vec[b])
          BY <2>5, <4>3, <5>1 DEF Words
        <5>2. CASE w \notin vv /\ \E x \in vv : GroupOf(x) = GroupOf(w)
          <6>1. GroupOf(w) = i
            BY <2>2, <5>2
          <6>2. vv' # {}
            BY <2>4, <3>1, <4>3, <6>1
          <6> QED BY <2>1, <2>2, <2>4, <4>3, <5>2, <6>1, <6>2
        <5> QED BY <4>1, <4>3, <5>1, <5>2 DEF MarksExplained
      <4>4. CASE s = b /\ w = j
        <5>1. vv' # {}
          BY <2>3, <2>4, <3>1, <4>4
        <5> QED BY <2>1, <2>2, <2>3, <2>4, <4>4, <5>1
      <4> QED BY <4>2, <4>3, <4>4
    <3> QED BY <3>1 DEF MarksExplained
  <2>13. ScanShape'
    BY <1>0, <2>1, <2>4, LoopAssumption DEF ScanShape, SlotIsDue
  <2>14. ScanCovers'
    <3>1. \A fd \in loop'.vec[b] : GroupOf(WordOf(fd)) \in groups'
      <4>1. \A fd \in loop.vec[b] : GroupOf(WordOf(fd)) \in groups
        BY <1>0 DEF ScanCovers
      <4>2. CASE vv' # {}
        BY <2>4, <2>5, <4>1, <4>2
      <4>3. CASE vv' = {}
        BY <2>1, <2>2, <2>4, <2>5, <4>1, <4>3
      <4> QED BY <4>2, <4>3
    <3>2. vv' \subseteq loop'.vov[b]
      BY <2>1, <2>4 DEF ScanCovers
    <3>3. ASSUME vv' # {}
          PROVE  /\ i \in groups'
                 /\ \A w \in vv' : GroupOf(w) = i
                 /\ \A fd \in loop'.vec[b] : GroupOf(WordOf(fd)) = i => WordOf(fd) \in vv'
      BY <2>1, <2>2, <2>4, <2>5, <3>3
    <3> QED BY <2>4, <3>1, <3>2, <3>3 DEF ScanCovers
  <2>15. BitsUnhandled'
    BY <2>1 DEF BitsUnhandled, Handled
  <2> QED BY <2>10, <2>11, <2>12, <2>13, <2>14, <2>15
<1>5. CASE NextSlot
  <2>1. /\ groups = {} /\ groups' = AllGroups /\ SlotIsDue
        /\ UNCHANGED <<phase, running, vv, bits, inWord>>
        /\ loop' = [loop EXCEPT !.base_idx = (b + 1) % VecSize,
                                !.base_time = loop.base_time + Resolution]
    BY <1>5 DEF NextSlot
  <2>2. /\ loop'.vec = loop.vec /\ loop'.vov = loop.vov
        /\ loop'.active = loop.active /\ loop'.tidx = loop.tidx
    BY <2>1 DEF TypeOK, LoopState
  <2>3. vv = {} /\ bits = {} /\ ~inWord
    BY <2>1 DEF ScanCovers, ScanShape
  <2>4. WheelAgrees'
    BY <2>1, <2>2, <2>3 DEF WheelAgrees, Armed, Handled
  <2>5. WordsMarked' /\ MarksExplained'
    BY <2>1, <2>2, <2>3 DEF WordsMarked, MarksExplained
  <2>6. ScanShape'
    BY <1>0, <2>1, <2>3, LoopAssumption DEF ScanShape
  <2>7. ScanCovers'
    <3>1. loop'.base_idx \in Slots
      BY DEF TypeOK, LoopState
    <3>2. \A fd \in loop.vec[loop'.base_idx] : fd \in Fds
      BY <1>0, <3>1
    <3> QED BY <2>1, <2>2, <2>3, <3>2 DEF ScanCovers, AllGroups
  <2>8. BitsUnhandled'
    BY <2>1, <2>3 DEF BitsUnhandled, Handled
  <2> QED BY <2>4, <2>5, <2>6, <2>7, <2>8
<1>6. CASE EndScan
  <2>1. /\ ~SlotIsDue /\ phase' = "main" /\ running' = Main
        /\ UNCHANGED <<loop, vv, bits, inWord>>
    BY <1>6 DEF EndScan, Scanning
  <2>2. vv = {} /\ bits = {} /\ ~inWord
    BY <2>1 DEF ScanShape
  <2>3. WheelAgrees'
    BY <2>1, <2>2 DEF WheelAgrees, Armed, Handled
  <2>4. WordsMarked' /\ MarksExplained'
    BY <2>1, <2>2 DEF WordsMarked, MarksExplained
  <2>5. ScanShape'
    BY <2>1, <2>2 DEF ScanShape, SlotIsDue
  <2>6. ScanCovers'
    BY <2>1, <2>2 DEF ScanCovers
  <2>7. BitsUnhandled'
    BY <2>1, <2>2 DEF BitsUnhandled, Handled
  <2> QED BY <2>3, <2>4, <2>5, <2>6, <2>7
<1> QED BY <1>1, <1>2, <1>3, <1>4, <1>5, <1>6 DEF Scan

LEMMA ReturnStep ==
  ASSUME WheelInv, TypeOK', Return
  PROVE  WheelInv'
BY QuietStepKeepsWheel, LoopAssumption DEF Return, scanVars, WheelInv, ScanShape

LEMMA WheelInit ==
  ASSUME Init
  PROVE  WheelAgrees /\ WordsMarked /\ MarksExplained
         /\ ScanShape /\ ScanCovers /\ BitsUnhandled
<1>1. /\ loop.vec = [s \in Slots |-> {}] /\ loop.vov = [s \in Slots |-> {}]
      /\ loop.active = [fd \in Fds |-> FALSE]
      /\ loop.base_idx = 0 /\ loop.base_time = StepBack /\ loop.now = StepBack
  BY DEF Init, FreshLoop
<1>2. 0 \in Slots
  BY PicoevAssumption DEF Slots
<1>3. WheelAgrees /\ WordsMarked /\ MarksExplained
  BY <1>1, <1>2 DEF WheelAgrees, WordsMarked, MarksExplained, Words, Armed
<1>4. ScanShape
  BY <1>1, LoopAssumption DEF Init, ScanShape, SlotIsDue, Resolution
<1>5. ScanCovers /\ BitsUnhandled
  BY <1>1, <1>2 DEF Init, ScanCovers, BitsUnhandled, Handled
<1> QED BY <1>3, <1>4, <1>5

(* The invariant of the scan and of the wheel, for any number of            *)
(* descriptors and slots and any word size, when a timeout callback works   *)
(* on its own descriptor only.                                              *)
THEOREM WheelInductive == ASSUME ~CrossFd PROVE Spec => []WheelInv
<1>1. Init => WheelInv
  <2>1. ASSUME Init PROVE TypeOK
    <3>1. loop \in LoopState
      BY <2>1, PicoevAssumption, LoopAssumption
         DEF Init, FreshLoop, LoopState, Slots
    <3> QED BY <2>1, <3>1, LoopAssumption DEF Init, TypeOK
  <2> QED BY <2>1, WheelInit DEF WheelInv
<1>2. WheelInv /\ TypeOK' /\ [Next]_vars => WheelInv'
  <2> SUFFICES ASSUME WheelInv, TypeOK', [Next]_vars PROVE WheelInv'
    OBVIOUS
  <2>1. CASE Call
    BY <2>1, CallStep
  <2>2. CASE Return
    BY <2>2, ReturnStep
  <2>3. CASE Poll
    BY <2>3, PollStep
  <2>4. CASE Scan
    BY <2>4, ScanStep
  <2>5. CASE UNCHANGED vars
    BY <2>5, QuietStepKeepsWheel DEF vars, scanVars, WheelInv, ScanShape
  <2> QED BY <2>1, <2>2, <2>3, <2>4, <2>5 DEF Next
<1> QED BY <1>1, <1>2, TypeCorrect, PTL DEF Spec

(* WheelAgrees and WordsMarked: no timeout is lost or invented by           *)
(* picoev_set_timeout, picoev_add, picoev_del or the scan.                  *)
THEOREM WheelCorrect == ASSUME ~CrossFd PROVE Spec => [](WheelAgrees /\ WordsMarked)
<1>1. WheelInv => WheelAgrees /\ WordsMarked
  BY DEF WheelInv
<1> QED BY <1>1, WheelInductive, PTL

(* SnapshotIsCurrent: the assertions picoev.h:363 and picoev.h:367 hold,    *)
(* when timeout callbacks work on their own descriptor only and callers     *)
(* keep picoev.h:225, the guard of Add.  server.c keeps neither: the run    *)
(* stale of MCContinuation shows what becomes of them then.                 *)
LEMMA ScanAssertions == ASSUME ~CrossFd PROVE Spec => []SnapshotIsCurrent
<1>1. WheelInv => SnapshotIsCurrent
  <2> SUFFICES ASSUME WheelInv PROVE SnapshotIsCurrent
    OBVIOUS
  <2> USE DEF WheelInv
  <2>1. loop.base_idx \in Slots
    BY DEF TypeOK, LoopState
  <2>2. ASSUME NEW w \in vv PROVE \E fd \in loop.vec[loop.base_idx] : WordOf(fd) = w
    BY <2>1, <2>2 DEF ScanCovers, MarksExplained, Words
  <2>3. ASSUME NEW fd \in bits PROVE Armed(fd) /\ loop.tidx[fd] = loop.base_idx
    BY <2>1, <2>3 DEF BitsUnhandled, WheelAgrees, Handled
  <2> QED BY <2>2, <2>3 DEF SnapshotIsCurrent
<1> QED BY <1>1, WheelInductive, PTL


----------------------------------------------------------------------------
(* When a timeout is due.  The slot an armed descriptor is in tells it, for *)
(* a call stores it and the wheel is not turned past a slot that is used.   *)
DueTold ==
  \A fd \in Fds : Armed(fd) => due[fd] = loop.base_time + Turn(loop, loop.tidx[fd])

OthersKept(fd) ==
  \A g \in Fds : g # fd => /\ loop'.active[g] = loop.active[g]
                           /\ loop'.tidx[g] = loop.tidx[g]

\* which timeouts a call changes, and what it makes of fd's
LEMMA CallOn ==
  ASSUME WheelInv, Call
  PROVE  /\ UNCHANGED <<phase, cached>> /\ running # None
         /\ loop'.base_idx = loop.base_idx /\ loop'.base_time = loop.base_time
         /\ loop'.now = loop.now
         /\ \/ \E fd \in Fds, secs \in SecsChoices :
                 /\ OthersKept(fd)
                 /\ loop'.tidx[fd] = IF secs = 0 THEN Unused ELSE SlotOf(loop, secs)
                 /\ Remember(fd, secs)
            \/ \E fd \in Fds :
                 /\ OthersKept(fd)
                 /\ loop'.tidx[fd] = Unused /\ Forget(fd)
            \/ /\ loop'.active = loop.active /\ loop'.tidx = loop.tidx
               /\ UNCHANGED <<asked, due>>
<1>1. Agree(loop, HandledFds) /\ Marks(loop, HandledWords) /\ loop \in LoopState
  BY WheelAsAgree DEF WheelInv, TypeOK
<1>2. UNCHANGED <<phase, cached>> /\ running # None
  BY DEF Call, Add, Del, SetTimeout, CloseFd, TakeTime, Calling, scanVars
<1>3. ASSUME NEW fd \in Fds, NEW evs \in EventChoices,
             NEW secs \in SecsChoices, NEW cb \in Callbacks,
             Add(fd, evs, secs, cb)
      PROVE  /\ Frame(loop, loop', fd) /\ Remember(fd, secs)
             /\ loop'.tidx[fd] = IF secs = 0 THEN Unused ELSE SlotOf(loop, secs)
  <2>1. evs \in SUBSET RW /\ secs \in Nat /\ ~loop.active[fd]
    BY <1>3, LoopAssumption DEF Add
  <2>2. loop' = PAdd(loop, fd, evs, secs, cb) /\ Remember(fd, secs)
    BY <1>3 DEF Add
  <2>3. Frame(loop, loop', fd)
    BY <1>1, <2>1, <2>2, AddAgree
  <2>4. loop'.tidx[fd] = IF secs = 0 THEN Unused ELSE SlotOf(loop, secs)
    BY <1>1, <2>1, <2>2, AddSlot
  <2>. QED
    BY <2>2, <2>3, <2>4
<1>4. ASSUME NEW fd \in Fds, NEW secs \in SecsChoices, SetTimeout(fd, secs)
      PROVE  /\ Frame(loop, loop', fd) /\ Remember(fd, secs)
             /\ loop'.tidx[fd] = IF secs = 0 THEN Unused ELSE SlotOf(loop, secs)
  <2>1. /\ loop.active[fd] /\ secs \in Nat /\ loop' = PSetTimeout(loop, fd, secs)
        /\ Remember(fd, secs)
    BY <1>4, LoopAssumption DEF SetTimeout
  <2>. QED
    BY <1>1, <2>1, SetTimeoutAgree, SetTimeoutSlot
<1>5. ASSUME NEW fd \in Fds, Del(fd)
      PROVE  /\ Frame(loop, loop', fd) /\ Forget(fd)
             /\ loop'.tidx[fd] = Unused
  <2>1. loop.active[fd] /\ loop' = PDel(loop, fd) /\ Forget(fd)
    BY <1>5 DEF Del
  <2>. QED
    BY <1>1, <2>1, DelAgree
<1>6. ASSUME (\E fd \in Fds : CloseFd(fd)) \/ TakeTime
      PROVE  /\ loop'.active = loop.active /\ loop'.tidx = loop.tidx
             /\ loop'.base_idx = loop.base_idx /\ loop'.base_time = loop.base_time
             /\ loop'.now = loop.now
             /\ UNCHANGED <<asked, due>>
  BY <1>1, <1>6 DEF CloseFd, SysClose, TakeTime, LoopState
<1>. QED
  BY <1>2, <1>3, <1>4, <1>5, <1>6 DEF Call, Frame, OthersKept

LEMMA CallTold ==
  ASSUME WheelInv, DueTold, TypeOK', Call
  PROVE  DueTold'
<1>1. /\ loop \in LoopState /\ due \in [Fds -> Nat] /\ asked \in [Fds -> Nat]
      /\ loop'.base_idx = loop.base_idx /\ loop'.base_time = loop.base_time
      /\ \A s : Turn(loop', s) = Turn(loop, s)
  BY CallOn DEF WheelInv, TypeOK, Turn
<1>2. ASSUME NEW fd \in Fds, NEW secs \in SecsChoices, OthersKept(fd), Remember(fd, secs),
             loop'.tidx[fd] = IF secs = 0 THEN Unused ELSE SlotOf(loop, secs)
      PROVE  DueTold'
  <2>. SUFFICES ASSUME NEW g \in Fds, Armed(g)'
                PROVE  due'[g] = loop'.base_time + Turn(loop', loop'.tidx[g])
    BY DEF DueTold
  <2>1. CASE g = fd
    <3>1. secs # 0 /\ secs \in Nat
      BY <1>2, <2>1, LoopAssumption DEF Armed
    <3>2. due'[fd] = loop.base_time + Delta(loop, secs)
      BY <1>1, <1>2, <3>1 DEF Remember
    <3>3. Turn(loop, loop'.tidx[fd]) = Delta(loop, secs)
      BY <1>1, <1>2, <3>1, TurnOfSlot
    <3>. QED
      BY <1>1, <2>1, <3>2, <3>3
  <2>2. CASE g # fd
    <3>1. due'[g] = due[g] /\ Armed(g) /\ loop'.tidx[g] = loop.tidx[g]
      BY <1>1, <1>2, <2>2 DEF Remember, OthersKept, Armed
    <3>. QED
      BY <1>1, <3>1 DEF DueTold
  <2>. QED
    BY <2>1, <2>2
<1>3. ASSUME NEW fd \in Fds, OthersKept(fd), Forget(fd), loop'.tidx[fd] = Unused
      PROVE  DueTold'
  <2>. SUFFICES ASSUME NEW g \in Fds, Armed(g)'
                PROVE  due'[g] = loop'.base_time + Turn(loop', loop'.tidx[g])
    BY DEF DueTold
  <2>1. g # fd
    BY <1>3 DEF Armed
  <2>2. due'[g] = due[g] /\ Armed(g) /\ loop'.tidx[g] = loop.tidx[g]
    BY <1>1, <1>3, <2>1 DEF Forget, OthersKept, Armed
  <2>. QED
    BY <1>1, <2>2 DEF DueTold
<1>4. ASSUME loop'.active = loop.active, loop'.tidx = loop.tidx, due' = due
      PROVE  DueTold'
  BY <1>1, <1>4 DEF DueTold, Armed
<1>. QED
  BY <1>2, <1>3, <1>4, CallOn

\* a step that neither turns the wheel nor arms a descriptor
LEMMA QuietTold ==
  ASSUME DueTold, loop'.base_idx = loop.base_idx, loop'.base_time = loop.base_time,
         due' = due, loop'.active = loop.active, loop'.tidx = loop.tidx
  PROVE  DueTold'
BY DEF DueTold, Armed, Turn

LEMMA PollQuiet ==
  ASSUME WheelInv, Poll
  PROVE  /\ loop'.base_idx = loop.base_idx /\ loop'.base_time = loop.base_time
         /\ UNCHANGED <<asked, due>> /\ loop'.active = loop.active /\ loop'.tidx = loop.tidx
<1>1. loop \in LoopState
  BY DEF WheelInv, TypeOK
<1>. QED
  BY <1>1 DEF Poll, EpollWait, EpollWaitFails, Waited, Deliver, DeliverNothing, DropStaleEvent,
              Delivering, StartScan, LoopState

\* what the scan does to a timeout: it fires, or it is in another slot still
LEMMA ScanTimes ==
  ASSUME WheelInv, Scan
  PROVE  \/ /\ loop'.base_idx = loop.base_idx /\ loop'.base_time = loop.base_time
            /\ UNCHANGED <<asked, due>> /\ loop'.active = loop.active /\ loop'.tidx = loop.tidx
         \/ \E fd \in bits : /\ OthersKept(fd) /\ loop'.tidx[fd] = Unused /\ Forget(fd)
                             /\ loop'.base_idx = loop.base_idx
                             /\ loop'.base_time = loop.base_time
         \/ /\ loop'.base_idx = (loop.base_idx + 1) % VecSize
            /\ loop'.base_time = loop.base_time + 1 /\ SlotIsDue
            /\ \A fd \in Fds : Armed(fd) => loop.tidx[fd] # loop.base_idx
            /\ UNCHANGED <<asked, due>> /\ loop'.active = loop.active /\ loop'.tidx = loop.tidx
<1>1. loop \in LoopState
  BY DEF WheelInv, TypeOK
<1>2. ASSUME NEW fd \in bits, Fire(fd)
      PROVE  /\ OthersKept(fd) /\ loop'.tidx[fd] = Unused /\ Forget(fd)
             /\ loop'.base_idx = loop.base_idx /\ loop'.base_time = loop.base_time
  BY <1>1, <1>2 DEF Fire, OthersKept, LoopState, WheelInv, TypeOK
<1>3. ASSUME NEW j \in vv, LeaveWord(j)
      PROVE  /\ loop'.base_idx = loop.base_idx /\ loop'.base_time = loop.base_time
             /\ UNCHANGED <<asked, due>> /\ loop'.active = loop.active /\ loop'.tidx = loop.tidx
  <2>1. \A L \in LoopState : \A i :
         /\ ClearWord(L, j) \in LoopState
         /\ ClearWord(L, j).base_idx = L.base_idx
         /\ ClearWord(L, j).base_time = L.base_time
         /\ ClearWord(L, j).active = L.active
         /\ ClearWord(L, j).tidx = L.tidx
         /\ ClearGroup(L, i).base_idx = L.base_idx
         /\ ClearGroup(L, i).base_time = L.base_time
         /\ ClearGroup(L, i).active = L.active
         /\ ClearGroup(L, i).tidx = L.tidx
    BY DEF ClearWord, ClearGroup, LoopState
  <2>2. UNCHANGED <<asked, due>>
        /\ \/ loop' = ClearWord(loop, j)
           \/ loop' = ClearGroup(ClearWord(loop, j), GroupOf(j))
    BY <1>3 DEF LeaveWord
  <2>. QED
    BY <1>1, <2>1, <2>2
<1>4. CASE NextSlot
  <2>1. groups = {} /\ phase = "scan" /\ SlotIsDue /\ vv = {}
    BY <1>4 DEF NextSlot, Scanning, WheelInv, ScanCovers
  <2>2. loop.vec[loop.base_idx] = {}
    BY <2>1 DEF WheelInv, ScanCovers
  <2>3. \A fd \in Fds : Armed(fd) => loop.tidx[fd] # loop.base_idx
    BY <2>2 DEF WheelInv, WheelAgrees
  <2>. QED
    BY <1>1, <1>4, <2>1, <2>3 DEF NextSlot, Resolution, LoopState
<1>5. ASSUME \/ EndScan
             \/ \E i \in groups : EnterGroup(i)
             \/ \E j \in vv : EnterWord(j)
      PROVE  UNCHANGED <<loop, asked, due>>
  BY <1>5 DEF EndScan, EnterGroup, EnterWord
<1>. QED
  BY <1>2, <1>3, <1>4, <1>5 DEF Scan

LEMMA ScanTold ==
  ASSUME WheelInv, DueTold, Scan
  PROVE  DueTold'
<1>1. loop \in LoopState /\ due \in [Fds -> Nat] /\ bits \subseteq Fds
  BY DEF WheelInv, TypeOK
<1>2. ASSUME NEW fd \in bits, OthersKept(fd), loop'.tidx[fd] = Unused, Forget(fd),
             loop'.base_idx = loop.base_idx, loop'.base_time = loop.base_time
      PROVE  DueTold'
  <2>1. ASSUME NEW g \in Fds, Armed(g)'
        PROVE  due'[g] = due[g] /\ Armed(g) /\ loop'.tidx[g] = loop.tidx[g]
    BY <1>1, <1>2, <2>1 DEF Forget, OthersKept, Armed
  <2>. QED
    BY <1>2, <2>1 DEF DueTold, Turn
<1>3. ASSUME loop'.base_idx = (loop.base_idx + 1) % VecSize,
             loop'.base_time = loop.base_time + 1,
             \A fd \in Fds : Armed(fd) => loop.tidx[fd] # loop.base_idx,
             due' = due, loop'.active = loop.active, loop'.tidx = loop.tidx
      PROVE  DueTold'
  <2>. SUFFICES ASSUME NEW g \in Fds, Armed(g)
                PROVE  due[g] = loop.base_time + 1 + Turn(loop', loop.tidx[g])
    BY <1>3 DEF DueTold, Armed
  <2>. DEFINE b == loop.base_idx
              t == loop.tidx[g]
  <2>1. b \in 0 .. VecSize - 1 /\ t \in 0 .. VecSize - 1 /\ t # b /\ loop.base_time \in Nat
    BY <1>1, <1>3 DEF LoopState, Slots, Armed
  <2>2. VecSize \in Nat /\ VecSize > 1
    BY PicoevAssumption
  <2>3. loop'.base_idx = IF b + 1 < VecSize THEN b + 1 ELSE b + 1 - VecSize
    BY <1>3, <2>1, <2>2, ModOfSum
  <2>4. due[g] = loop.base_time + Turn(loop, t)
    BY DEF DueTold
  <2>. HIDE DEF b, t
  <2>5. Turn(loop', t) = Turn(loop, t) - 1 /\ Turn(loop, t) \in Nat
    BY <2>1, <2>2, <2>3 DEF Turn, b
  <2>. QED
    BY <2>1, <2>4, <2>5 DEF t
<1>. QED
  BY <1>2, <1>3, ScanTimes, QuietTold

DueInv == WheelInv /\ DueTold

(* The slot in which picoev_set_timeout stored a timeout tells when it is   *)
(* due, in every phase of the scan, and by the wheel's invariant the scan   *)
(* finds it there.                                                          *)
THEOREM DueInductive == ASSUME ~CrossFd PROVE Spec => []DueInv
<1>1. Init => DueTold
  BY DEF Init, FreshLoop, DueTold, Armed
<1>2. WheelInv /\ DueTold /\ TypeOK' /\ [Next]_vars => DueTold'
  <2>. SUFFICES ASSUME WheelInv, DueTold, TypeOK', [Next]_vars PROVE DueTold'
    OBVIOUS
  <2>1. CASE Return \/ UNCHANGED vars
    BY <2>1, QuietTold DEF Return, vars
  <2>. QED
    BY <2>1, CallTold, PollQuiet, QuietTold, ScanTold DEF Next
<1>. QED
  BY <1>1, <1>2, TypeCorrect, WheelInductive, PTL DEF Spec, DueInv

(* SlotTellsDue: turning the wheel (picoev_handle_timeout_internal) neither *)
(* loses nor shifts a timeout that picoev_set_timeout has stored.           *)
THEOREM SlotsTellDue == ASSUME ~CrossFd PROVE Spec => []SlotTellsDue
<1>1. DueInv => SlotTellsDue
  <2>. SUFFICES ASSUME DueInv, NEW fd \in Fds, Armed(fd)
                PROVE  (loop.tidx[fd] - loop.base_idx) % VecSize = due[fd] - loop.base_time
    BY DEF SlotTellsDue
  <2>1. loop \in LoopState /\ loop.tidx[fd] \in Slots /\ due[fd] \in Nat
    BY DEF DueInv, WheelInv, TypeOK, LoopState, Armed
  <2>2. (loop.tidx[fd] - loop.base_idx) % VecSize = Turn(loop, loop.tidx[fd])
    BY <2>1, TurnIsMod
  <2>3. due[fd] = loop.base_time + Turn(loop, loop.tidx[fd])
    BY DEF DueInv, DueTold
  <2>4. loop.base_time \in Nat /\ Turn(loop, loop.tidx[fd]) \in Int
    BY <2>1, PicoevAssumption DEF Turn, LoopState, Slots
  <2>. QED
    BY <2>2, <2>3, <2>4
<1>. QED
  BY <1>1, DueInductive, PTL

(* NoneOverdue: picoev_loop_once returns with no timeout left that was over *)
(* at loop->now, also after slow callbacks and interrupted polls.           *)
THEOREM NoTimeoutLeft == ASSUME ~CrossFd PROVE Spec => []NoneOverdue
<1>1. DueInv => NoneOverdue
  <2>. SUFFICES ASSUME DueInv, phase = "main", NEW fd \in Fds, Armed(fd)
                PROVE  due[fd] >= loop.now
    BY DEF NoneOverdue
  <2>1. loop \in LoopState /\ loop.tidx[fd] \in Slots /\ due[fd] \in Nat
    BY DEF DueInv, WheelInv, TypeOK, LoopState, Armed
  <2>2. loop.base_time \in Nat /\ loop.now \in Nat /\ Turn(loop, loop.tidx[fd]) \in Nat
    BY <2>1, PicoevAssumption DEF Turn, LoopState, Slots
  <2>3. due[fd] = loop.base_time + Turn(loop, loop.tidx[fd])
    BY DEF DueInv, DueTold
  <2>4. loop.base_time >= loop.now
    BY <2>2 DEF DueInv, WheelInv, ScanShape, SlotIsDue, Resolution
  <2>. QED
    BY <2>2, <2>3, <2>4
<1>. QED
  BY <1>1, DueInductive, PTL

----------------------------------------------------------------------------
(* The kernel's entries.                                                    *)

LEMMA CallWatches ==
  ASSUME TypeOK, RegisteredHasEntry, Call
  PROVE  RegisteredHasEntry'
<1>1. loop \in LoopState
  BY DEF TypeOK
<1>2. ASSUME NEW fd \in Fds, NEW evs \in EventChoices,
             NEW secs \in SecsChoices, NEW cb \in Callbacks,
             Add(fd, evs, secs, cb)
      PROVE  RegisteredHasEntry'
  <2>1. evs \in SUBSET RW /\ secs \in Nat /\ loop' = PAdd(loop, fd, evs, secs, cb)
    BY <1>2, LoopAssumption DEF Add
  <2>2. Adds(loop, loop', fd, evs, cb)
    BY <1>1, <2>1, AddTable
  <2>3. /\ evs # {} => EpollCtl(loop.watched[fd], evs) # {}
        /\ KernelExclusive \/ EpollCtl(loop.watched[fd], evs) = evs
    BY DEF EpollCtl, ModRefused
  <2>4. /\ \A g \in Fds : g # fd => /\ loop'.active[g] = loop.active[g]
                                    /\ loop'.events[g] = loop.events[g]
                                    /\ loop'.watched[g] = loop.watched[g]
        /\ loop'.events[fd] = evs
        /\ evs # {} => loop'.watched[fd] = EpollCtl(loop.watched[fd], evs)
    BY <1>1, <2>2 DEF Adds, LoopState
  <2>. QED
    BY <2>3, <2>4 DEF RegisteredHasEntry, Deliverable
<1>3. ASSUME NEW fd \in Fds, Del(fd) PROVE RegisteredHasEntry'
  <2>1. /\ loop'.active = [loop.active EXCEPT ![fd] = FALSE]
        /\ loop'.events = [loop.events EXCEPT ![fd] = {}]
        /\ loop'.watched = loop.watched
    BY <1>1, <1>3, DelTable DEF Del
  <2>2. \A g \in Fds : Deliverable(loop', g) => g # fd /\ Deliverable(loop, g)
                                                /\ loop'.events[g] = loop.events[g]
    BY <1>1, <2>1 DEF Deliverable, LoopState
  <2>. QED
    BY <2>1, <2>2 DEF RegisteredHasEntry
<1>4. ASSUME NEW fd \in Fds, NEW secs \in SecsChoices, SetTimeout(fd, secs)
      PROVE  RegisteredHasEntry'
  <2>1. SameTable(loop, loop')
    BY <1>1, <1>4, LoopAssumption, SetTimeoutTable DEF SetTimeout
  <2>. QED
    BY <2>1 DEF SameTable, RegisteredHasEntry, Deliverable
<1>5. ASSUME NEW fd \in Fds, CloseFd(fd) PROVE RegisteredHasEntry'
  <2>1. /\ ~loop.active[fd] /\ loop'.active = loop.active /\ loop'.events = loop.events
        /\ \A g \in Fds : g # fd => loop'.watched[g] = loop.watched[g]
    BY <1>1, <1>5 DEF CloseFd, SysClose, LoopState
  <2>. QED
    BY <2>1 DEF RegisteredHasEntry, Deliverable
<1>6. CASE TakeTime
  BY <1>6 DEF TakeTime, RegisteredHasEntry, Deliverable
<1>. QED
  BY <1>2, <1>3, <1>4, <1>5, <1>6 DEF Call

LEMMA LoopWatches ==
  ASSUME TypeOK, RegisteredHasEntry, Poll \/ Scan \/ Return \/ UNCHANGED vars
  PROVE  RegisteredHasEntry'
<1>1. loop \in LoopState
  BY DEF TypeOK
<1>2. ASSUME SameTable(loop, loop') PROVE RegisteredHasEntry'
  BY <1>2 DEF SameTable, RegisteredHasEntry, Deliverable
<1>3. CASE Poll
  <2>1. ASSUME NEW fd \in batch, DropStaleEvent(fd) PROVE RegisteredHasEntry'
    <3>1. /\ ~Deliverable(loop, fd) /\ loop'.active = loop.active
          /\ loop'.events = loop.events
          /\ \A g \in Fds : g # fd => loop'.watched[g] = loop.watched[g]
      BY <1>1, <2>1 DEF DropStaleEvent, LoopState
    <3>. QED
      BY <3>1 DEF RegisteredHasEntry, Deliverable
  <2>2. ASSUME NEW fd \in batch, Deliver(fd) \/ DeliverNothing(fd)
        PROVE  SameTable(loop, loop')
    BY <2>2 DEF Deliver, DeliverNothing, SameTable
  <2>3. ASSUME EpollWait \/ EpollWaitFails \/ StartScan PROVE SameTable(loop, loop')
    BY <1>1, <2>3 DEF EpollWait, EpollWaitFails, Waited, StartScan, SameTable, LoopState
  <2>. QED
    BY <1>2, <1>3, <2>1, <2>2, <2>3 DEF Poll
<1>4. CASE Scan
  <2>1. ASSUME NEW j \in vv, LeaveWord(j) PROVE SameTable(loop, loop')
    <3>1. \A L \in LoopState : \A i :
           /\ ClearWord(L, j) \in LoopState
           /\ SameTable(L, ClearWord(L, j))
           /\ SameTable(L, ClearGroup(L, i))
      BY DEF ClearWord, ClearGroup, SameTable, LoopState
    <3>2. \/ loop' = ClearWord(loop, j)
          \/ loop' = ClearGroup(ClearWord(loop, j), GroupOf(j))
      BY <2>1 DEF LeaveWord
    <3>. QED
      BY <1>1, <3>1, <3>2 DEF SameTable
  <2>2. ASSUME NEW fd \in bits, Fire(fd) PROVE SameTable(loop, loop')
    BY <1>1, <2>2 DEF Fire, SameTable, LoopState
  <2>3. ASSUME \/ EndScan \/ NextSlot
               \/ \E i \in groups : EnterGroup(i)
               \/ \E j \in vv : EnterWord(j)
        PROVE  SameTable(loop, loop')
    BY <1>1, <2>3 DEF EndScan, NextSlot, EnterGroup, EnterWord, SameTable, LoopState
  <2>. QED
    BY <1>2, <1>4, <2>1, <2>2, <2>3 DEF Scan
<1>5. CASE Return \/ UNCHANGED vars
  BY <1>2, <1>5 DEF Return, vars, SameTable
<1>. QED
  BY <1>3, <1>4, <1>5

(* RegisteredHasEntry: the epoll entry that a deferred deletion of          *)
(* picoev_epoll.c left behind does not keep a descriptor that is registered *)
(* anew from having one, on any kernel; before 4.5 it is also the right one.*)
THEOREM EntriesKept == Spec => []RegisteredHasEntry
<1>1. Init => RegisteredHasEntry
  BY DEF Init, FreshLoop, RegisteredHasEntry, Deliverable
<1>2. TypeOK /\ RegisteredHasEntry /\ [Next]_vars => RegisteredHasEntry'
  BY CallWatches, LoopWatches DEF Next
<1>. QED
  BY <1>1, <1>2, TypeCorrect, PTL DEF Spec

----------------------------------------------------------------------------
(* When a timeout was asked to be over.  The slot is counted from base_time *)
(* and the seconds from loop->now, whichever is ahead: the slot is never    *)
(* before the second asked for.                                             *)
AskedTold == \A fd \in Fds : Armed(fd) => asked[fd] <= due[fd]

HistTypes == /\ loop.now \in Nat /\ loop.base_time \in Nat
             /\ due \in [Fds -> Nat] /\ asked \in [Fds -> Nat]

LEMMA HistTyped == ASSUME TypeOK PROVE HistTypes
BY DEF TypeOK, HistTypes, LoopState

\* a step that forgets the timeout of fd and leaves the others
LEMMA ForgetAsked ==
  ASSUME HistTypes, AskedTold,
         NEW fd, OthersKept(fd), loop'.tidx[fd] = Unused, Forget(fd)
  PROVE  AskedTold'
<1>. SUFFICES ASSUME NEW g \in Fds, Armed(g)' PROVE asked'[g] <= due'[g]
  BY DEF AskedTold
<1>1. g # fd /\ Armed(g)
  BY DEF OthersKept, Armed
<1>2. due'[g] = due[g] /\ asked'[g] = asked[g]
  BY <1>1 DEF Forget, HistTypes
<1>. QED
  BY <1>1, <1>2 DEF AskedTold

LEMMA QuietAsked ==
  ASSUME AskedTold, UNCHANGED <<asked, due>>,
         loop'.active = loop.active, loop'.tidx = loop.tidx
  PROVE  AskedTold'
BY DEF AskedTold, Armed

LEMMA CallAsked ==
  ASSUME WheelInv, AskedTold, Call
  PROVE  AskedTold'
<1>1. HistTypes
  BY HistTyped DEF WheelInv
<1>2. ASSUME NEW fd \in Fds, NEW secs \in SecsChoices, OthersKept(fd), Remember(fd, secs),
             loop'.tidx[fd] = IF secs = 0 THEN Unused ELSE SlotOf(loop, secs),
             NEW g \in Fds, Armed(g)'
      PROVE  asked'[g] <= due'[g]
  <2>1. CASE g = fd
    <3>1. secs # 0 /\ secs \in Nat
      BY <1>2, <2>1, LoopAssumption DEF Armed
    <3>2. asked'[fd] = Ends(secs) /\ due'[fd] = loop.base_time + Delta(loop, secs)
      BY <1>1, <1>2, <3>1 DEF Remember, HistTypes
    <3>3. Ends(secs) <= loop.base_time + Delta(loop, secs)
      BY <1>1, <3>1, PicoevAssumption DEF Ends, LatestDue, Delta, HistTypes
    <3>. QED
      BY <2>1, <3>2, <3>3
  <2>2. CASE g # fd
    <3>1. due'[g] = due[g] /\ asked'[g] = asked[g] /\ Armed(g)
      BY <1>1, <1>2, <2>2 DEF Remember, OthersKept, Armed, HistTypes
    <3>. QED
      BY <3>1 DEF AskedTold
  <2>. QED
    BY <2>1, <2>2
<1>. QED
  BY <1>1, <1>2, ForgetAsked, QuietAsked, CallOn DEF AskedTold

LEMMA ScanAsked ==
  ASSUME WheelInv, AskedTold, Scan
  PROVE  AskedTold'
<1>1. HistTypes
  BY HistTyped DEF WheelInv
<1>. QED
  BY <1>1, ScanTimes, ForgetAsked, QuietAsked

\* the scan calls back a descriptor whose slot has come
LEMMA FiredIsDue ==
  ASSUME DueInv, Next, NEW k \in Fds, k \in bits \ bits'
  PROVE  Armed(k) /\ due[k] = loop.base_time /\ SlotIsDue
<1>1. WheelInv /\ loop \in LoopState /\ due \in [Fds -> Nat]
  BY DEF DueInv, WheelInv, TypeOK
<1>2. Fire(k)
  <2>1. CASE Call \/ Return
    BY <2>1 DEF Call, Add, Del, SetTimeout, CloseFd, TakeTime, Calling, Return, scanVars
  <2>2. CASE Poll
    BY <2>2, <1>1 DEF Poll, EpollWait, EpollWaitFails, Waited, Deliver, DeliverNothing,
         DropStaleEvent, Delivering, StartScan, scanVars, WheelInv, ScanShape
  <2>3. CASE Scan
    BY <2>3, <1>1 DEF Scan, EnterGroup, EnterWord, LeaveWord, NextSlot, EndScan, Fire,
         WheelInv, ScanShape
  <2>. QED
    BY <2>1, <2>2, <2>3 DEF Next
<1>3. Armed(k) /\ loop.tidx[k] = loop.base_idx
  <2>1. k \in loop.vec[loop.base_idx] /\ ~Handled(k) /\ loop.base_idx \in Slots
    BY <1>1 DEF WheelInv, BitsUnhandled, Handled, LoopState
  <2>. QED
    BY <1>1, <2>1 DEF WheelInv, WheelAgrees
<1>4. due[k] = loop.base_time
  <2>1. loop.base_idx \in Int /\ loop.base_time \in Nat
    BY <1>1 DEF LoopState, Slots
  <2>2. Turn(loop, loop.tidx[k]) = 0
    BY <1>3, <2>1 DEF Turn
  <2>. QED
    BY <1>3, <2>1, <2>2 DEF DueInv, DueTold
<1>. QED
  BY <1>1, <1>2, <1>3, <1>4 DEF Fire, WheelInv, ScanShape

(* NoEarlyTimeout: the scan never calls a timeout callback before the       *)
(* seconds the caller gave picoev_set_timeout, cut to what the wheel can    *)
(* hold, have passed by loop->now, with callbacks of any length, polls that *)
(* are interrupted and a clock that is set back.                            *)
THEOREM NeverEarly == ASSUME ~CrossFd PROVE Spec => NoEarlyTimeout
<1>1. Init => AskedTold
  BY DEF Init, FreshLoop, AskedTold, Armed
<1>2. WheelInv /\ AskedTold /\ [Next]_vars => AskedTold'
  <2>. SUFFICES ASSUME WheelInv, AskedTold, [Next]_vars PROVE AskedTold'
    OBVIOUS
  <2>1. CASE Return \/ UNCHANGED vars
    BY <2>1, QuietAsked DEF Return, vars
  <2>. QED
    BY <2>1, CallAsked, PollQuiet, QuietAsked, ScanAsked DEF Next
<1>3. DueInv /\ AskedTold /\ [Next]_vars =>
        [\A fd \in Fds : fd \in bits \ bits' => loop.now > asked[fd]]_vars
  <2>. SUFFICES ASSUME DueInv, AskedTold, Next, NEW k \in Fds, k \in bits \ bits'
                PROVE  loop.now > asked[k]
    BY DEF vars
  <2>1. HistTypes
    BY HistTyped DEF DueInv, WheelInv
  <2>2. due[k] = loop.base_time /\ loop.base_time <= loop.now - 1 /\ asked[k] <= due[k]
    BY FiredIsDue DEF SlotIsDue, Resolution, AskedTold
  <2>. QED
    BY <2>1, <2>2 DEF HistTypes
<1>. QED
  BY <1>1, <1>2, <1>3, WheelInductive, DueInductive, PTL DEF Spec, NoEarlyTimeout
=============================================================================
