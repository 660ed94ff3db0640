-------------------------- MODULE PicoevOpsProofs --------------------------
(* What the operators of PicoevOps keep and change, for every record of the *)
(* loop: the lemmas of the modules that call them.                          *)
EXTENDS PicoevOps, TLAPS

(* The slot picoev_set_timeout computes is a slot of the wheel, and one     *)
(* other than base_idx whenever the distance is at least one.               *)
LEMMA DeltaInRange ==
  ASSUME NEW L \in LoopState, NEW secs \in Nat
  PROVE  Delta(L, secs) \in 0 .. VecSize - 1
BY PicoevAssumption DEF Delta, LoopState

LEMMA ModRange ==
  ASSUME NEW a \in Nat, NEW n \in Nat, n > 0
  PROVE  a % n \in 0 .. n - 1
OBVIOUS

LEMMA ModTurn ==
  ASSUME NEW n \in Nat, n > 0, NEW b \in 0 .. n - 1, NEW d \in 1 .. n - 1
  PROVE  (b + d) % n # b
OBVIOUS

LEMMA SlotOfType ==
  ASSUME NEW L \in LoopState, NEW secs \in Nat
  PROVE  SlotOf(L, secs) \in Slots
<1>1. Delta(L, secs) \in 0 .. VecSize - 1
  BY DeltaInRange
<1>2. L.base_idx \in 0 .. VecSize - 1
  BY DEF LoopState, Slots
<1>3. L.base_idx + Delta(L, secs) \in Nat
  BY <1>1, <1>2, PicoevAssumption
<1> QED BY <1>3, ModRange, PicoevAssumption DEF SlotOf, Slots

LEMMA DisarmType ==
  ASSUME NEW L \in LoopState, NEW fd \in Fds
  PROVE  Disarm(L, fd) \in LoopState
BY DEF Disarm, LoopState, Words, Unused

LEMMA ArmType ==
  ASSUME NEW L \in LoopState, NEW fd \in Fds, NEW s \in Slots
  PROVE  Arm(L, fd, s) \in LoopState
BY DEF Arm, LoopState, Words

LEMMA SetTimeoutType ==
  ASSUME NEW L \in LoopState, NEW fd \in Fds, NEW secs \in Nat
  PROVE  PSetTimeout(L, fd, secs) \in LoopState
<1>1. Disarm(L, fd) \in LoopState
  BY DisarmType
<1>2. SlotOf(L, secs) \in Slots
  BY SlotOfType
<1>3. Arm(Disarm(L, fd), fd, SlotOf(L, secs)) \in LoopState
  BY <1>1, <1>2, ArmType
<1> QED BY <1>1, <1>3 DEF PSetTimeout

LEMMA RegisterType ==
  ASSUME NEW L \in LoopState, NEW fd \in Fds, NEW cb \in Callbacks
  PROVE  Register(L, fd, cb) \in LoopState
BY DEF Register, LoopState

LEMMA UpdateEventsType ==
  ASSUME NEW L \in LoopState, NEW fd \in Fds, NEW evs \in SUBSET RW
  PROVE  UpdateEvents(L, fd, evs) \in LoopState
BY DEF UpdateEvents, EpollCtl, LoopState

LEMMA AddType ==
  ASSUME NEW L \in LoopState, NEW fd \in Fds, NEW evs \in SUBSET RW,
         NEW secs \in Nat, NEW cb \in Callbacks
  PROVE  PAdd(L, fd, evs, secs, cb) \in LoopState
BY RegisterType, UpdateEventsType, SetTimeoutType DEF PAdd

LEMMA DelType ==
  ASSUME NEW L \in LoopState, NEW fd \in Fds
  PROVE  PDel(L, fd) \in LoopState
<1>1. DeferDelete(L, fd) \in LoopState
  BY DEF DeferDelete, LoopState
<1>2. Disarm(DeferDelete(L, fd), fd) \in LoopState
  BY <1>1, DisarmType
<1> QED BY <1>2 DEF PDel, LoopState

----------------------------------------------------------------------------
(* WheelAgrees and the marks of vec_of_vec as predicates of the record      *)
(* alone: X are the descriptors, and V the words, that the scan has handled *)
(* in the current slot and not yet cleared.                                 *)
Agree(L, X) ==
  /\ \A fd \in Fds : L.active[fd] /\ L.tidx[fd] # Unused => fd \in L.vec[L.tidx[fd]]
  /\ \A s \in Slots : \A fd \in L.vec[s] :
       \/ L.active[fd] /\ L.tidx[fd] # Unused /\ L.tidx[fd] = s
       \/ s = L.base_idx /\ fd \in X

Marks(L, V) ==
  /\ \A s \in Slots : \A fd \in L.vec[s] : WordOf(fd) \in L.vov[s]
  /\ \A s \in Slots : \A w \in L.vov[s] :
       \/ \E fd \in L.vec[s] : w = WordOf(fd)
       \/ s = L.base_idx /\ w \in V

\* what an operation on fd leaves alone
Frame(L, M, fd) ==
  /\ M.base_idx = L.base_idx /\ M.base_time = L.base_time /\ M.now = L.now
  /\ \A g \in Fds : g # fd => M.active[g] = L.active[g] /\ M.tidx[g] = L.tidx[g]

SameSlot(L, M, s) == M.vec[s] = L.vec[s] /\ M.vov[s] = L.vov[s]

LEMMA DisarmFacts ==
  ASSUME NEW L \in LoopState, NEW fd \in Fds
  PROVE  LET M == Disarm(L, fd)
         IN  /\ M \in LoopState
             /\ Frame(L, M, fd) /\ M.active = L.active
             /\ M.tidx[fd] = Unused
             /\ \A s \in Slots : s # L.tidx[fd] => SameSlot(L, M, s)
             /\ L.tidx[fd] \in Slots => M.vec[L.tidx[fd]] = L.vec[L.tidx[fd]] \ {fd}
<1>1. Disarm(L, fd) \in LoopState
  BY DisarmType
<1>2. CASE L.tidx[fd] = Unused
  BY <1>1, <1>2, PicoevAssumption DEF Disarm, Frame, SameSlot, Slots, Unused
<1>3. CASE L.tidx[fd] # Unused
  <2> DEFINE M == Disarm(L, fd)
             t == L.tidx[fd]
  <2>1. t \in Slots
    BY <1>3 DEF LoopState
  <2>2. /\ M.base_idx = L.base_idx /\ M.base_time = L.base_time /\ M.now = L.now
        /\ M.active = L.active
    BY <1>3 DEF Disarm, LoopState
  <2>3. M.tidx = [L.tidx EXCEPT ![fd] = Unused]
    BY <1>3 DEF Disarm, LoopState
  <2>4. M.vec = [L.vec EXCEPT ![t] = L.vec[t] \ {fd}]
    BY <1>3 DEF Disarm, LoopState
  <2>5. \A s \in Slots : s # t => M.vov[s] = L.vov[s]
    BY <1>3 DEF Disarm, LoopState
  <2>6. L.tidx \in [Fds -> Slots \cup {Unused}] /\ L.vec \in [Slots -> SUBSET Fds]
    BY DEF LoopState
  <2>7. Frame(L, M, fd) /\ M.tidx[fd] = Unused
    BY <2>2, <2>3, <2>6 DEF Frame
  <2>8. \A s \in Slots : s # t => SameSlot(L, M, s)
    BY <2>4, <2>5, <2>6 DEF SameSlot
  <2>9. M.vec[t] = L.vec[t] \ {fd}
    BY <2>1, <2>4, <2>6
  <2> QED BY <1>1, <2>2, <2>7, <2>8, <2>9
<1> QED BY <1>2, <1>3

LEMMA DisarmAgree ==
  ASSUME NEW L \in LoopState, NEW fd \in Fds, NEW X, NEW V,
         L.active[fd], Agree(L, X), Marks(L, V)
  PROVE  Agree(Disarm(L, fd), X) /\ Marks(Disarm(L, fd), V)
<1> DEFINE M == Disarm(L, fd)
<1>1. Agree(M, X)
  <2>1. /\ M.active = L.active /\ M.tidx[fd] = Unused /\ M.base_idx = L.base_idx
        /\ \A g \in Fds : g # fd => M.tidx[g] = L.tidx[g]
        /\ \A s \in Slots : s # L.tidx[fd] => M.vec[s] = L.vec[s]
        /\ L.tidx[fd] \in Slots => M.vec[L.tidx[fd]] = L.vec[L.tidx[fd]] \ {fd}
    BY DisarmFacts DEF Frame, SameSlot
  <2>2. \A g \in Fds : L.tidx[g] \in Slots \/ L.tidx[g] = Unused
    BY DEF LoopState
  <2>3. \A s \in Slots : L.vec[s] \subseteq Fds
    BY DEF LoopState
  <2> HIDE DEF M
  <2>4. \A g \in Fds : M.active[g] /\ M.tidx[g] # Unused => g \in M.vec[M.tidx[g]]
    <3> SUFFICES ASSUME NEW g \in Fds, M.active[g], M.tidx[g] # Unused
                 PROVE  g \in M.vec[M.tidx[g]]
      OBVIOUS
    <3>1. g # fd /\ M.tidx[g] = L.tidx[g] /\ L.tidx[g] \in Slots
      BY <2>1, <2>2
    <3>2. g \in L.vec[L.tidx[g]]
      BY <2>1, <3>1 DEF Agree
    <3> QED BY <2>1, <3>1, <3>2
  <2>5. ASSUME NEW s \in Slots, NEW g \in M.vec[s]
        PROVE  \/ M.active[g] /\ M.tidx[g] # Unused /\ M.tidx[g] = s
               \/ s = M.base_idx /\ g \in X
    <3>1. g \in L.vec[s] /\ g \in Fds
      BY <2>1, <2>3, <2>5
    <3>2. \/ L.active[g] /\ L.tidx[g] # Unused /\ L.tidx[g] = s
          \/ s = L.base_idx /\ g \in X
      BY <3>1 DEF Agree
    <3>3. g = fd => s # L.tidx[fd]
      BY <2>1, <2>5
    <3> QED BY <2>1, <3>1, <3>2, <3>3
  <2> QED BY <2>4, <2>5 DEF Agree
<1>2. Marks(M, V)
  <2>1. CASE L.tidx[fd] = Unused
    BY <2>1 DEF Disarm
  <2>2. CASE L.tidx[fd] # Unused
    <3> DEFINE t == L.tidx[fd]
               left == L.vec[t] \ {fd}
    <3>1. t \in Slots /\ left \subseteq Fds
      BY <2>2 DEF LoopState
    <3>2. /\ M.vec[t] = left
          /\ M.vov[t] = IF WordOf(fd) \in Words(left) THEN L.vov[t]
                        ELSE L.vov[t] \ {WordOf(fd)}
          /\ M.base_idx = L.base_idx
      BY <2>2, <3>1 DEF Disarm, LoopState
    <3>3. \A s \in Slots : s # t => M.vec[s] = L.vec[s] /\ M.vov[s] = L.vov[s]
      BY DisarmFacts DEF SameSlot
    <3>4. ASSUME NEW s \in Slots, NEW g \in M.vec[s] PROVE WordOf(g) \in M.vov[s]
      BY <3>1, <3>2, <3>3, <3>4 DEF Marks, Words
    <3>5. ASSUME NEW s \in Slots, NEW w \in M.vov[s]
          PROVE  \/ \E g \in M.vec[s] : w = WordOf(g)
                 \/ s = M.base_idx /\ w \in V
      BY <3>1, <3>2, <3>3, <3>5 DEF Marks, Words
    <3> QED BY <3>4, <3>5 DEF Marks
  <2> QED BY <2>1, <2>2
<1> QED BY <1>1, <1>2

LEMMA ArmFacts ==
  ASSUME NEW L \in LoopState, NEW fd \in Fds, NEW s \in Slots
  PROVE  LET M == Arm(L, fd, s)
         IN  /\ M \in LoopState
             /\ Frame(L, M, fd) /\ M.active = L.active
             /\ M.tidx[fd] = s
             /\ \A t \in Slots : t # s => SameSlot(L, M, t)
             /\ M.vec[s] = L.vec[s] \cup {fd}
             /\ M.vov[s] = L.vov[s] \cup {WordOf(fd)}
<1>1. Arm(L, fd, s) \in LoopState
  BY ArmType
<1> QED BY <1>1 DEF Arm, Frame, SameSlot, LoopState

LEMMA ArmAgree ==
  ASSUME NEW L \in LoopState, NEW fd \in Fds, NEW s \in Slots, NEW X, NEW V,
         L.active[fd], L.tidx[fd] = Unused, Agree(L, X), Marks(L, V)
  PROVE  Agree(Arm(L, fd, s), X) /\ Marks(Arm(L, fd, s), V)
<1> DEFINE M == Arm(L, fd, s)
<1>1. s # Unused
  BY PicoevAssumption DEF Slots, Unused
<1>2. /\ M.active = L.active /\ M.tidx[fd] = s /\ M.base_idx = L.base_idx
      /\ \A g \in Fds : g # fd => M.tidx[g] = L.tidx[g]
      /\ \A t \in Slots : t # s => M.vec[t] = L.vec[t] /\ M.vov[t] = L.vov[t]
      /\ M.vec[s] = L.vec[s] \cup {fd}
      /\ M.vov[s] = L.vov[s] \cup {WordOf(fd)}
  BY ArmFacts DEF Frame, SameSlot
<1>3. \A t \in Slots : L.vec[t] \subseteq Fds
  BY DEF LoopState
<1>4. \A g \in Fds : L.tidx[g] \in Slots \/ L.tidx[g] = Unused
  BY DEF LoopState
<1> HIDE DEF M
<1>5. Agree(M, X)
  <2>1. ASSUME NEW g \in Fds, M.active[g], M.tidx[g] # Unused
        PROVE  g \in M.vec[M.tidx[g]]
    BY <1>2, <1>4, <2>1 DEF Agree
  <2>2. ASSUME NEW t \in Slots, NEW g \in M.vec[t]
        PROVE  \/ M.active[g] /\ M.tidx[g] # Unused /\ M.tidx[g] = t
               \/ t = M.base_idx /\ g \in X
    BY <1>1, <1>2, <1>3, <2>2 DEF Agree
  <2> QED BY <2>1, <2>2 DEF Agree
<1>6. Marks(M, V)
  <2>1. ASSUME NEW t \in Slots, NEW g \in M.vec[t] PROVE WordOf(g) \in M.vov[t]
    BY <1>2, <2>1 DEF Marks
  <2>2. ASSUME NEW t \in Slots, NEW w \in M.vov[t]
        PROVE  \/ \E g \in M.vec[t] : w = WordOf(g)
               \/ t = M.base_idx /\ w \in V
    BY <1>2, <2>2 DEF Marks
  <2> QED BY <2>1, <2>2 DEF Marks
<1> QED BY <1>5, <1>6 DEF M

\* while the slot at base_idx is due, no timeout is armed in it
LEMMA SlotOfOther ==
  ASSUME NEW L \in LoopState, NEW secs \in Nat, L.base_time <= L.now - 1
  PROVE  SlotOf(L, secs) # L.base_idx
<1>1. Delta(L, secs) \in 1 .. VecSize - 1
  BY PicoevAssumption DEF Delta, LoopState
<1>2. L.base_idx \in 0 .. VecSize - 1
  BY DEF LoopState, Slots
<1>3. ASSUME NEW b \in 0 .. VecSize - 1, NEW d \in 1 .. VecSize - 1
      PROVE  (b + d) % VecSize # b
  BY ModTurn, PicoevAssumption
<1> QED BY <1>1, <1>2, <1>3 DEF SlotOf

LEMMA SetTimeoutAgree ==
  ASSUME NEW L \in LoopState, NEW fd \in Fds, NEW secs \in Nat, NEW X, NEW V,
         L.active[fd], Agree(L, X), Marks(L, V)
  PROVE  LET M == PSetTimeout(L, fd, secs)
         IN  /\ Agree(M, X) /\ Marks(M, V)
             /\ Frame(L, M, fd) /\ M.active = L.active
             /\ L.tidx[fd] # L.base_idx /\ L.base_time <= L.now - 1 =>
                  SameSlot(L, M, L.base_idx) /\ M.tidx[fd] # L.base_idx
<1> DEFINE D == Disarm(L, fd)
           t == SlotOf(L, secs)
<1>1. /\ D \in LoopState
      /\ Frame(L, D, fd) /\ D.active = L.active
      /\ D.tidx[fd] = Unused
      /\ \A s \in Slots : s # L.tidx[fd] => SameSlot(L, D, s)
  BY DisarmFacts
<1>2. Agree(D, X) /\ Marks(D, V)
  BY DisarmAgree
<1>3. t \in Slots
  BY SlotOfType
<1>4. L.base_idx \in Slots /\ L.base_idx # Unused
  BY PicoevAssumption DEF LoopState, Slots, Unused
<1>5. CASE secs = 0
  <2>1. PSetTimeout(L, fd, secs) = D
    BY <1>5 DEF PSetTimeout
  <2> HIDE DEF D
  <2> QED BY <1>1, <1>2, <1>4, <2>1
<1>6. CASE secs # 0
  <2> DEFINE A == Arm(D, fd, t)
  <2>1. PSetTimeout(L, fd, secs) = A
    BY <1>6 DEF PSetTimeout
  <2> HIDE DEF D, t
  <2>2. Agree(A, X) /\ Marks(A, V)
    BY <1>1, <1>2, <1>3, ArmAgree
  <2>3. /\ Frame(D, A, fd) /\ A.active = D.active
        /\ A.tidx[fd] = t
        /\ \A s \in Slots : s # t => SameSlot(D, A, s)
    BY <1>1, <1>3, ArmFacts
  <2>4. L.base_time <= L.now - 1 => t # L.base_idx
    <3>1. ASSUME L.base_time <= L.now - 1 PROVE SlotOf(L, secs) # L.base_idx
      BY <3>1, SlotOfOther
    <3> QED BY <3>1 DEF t
  <2> HIDE DEF A
  <2>5. Frame(L, A, fd) /\ A.active = L.active
    BY <1>1, <2>3 DEF Frame
  <2>6. L.tidx[fd] # L.base_idx /\ L.base_time <= L.now - 1 =>
          SameSlot(L, A, L.base_idx) /\ A.tidx[fd] # L.base_idx
    BY <1>1, <1>4, <2>3, <2>4 DEF SameSlot
  <2> QED BY <2>1, <2>2, <2>5, <2>6
<1> QED BY <1>5, <1>6

LEMMA AddAgree ==
  ASSUME NEW L \in LoopState, NEW fd \in Fds, NEW evs \in SUBSET RW,
         NEW secs \in Nat, NEW cb \in Callbacks, NEW X, NEW V,
         ~L.active[fd], Agree(L, X), Marks(L, V)
  PROVE  LET M == PAdd(L, fd, evs, secs, cb)
         IN  /\ Agree(M, X) /\ Marks(M, V)
             /\ Frame(L, M, fd)
             /\ L.base_time <= L.now - 1 =>
                  SameSlot(L, M, L.base_idx) /\ M.tidx[fd] # L.base_idx
<1> DEFINE R == UpdateEvents(Register(L, fd, cb), fd, evs)
<1>1. R \in LoopState
  BY RegisterType, UpdateEventsType
<1>2. /\ R.vec = L.vec /\ R.vov = L.vov /\ R.base_idx = L.base_idx
      /\ R.base_time = L.base_time /\ R.now = L.now
      /\ R.active = [L.active EXCEPT ![fd] = TRUE]
      /\ R.tidx = [L.tidx EXCEPT ![fd] = Unused]
  <2> DEFINE P == Register(L, fd, cb)
  <2>1. /\ P.vec = L.vec /\ P.vov = L.vov /\ P.base_idx = L.base_idx
        /\ P.base_time = L.base_time /\ P.now = L.now
        /\ P.active = [L.active EXCEPT ![fd] = TRUE]
        /\ P.tidx = [L.tidx EXCEPT ![fd] = Unused]
    BY DEF Register, LoopState
  <2>2. P \in LoopState
    BY RegisterType
  <2> HIDE DEF P
  <2>3. LET U == UpdateEvents(P, fd, evs)
        IN  /\ U.vec = P.vec /\ U.vov = P.vov /\ U.base_idx = P.base_idx
            /\ U.base_time = P.base_time /\ U.now = P.now
            /\ U.active = P.active /\ U.tidx = P.tidx
    BY <2>2 DEF UpdateEvents, LoopState
  <2> QED BY <2>1, <2>3 DEF P
<1> HIDE DEF R
<1>3. /\ L.active \in [Fds -> BOOLEAN] /\ L.tidx \in [Fds -> Slots \cup {Unused}]
      /\ \A s \in Slots : L.vec[s] \subseteq Fds
      /\ L.base_idx \in Slots
  BY DEF LoopState
<1>4. R.active[fd] /\ R.tidx[fd] = Unused /\ Frame(L, R, fd)
  BY <1>2, <1>3 DEF Frame
<1>5. Agree(R, X)
  <2>1. ASSUME NEW g \in Fds, R.active[g], R.tidx[g] # Unused
        PROVE  g \in R.vec[R.tidx[g]]
    BY <1>2, <1>3, <2>1 DEF Agree
  <2>2. ASSUME NEW s \in Slots, NEW g \in R.vec[s]
        PROVE  \/ R.active[g] /\ R.tidx[g] # Unused /\ R.tidx[g] = s
               \/ s = R.base_idx /\ g \in X
    <3>1. g \in L.vec[s] /\ g \in Fds
      BY <1>2, <1>3, <2>2
    <3>2. \/ L.active[g] /\ L.tidx[g] # Unused /\ L.tidx[g] = s
          \/ s = L.base_idx /\ g \in X
      BY <3>1 DEF Agree
    <3> QED BY <1>2, <1>3, <3>1, <3>2
  <2> QED BY <2>1, <2>2 DEF Agree
<1>6. Marks(R, V)
  BY <1>2 DEF Marks
<1>7. Unused # L.base_idx
  BY <1>3, PicoevAssumption DEF Slots, Unused
<1>8. SameSlot(L, R, L.base_idx)
  BY <1>2 DEF SameSlot
<1>9. PAdd(L, fd, evs, secs, cb) = PSetTimeout(R, fd, secs)
  BY DEF PAdd, R
<1> DEFINE M == PSetTimeout(R, fd, secs)
<1>10. /\ Agree(M, X) /\ Marks(M, V)
       /\ Frame(R, M, fd)
       /\ R.tidx[fd] # R.base_idx /\ R.base_time <= R.now - 1 =>
            SameSlot(R, M, R.base_idx) /\ M.tidx[fd] # R.base_idx
  BY <1>1, <1>4, <1>5, <1>6, SetTimeoutAgree
<1> HIDE DEF M
<1>11. Frame(L, M, fd)
  BY <1>4, <1>10 DEF Frame
<1>12. L.base_time <= L.now - 1 =>
         SameSlot(L, M, L.base_idx) /\ M.tidx[fd] # L.base_idx
  BY <1>2, <1>4, <1>7, <1>8, <1>10 DEF SameSlot
<1> QED BY <1>9, <1>10, <1>11, <1>12 DEF M

LEMMA DelAgree ==
  ASSUME NEW L \in LoopState, NEW fd \in Fds, NEW X, NEW V,
         L.active[fd], Agree(L, X), Marks(L, V)
  PROVE  LET M == PDel(L, fd)
         IN  /\ Agree(M, X) /\ Marks(M, V)
             /\ Frame(L, M, fd) /\ ~M.active[fd] /\ M.tidx[fd] = Unused
             /\ L.tidx[fd] # L.base_idx => SameSlot(L, M, L.base_idx)
<1> DEFINE R == DeferDelete(L, fd)
           D == Disarm(R, fd)
           M == PDel(L, fd)
<1>1. /\ R \in LoopState
      /\ R.vec = L.vec /\ R.vov = L.vov /\ R.base_idx = L.base_idx
      /\ R.base_time = L.base_time /\ R.now = L.now
      /\ R.active = L.active /\ R.tidx = L.tidx
  BY DEF DeferDelete, LoopState
<1> HIDE DEF R
<1>2. Agree(R, X) /\ Marks(R, V)
  BY <1>1 DEF Agree, Marks
<1>3. Agree(D, X) /\ Marks(D, V)
  BY <1>1, <1>2, DisarmAgree
<1>4. /\ D \in LoopState
      /\ Frame(R, D, fd) /\ D.active = R.active
      /\ D.tidx[fd] = Unused
      /\ \A s \in Slots : s # R.tidx[fd] => SameSlot(R, D, s)
  BY <1>1, DisarmFacts
<1>5. M = [D EXCEPT !.active[fd] = FALSE]
  BY DEF PDel, R
<1> HIDE DEF D, M
<1>6. /\ M.vec = D.vec /\ M.vov = D.vov /\ M.base_idx = D.base_idx
      /\ M.base_time = D.base_time /\ M.now = D.now /\ M.tidx = D.tidx
      /\ M.active = [D.active EXCEPT ![fd] = FALSE]
  BY <1>4, <1>5 DEF LoopState
<1>7. D.active \in [Fds -> BOOLEAN] /\ L.base_idx \in Slots
      /\ \A s \in Slots : D.vec[s] \subseteq Fds
  BY <1>4 DEF LoopState
<1>8. Agree(M, X)
  BY <1>3, <1>4, <1>6, <1>7 DEF Agree
<1>9. Marks(M, V)
  BY <1>3, <1>6 DEF Marks
<1>10. Frame(L, M, fd) /\ ~M.active[fd] /\ M.tidx[fd] = Unused
  BY <1>1, <1>4, <1>6, <1>7 DEF Frame
<1>11. L.tidx[fd] # L.base_idx => SameSlot(L, M, L.base_idx)
  BY <1>1, <1>4, <1>6, <1>7 DEF SameSlot
<1> QED BY <1>8, <1>9, <1>10, <1>11 DEF M

----------------------------------------------------------------------------
(* What the operations do to the registrations themselves.                  *)

\* what a change of the wheel leaves alone
SameTable(L, M) == M.active = L.active /\ M.cb = L.cb
                   /\ M.events = L.events /\ M.watched = L.watched

LEMMA SetTimeoutTable ==
  ASSUME NEW L \in LoopState, NEW fd \in Fds, NEW secs \in Nat
  PROVE  SameTable(L, PSetTimeout(L, fd, secs))
<1>1. ASSUME NEW K \in LoopState, NEW s \in Slots PROVE SameTable(K, Arm(K, fd, s))
  BY DEF Arm, SameTable, LoopState
<1>2. SameTable(L, Disarm(L, fd)) /\ Disarm(L, fd) \in LoopState
  BY DisarmType DEF Disarm, SameTable, LoopState
<1>3. SlotOf(L, secs) \in Slots
  BY SlotOfType
<1>4. SameTable(Disarm(L, fd), Arm(Disarm(L, fd), fd, SlotOf(L, secs)))
  BY <1>1, <1>2, <1>3
<1>. QED
  BY <1>2, <1>4 DEF PSetTimeout, SameTable

\* what picoev_add does to the table and to the kernel's entry
Adds(L, M, fd, evs, cb) ==
  /\ M.active = [L.active EXCEPT ![fd] = TRUE]
  /\ M.cb = [L.cb EXCEPT ![fd] = cb]
  /\ M.events = [L.events EXCEPT ![fd] = evs]
  /\ evs = {} => M.watched = L.watched
  /\ evs # {} => M.watched = [L.watched EXCEPT ![fd] = EpollCtl(L.watched[fd], evs)]

LEMMA AddTable ==
  ASSUME NEW L \in LoopState, NEW fd \in Fds, NEW evs \in SUBSET RW,
         NEW secs \in Nat, NEW cb \in Callbacks
  PROVE  Adds(L, PAdd(L, fd, evs, secs, cb), fd, evs, cb)
<1>. DEFINE R == Register(L, fd, cb)
            U == UpdateEvents(R, fd, evs)
<1>1. /\ R \in LoopState
      /\ R.active = [L.active EXCEPT ![fd] = TRUE]
      /\ R.cb = [L.cb EXCEPT ![fd] = cb]
      /\ R.events = [L.events EXCEPT ![fd] = {}]
      /\ R.watched = L.watched
  BY RegisterType DEF Register, LoopState
<1>2. L.events \in [Fds -> SUBSET RW] /\ L.watched \in [Fds -> SUBSET RW]
  BY DEF LoopState
<1>. HIDE DEF R
<1>3. R.events[fd] = {}
  BY <1>1, <1>2
<1>4. CASE evs = {}
  <2>1. U = R
    BY <1>3, <1>4 DEF UpdateEvents
  <2>2. U.events = [L.events EXCEPT ![fd] = evs] /\ U.watched = L.watched
    BY <1>1, <1>4, <2>1
  <2>. QED
    BY <1>1, <1>4, <2>1, <2>2, SetTimeoutTable DEF SameTable, Adds, PAdd, R
<1>5. CASE evs # {}
  <2>1. /\ U.active = R.active /\ U.cb = R.cb
        /\ U.events = [R.events EXCEPT ![fd] = evs]
        /\ U.watched = [R.watched EXCEPT ![fd] = EpollCtl(@, evs)]
        /\ U \in LoopState
    <3>. DEFINE k == EpollCtl(R.watched[fd], evs)
    <3>1. U = [R EXCEPT !.events[fd] = evs, !.watched[fd] = k]
      BY <1>3, <1>5 DEF UpdateEvents
    <3>2. U \in LoopState
      BY <1>1, UpdateEventsType
    <3>. HIDE DEF k
    <3>3. /\ U.active = R.active /\ U.cb = R.cb
          /\ U.events = [R.events EXCEPT ![fd] = evs]
          /\ U.watched = [R.watched EXCEPT ![fd] = k]
      BY <1>1, <3>1 DEF LoopState
    <3>. QED
      BY <3>2, <3>3 DEF k
  <2>2. /\ U.events = [L.events EXCEPT ![fd] = evs]
        /\ U.watched = [L.watched EXCEPT ![fd] = EpollCtl(L.watched[fd], evs)]
    BY <1>1, <1>2, <1>5, <2>1
  <2>. QED
    BY <1>1, <1>5, <2>1, <2>2, SetTimeoutTable DEF SameTable, Adds, PAdd, R
<1>. QED
  BY <1>4, <1>5

LEMMA DelTable ==
  ASSUME NEW L \in LoopState, NEW fd \in Fds
  PROVE  LET M == PDel(L, fd)
         IN  /\ M.active = [L.active EXCEPT ![fd] = FALSE]
             /\ M.cb = L.cb
             /\ M.events = [L.events EXCEPT ![fd] = {}]
             /\ M.watched = L.watched
<1>. DEFINE D == DeferDelete(L, fd)
<1>1. /\ D \in LoopState /\ D.active = L.active /\ D.cb = L.cb /\ D.watched = L.watched
      /\ D.events = [L.events EXCEPT ![fd] = {}]
  BY DEF DeferDelete, LoopState
<1>. HIDE DEF D
<1>2. SameTable(D, Disarm(D, fd)) /\ Disarm(D, fd) \in LoopState
  BY <1>1, DisarmType DEF Disarm, SameTable, LoopState
<1>3. PDel(L, fd) = [Disarm(D, fd) EXCEPT !.active[fd] = FALSE]
  BY DEF PDel, D
<1>. QED
  BY <1>1, <1>2, <1>3 DEF SameTable, LoopState

LEMMA CloseType ==
  ASSUME NEW L \in LoopState, NEW fd \in Fds
  PROVE  /\ SysClose(L, fd) \in LoopState
         /\ SysClose(L, fd).active = L.active /\ SysClose(L, fd).cb = L.cb
BY DEF SysClose, LoopState


----------------------------------------------------------------------------
(* How far a slot is from base_idx, and where the operations arm fd.        *)

Turn(L, s) ==
  IF s >= L.base_idx THEN s - L.base_idx ELSE s - L.base_idx + VecSize

LEMMA ModOfTurn ==
  ASSUME NEW n \in Nat, n > 0, NEW b \in 0 .. n - 1, NEW s \in 0 .. n - 1
  PROVE  (s - b) % n = IF s >= b THEN s - b ELSE s - b + n
OBVIOUS

LEMMA ModOfSum ==
  ASSUME NEW n \in Nat, n > 0, NEW b \in 0 .. n - 1, NEW d \in 0 .. n - 1
  PROVE  (b + d) % n = IF b + d < n THEN b + d ELSE b + d - n
OBVIOUS

LEMMA TurnIsMod ==
  ASSUME NEW L \in LoopState, NEW s \in Slots
  PROVE  (s - L.base_idx) % VecSize = Turn(L, s)
<1>1. L.base_idx \in 0 .. VecSize - 1 /\ s \in 0 .. VecSize - 1
  BY DEF LoopState, Slots
<1>. QED
  BY <1>1, ModOfTurn, PicoevAssumption DEF Turn

LEMMA TurnOfSlot ==
  ASSUME NEW L \in LoopState, NEW secs \in Nat
  PROVE  Turn(L, SlotOf(L, secs)) = Delta(L, secs)
<1>. DEFINE b == L.base_idx
            d == Delta(L, secs)
<1>1. b \in 0 .. VecSize - 1 /\ d \in 0 .. VecSize - 1
  BY DeltaInRange DEF LoopState, Slots
<1>2. SlotOf(L, secs) = IF b + d < VecSize THEN b + d ELSE b + d - VecSize
  BY <1>1, ModOfSum, PicoevAssumption DEF SlotOf
<1>. HIDE DEF b, d
<1>3. Turn(L, SlotOf(L, secs)) = IF SlotOf(L, secs) >= b THEN SlotOf(L, secs) - b
                                 ELSE SlotOf(L, secs) - b + VecSize
  BY DEF Turn, b
<1>4. VecSize \in Nat
  BY PicoevAssumption
<1>. QED
  BY <1>1, <1>2, <1>3, <1>4 DEF d

LEMMA SetTimeoutSlot ==
  ASSUME NEW L \in LoopState, NEW fd \in Fds, NEW secs \in Nat
  PROVE  PSetTimeout(L, fd, secs).tidx[fd] = IF secs = 0 THEN Unused ELSE SlotOf(L, secs)
<1>. DEFINE D == Disarm(L, fd)
            s == SlotOf(L, secs)
<1>1. /\ D \in LoopState /\ D.tidx[fd] = Unused
      /\ Frame(L, D, fd)
  BY DisarmFacts
<1>2. s \in Slots
  BY SlotOfType
<1>. HIDE DEF D, s
<1>3. Arm(D, fd, s).tidx[fd] = s
  BY <1>1, <1>2, ArmFacts
<1>. QED
  BY <1>1, <1>3 DEF PSetTimeout, D, s

LEMMA AddSlot ==
  ASSUME NEW L \in LoopState, NEW fd \in Fds, NEW evs \in SUBSET RW,
         NEW secs \in Nat, NEW cb \in Callbacks
  PROVE  PAdd(L, fd, evs, secs, cb).tidx[fd] = IF secs = 0 THEN Unused ELSE SlotOf(L, secs)
<1>. DEFINE U == UpdateEvents(Register(L, fd, cb), fd, evs)
<1>1. U \in LoopState
  BY RegisterType, UpdateEventsType
<1>2. U.base_idx = L.base_idx /\ U.base_time = L.base_time /\ U.now = L.now
  BY RegisterType DEF UpdateEvents, Register, LoopState
<1>. HIDE DEF U
<1>3. SlotOf(U, secs) = SlotOf(L, secs)
  BY <1>2 DEF SlotOf, Delta
<1>. QED
  BY <1>1, <1>3, SetTimeoutSlot DEF PAdd, U
=============================================================================
