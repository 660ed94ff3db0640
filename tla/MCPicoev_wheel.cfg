CONSTANTS
  Fds <- MCFdsThree
  VecSize = 3
  ShortBits = 2
  Callbacks = {cb}
  NoCallback = null
  KernelExclusive = TRUE
  None = none
  Main = main
  CrossFd = FALSE
  SlowCallbacks = TRUE
  Interrupts = TRUE
  StepBack = 1
  SecsChoices <- MCSecsWrap
  EventChoices <- MCReadOnly
  MaxOps = 1
  MaxClock = 3
SPECIFICATION FairSpec
INVARIANTS TypeOK WheelAgrees SnapshotIsCurrent SlotTellsDue NoneOverdue RegisteredHasEntry
PROPERTIES NoEarlyTimeout ScanTerminates
