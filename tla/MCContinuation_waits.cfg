SPECIFICATION FairSpec
CONSTANTS
  None = None
  Main = Main
  NoCallback = NoCallback
  Fds <- MCConns
  Conns <- MCConns
  Callbacks <- MCCallbacks
  VecSize = 3
  ShortBits = 8
  KernelExclusive = FALSE
  WaitChoices <- MCWaits
  SuspendChoices = {0, 1}
  KeepSecs = 1
  ReadSecs = 2
  SuspendSecs = 1
  AgainSecs = 2
  MaxOps = 1
  MaxClock = 2
INVARIANTS CountInv OneWaitEach
PROPERTIES ResumeWakes
CHECK_DEADLOCK FALSE
