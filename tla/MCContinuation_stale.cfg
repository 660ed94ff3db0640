SPECIFICATION Spec
CONSTANTS
  None = None
  Main = Main
  NoCallback = NoCallback
  Fds <- MCConns
  Conns <- MCConns
  Callbacks <- MCCallbacks
  VecSize = 4
  ShortBits = 8
  KernelExclusive = FALSE
  WaitChoices <- MCWaits
  SuspendChoices = {0, 1}
  KeepSecs = 1
  ReadSecs = 2
  SuspendSecs = 1
  AgainSecs = 2
  MaxOps = 1
  MaxClock = 2
INVARIANTS TimedOutBelongsToLoop
CHECK_DEADLOCK FALSE
