CONSTANTS
  Fds <- MCFds
  VecSize = 3
  ShortBits = 2
  Callbacks = {cb}
  NoCallback = null
  KernelExclusive = TRUE
  None = none
  Main = main
  CrossFd = FALSE
  SlowCallbacks = FALSE
  Interrupts = FALSE
  StepBack = 0
  SecsChoices <- MCSecsWrap
  EventChoices <- MCReadOrWrite
  MaxOps = 1
  MaxClock = 2
SPECIFICATION Spec
INVARIANT KernelWatchesRegistered
