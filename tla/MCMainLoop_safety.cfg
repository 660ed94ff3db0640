SPECIFICATION Spec
SYMMETRY Symmetry
CHECK_DEADLOCK FALSE
INVARIANTS CountInv DeadlineKept
PROPERTIES GracefulExit ServesUntilStopped
CONSTANTS
  None = None
  Watchdog = Watchdog
  t1 = t1
  t2 = t2
  c1 = c1
  c2 = c2
  Timers <- OneTimer
  Clients <- TwoClients
  ListenSocks <- OneSock
  AcceptMax = 2
  ReadTimeout = 2
  SecsChoices = {0, 1}
  StopChoices = {1}
  Watches = {"fast"}
  Start = 1
  MaxOps = 1
  MaxStops = 2
  MaxRuns = 2
  MaxClock = 2
