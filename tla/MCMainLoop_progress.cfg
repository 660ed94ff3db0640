SPECIFICATION FairSpec
CHECK_DEADLOCK FALSE
PROPERTIES CallsAreMade StopEndsLoop
CONSTANTS
  None = None
  Watchdog = Watchdog
  t1 = t1
  t2 = t2
  c1 = c1
  c2 = c2
  Timers <- TwoTimers
  Clients <- OneClient
  ListenSocks <- OneSock
  AcceptMax = 2
  ReadTimeout = 2
  SecsChoices = {0, 1}
  StopChoices = {1}
  Watches = {"python"}
  Start = 1
  MaxOps = 1
  MaxStops = 2
  MaxRuns = 1
  MaxClock = 2
