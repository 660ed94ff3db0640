SPECIFICATION Spec
SYMMETRY Symmetry
CONSTANTS
  None = None
  t1 = t1
  t2 = t2
  t3 = t3
  t4 = t4
  t5 = t5
  t6 = t6
  Timers <- MCTimers
  Due = {0, 1, 2}
  QueueMax = 2
  MaxSize = 6
INVARIANTS TypeOK HeapOrder
PROPERTY GivesTheFirst
