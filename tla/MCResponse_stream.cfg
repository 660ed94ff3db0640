SPECIFICATION FairSpec
CONSTANTS
  ItemLens = {0, 1, 2}
  MaxItems = 3
  FileLens = {0, 3}
  HeadLen = 2
INVARIANTS OrderInv CompleteWhenOk PageComesFirst ClosedOnce
PROPERTIES ResponseEnds
CHECK_DEADLOCK FALSE
