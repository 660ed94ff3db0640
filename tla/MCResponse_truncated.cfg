SPECIFICATION Spec
CONSTANTS
  ItemLens = {0, 1, 2}
  MaxItems = 3
  FileLens = {0, 3}
  HeadLen = 2
INVARIANT AllSent
CHECK_DEADLOCK FALSE
