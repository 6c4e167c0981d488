CONSTANTS
  Values = {v1, v2}
  Empty = Empty
  Capacity = 4
  Words = 16

SPECIFICATION Spec
CHECK_DEADLOCK FALSE

INVARIANTS
  IInv
  SizeIsSafe
  NothingLeaks
PROPERTY
  ImplementsFifo
