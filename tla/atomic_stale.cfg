CONSTANTS
  Producers = {p1, p2}
  Consumers = {c1, c2}
  Main = main
  Values = {v1}
  Empty = Empty
  Capacity = 2
  MaxPos = 4
  StaleLoads = TRUE
  MayThrow = TRUE

SPECIFICATION Spec
CHECK_DEADLOCK FALSE

INVARIANTS
  CellOwnership
  IInv
PROPERTY
  OnlyThrowsNeglect
