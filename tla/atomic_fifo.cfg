CONSTANTS
  Producers = {p1, p2}
  Consumers = {c1, c2}
  Main = main
  Values = {v1, v2}
  Empty = Empty
  Capacity = 2
  MaxPos = 3
  StaleLoads = FALSE
  MayThrow = TRUE

SPECIFICATION Spec
CHECK_DEADLOCK FALSE

INVARIANTS
  TypeOK
  OnlyNeglectedLeaks
PROPERTY
  ImplementsFifo
