CONSTANTS
  Producers = {p1, p2}
  Consumers = {c1}
  Main = main
  Values = {v1}
  Empty = Empty
  Capacity = 2
  MaxPos = 2
  StaleLoads = FALSE
  MayThrow = FALSE

SPECIFICATION Spec
CHECK_DEADLOCK FALSE

PROPERTY
  EmptyMeansEmpty
