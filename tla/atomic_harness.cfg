CONSTANTS
  Producers = {p1, p2}
  Consumers = {c1, c2}
  Main = main
  Empty = Empty
  Capacity = 2
  ItemsPerProducer = 2

SPECIFICATION HSpec
CHECK_DEADLOCK FALSE

INVARIANTS
  NoneLeftBehind
  ReceivedOnceInOrder
PROPERTY
  AllConsumed
