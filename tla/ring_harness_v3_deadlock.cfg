CONSTANTS
  Producers = {p1, p2}
  Consumers = {c1, c2}
  Main = main
  ItemsPerProducer = 3
  Blank = Blank
  Capacity = 2
  Versions = {"V3"}

SPECIFICATION HSpec
CHECK_DEADLOCK FALSE

PROPERTY
  AllConsumed
