CONSTANTS
  Producers = {p1, p2}
  Consumers = {c1, c2}
  Main = main
  ItemsPerProducer = 3
  Blank = Blank
  Capacity = 1
  Versions = {"V1", "V2", "V3"}

SPECIFICATION HSpec
CHECK_DEADLOCK FALSE

INVARIANTS
  HTypeOK
  NotAllAsleep
  ConservedItems
PROPERTY
  AllConsumed
