CONSTANTS
  Producers = {p1, p2}
  Consumers = {c1, c2, c3}
  Main = main
  ItemsPerProducer = 2
  Versions = {"V1", "V2", "V3", "MpmcV3"}

SPECIFICATION HSpec
CHECK_DEADLOCK FALSE

INVARIANTS
  HTypeOK
  NotAllAsleep
  ConservedItems
  PerProducerOrder
PROPERTY
  Termination
