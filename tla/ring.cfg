CONSTANTS
  Producers = {p1, p2}
  Consumers = {c1, c2}
  TryPushers = {p1, p2}
  Pollers = {c1, c2}
  Closers = {m}
  Values = {v1, v2}
  Blank = Blank
  Capacity = 2
  Versions = {"V1", "V2", "V3"}
  LoneProducer = p1
  LoneConsumer = c1

SPECIFICATION Spec

INVARIANTS
  TypeOK
  EachSlotHasAnAgent
  CloseWakesSleepers
  WaiterCountsExact
PROPERTIES
  OnlySilentCallsNeglect
  ImplementsFifo
