CONSTANTS
  Producers = {p1, p2}
  Consumers = {c1, c2, c3}
  Closers = {m}
  Values = {v1, v2}
  Versions = {"V1", "V2", "V3", "MpmcV3"}
  LoneConsumer = c1
  MaxLen = 3

SPECIFICATION Spec

INVARIANTS
  TypeOK
  EachItemHasAnAgent
  NoLostWakeup
  CloseWakesSleepers
  WaiterCountExact
PROPERTIES
  OnlySilentPushesNeglect
  ImplementsFifo
