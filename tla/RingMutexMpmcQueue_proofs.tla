---------------------- MODULE RingMutexMpmcQueue_proofs ----------------------
(***************************************************************************)
(* Safety of the ring queues, for any number of threads, any payloads, any *)
(* capacity and every version.                                             *)
(*                                                                         *)
(* As for the unbounded queues, a first group of lemmas says what each     *)
(* step does to the sets of threads, here one of each kind per direction;  *)
(* the invariants then follow by counting.                                 *)
(***************************************************************************)
EXTENDS RingMutexMpmcQueue, FiniteSetTheorems, SequenceTheorems, TLAPS

USE DEF config, ring, counts, waits

WokenConsumers == WaitingConsumers \ not_empty
WokenProducers == WaitingProducers \ not_full

\* Types, and only threads inside wait() are asleep.
Shape ==
  /\ version \in Versions /\ disciplined \in BOOLEAN
  /\ buffer \in [0..(Capacity - 1) -> Values \cup {Blank}]
  /\ head \in 0..(Capacity - 1) /\ tail \in 0..(Capacity - 1)
  /\ size \in 0..Capacity
  /\ closed \in BOOLEAN
  /\ pc \in [Threads -> Locations]
  /\ arg \in [Threads -> Values \cup {Blank}]
  /\ not_empty \subseteq WaitingConsumers /\ not_full \subseteq WaitingProducers

\* The waiter counts are numbers of threads inside wait(), or are no members.
Counter ==
  /\ waiting_consumers = IF Counting THEN Cardinality(WaitingConsumers) ELSE 0
  /\ waiting_producers = IF Counting THEN Cardinality(WaitingProducers) ELSE 0

\* A step of some thread, whoever is allowed to take it.
LEMMA NextCases ==
  ASSUME Next
  PROVE  \/ \E p \in Producers, v \in Values : EmplaceWait(p, v)
         \/ \E p \in Producers, v \in Values : EmplaceStore(p, v)
         \/ \E p \in Producers : EmplaceClosed(p)
         \/ \E p \in Producers : EmplaceThrows(p)
         \/ \E p \in TryPushers, v \in Values : p \in TryPushersInUse /\ TryEmplace(p, v)
         \/ \E t \in Threads : WakeConsumer(t)
         \/ \E c \in Consumers : WaitPopWait(c)
         \/ \E c \in Consumers : WaitPopTake(c)
         \/ \E c \in Consumers : WaitPopClosed(c)
         \/ \E c \in Consumers : WaitPopThrows(c)
         \/ \E c \in Pollers : c \in PollersInUse /\ TryPop(c)
         \/ \E t \in Threads : WakeProducer(t)
         \/ \E t \in Threads : Close(t)
         \/ \E t \in Threads : CloseWakesConsumers(t)
         \/ \E t \in Threads : CloseWakesProducers(t)
         \/ \E t \in Threads : SpuriousWakeup(t)
BY DEF Next, Emplace, WaitPop, ProducersInUse, ConsumersInUse, TryPushersInUse, PollersInUse,
  Threads

-----------------------------------------------------------------------------
(* What each step does to the ring and to the sets of threads.             *)

LEMMA RingTypes ==
  ASSUME Shape
  PROVE  /\ Capacity \in Nat \ {0}
         /\ \A v \in Values : StoreTail(v) =>
              /\ buffer' \in [0..(Capacity - 1) -> Values \cup {Blank}]
              /\ head' \in 0..(Capacity - 1) /\ tail' \in 0..(Capacity - 1)
              /\ size' = size + 1 /\ size' \in 0..Capacity
         /\ RemoveHead =>
              /\ buffer' \in [0..(Capacity - 1) -> Values \cup {Blank}]
              /\ head' \in 0..(Capacity - 1) /\ tail' \in 0..(Capacity - 1)
              /\ size' = size - 1 /\ size' \in 0..Capacity
<1>1. Capacity \in Nat \ {0}
  BY RingCapacityAssumption
<1>2. \A i \in 0..(Capacity - 1) : RingNext(i) \in 0..(Capacity - 1)
  BY <1>1 DEF RingNext
<1>3. ASSUME NEW v \in Values, StoreTail(v)
      PROVE  /\ buffer' \in [0..(Capacity - 1) -> Values \cup {Blank}]
             /\ head' \in 0..(Capacity - 1) /\ tail' \in 0..(Capacity - 1)
             /\ size' = size + 1 /\ size' \in 0..Capacity
  <2>1. /\ buffer' = [buffer EXCEPT ![tail] = v] /\ tail' = RingNext(tail)
        /\ size' = size + 1 /\ head' = head /\ size < Capacity
    BY <1>3 DEF StoreTail
  <2>2. buffer' \in [0..(Capacity - 1) -> Values \cup {Blank}]
    BY <2>1 DEF Shape
  <2>3. tail' \in 0..(Capacity - 1) /\ head' \in 0..(Capacity - 1)
    BY <1>2, <2>1 DEF Shape
  <2>4. size' \in 0..Capacity
    BY <1>1, <2>1 DEF Shape
  <2> QED
    BY <2>1, <2>2, <2>3, <2>4
<1>4. ASSUME RemoveHead
      PROVE  /\ buffer' \in [0..(Capacity - 1) -> Values \cup {Blank}]
             /\ head' \in 0..(Capacity - 1) /\ tail' \in 0..(Capacity - 1)
             /\ size' = size - 1 /\ size' \in 0..Capacity
  <2>1. /\ buffer' = [buffer EXCEPT ![head] = Blank] /\ head' = RingNext(head)
        /\ size' = size - 1 /\ tail' = tail /\ size > 0
    BY <1>4 DEF RemoveHead
  <2>2. buffer' \in [0..(Capacity - 1) -> Values \cup {Blank}]
    BY <2>1 DEF Shape
  <2>3. tail' \in 0..(Capacity - 1) /\ head' \in 0..(Capacity - 1)
    BY <1>2, <2>1 DEF Shape
  <2>4. size' \in 0..Capacity
    BY <1>1, <2>1 DEF Shape
  <2> QED
    BY <2>1, <2>2, <2>3, <2>4
<1> QED
  BY <1>1, <1>3, <1>4

\* A thread goes from where it is to l.
LEMMA Moves ==
  ASSUME pc \in [Threads -> Locations], NEW t \in Threads, NEW l \in Locations, Goto(t, l)
  PROVE  /\ pc' \in [Threads -> Locations]
         /\ At(l)' = At(l) \cup {t}
         /\ \A k \in Locations : k # l => At(k)' = At(k) \ {t}
         /\ \A k \in Locations : k # l /\ k # pc[t] => At(k)' = At(k)
<1>1. pc' = [pc EXCEPT ![t] = l]
  BY DEF Goto
<1>2. \A u \in Threads : pc'[u] = IF u = t THEN l ELSE pc[u]
  BY <1>1
<1>3. At(l)' = At(l) \cup {t}
  BY <1>2 DEF At
<1>4. ASSUME NEW k \in Locations, k # l
      PROVE  At(k)' = At(k) \ {t}
  BY <1>2, <1>4 DEF At
<1>5. ASSUME NEW k \in Locations, k # l, k # pc[t]
      PROVE  At(k)' = At(k)
  BY <1>2, <1>5 DEF At
<1> QED
  BY <1>1, <1>3, <1>4, <1>5

\* What that means for the threads inside wait().
LEMMA MovesInWait ==
  ASSUME pc \in [Threads -> Locations], NEW t \in Threads, NEW l \in Locations, Goto(t, l)
  PROVE  /\ t \notin Consumers => WaitingConsumers' = WaitingConsumers
         /\ t \notin Producers => WaitingProducers' = WaitingProducers
         /\ l # "wait" /\ pc[t] # "wait" =>
              WaitingConsumers' = WaitingConsumers /\ WaitingProducers' = WaitingProducers
         /\ l # "wait" => /\ WaitingConsumers' = WaitingConsumers \ {t}
                          /\ WaitingProducers' = WaitingProducers \ {t}
         /\ l = "wait" /\ t \in Consumers => WaitingConsumers' = WaitingConsumers \cup {t}
         /\ l = "wait" /\ t \in Producers => WaitingProducers' = WaitingProducers \cup {t}
<1>1. \A u \in Threads : pc'[u] = IF u = t THEN l ELSE pc[u]
  BY DEF Goto
<1> QED
  BY <1>1 DEF WaitingConsumers, WaitingProducers, Threads

\* The threads that are about to notify somebody stay the same.
SameNotifiers ==
  \A l \in {"wake_consumer", "wake_producer", "wake_all", "wake_all_producers"} : At(l)' = At(l)

\* A producer that has the mutex is no consumer and is not asleep.
LEMMA ProducerWithMutex ==
  ASSUME Shape, NEW p \in Producers, HasMutex(p)
  PROVE  /\ p \in Threads /\ pc[p] \in {"idle", "wait"}
         /\ p \notin Consumers /\ p \notin not_full /\ p \notin WaitingConsumers
         /\ p \in WaitingProducers <=> pc[p] = "wait"
BY RingThreadsAssumption DEF HasMutex, Threads, Shape, WaitingConsumers, WaitingProducers

LEMMA ConsumerWithMutex ==
  ASSUME Shape, NEW c \in Consumers, HasMutex(c)
  PROVE  /\ c \in Threads /\ pc[c] \in {"idle", "wait"}
         /\ c \notin Producers /\ c \notin not_empty /\ c \notin WaitingProducers
         /\ c \in WaitingConsumers <=> pc[c] = "wait"
BY RingThreadsAssumption DEF HasMutex, Threads, Shape, WaitingConsumers, WaitingProducers

LEMMA AfterEmplaceWait ==
  ASSUME Shape, NEW p \in Producers, NEW v \in Values, EmplaceWait(p, v)
  PROVE  /\ Shape' /\ SameNotifiers
         /\ WaitingProducers' = WaitingProducers \cup {p}
         /\ WaitingConsumers' = WaitingConsumers /\ WokenConsumers' = WokenConsumers
<1>1. /\ HasMutex(p) /\ Goto(p, "wait") /\ "wait" \in Locations
      /\ arg' = [arg EXCEPT ![p] = v] /\ not_full' = not_full \cup {p}
      /\ UNCHANGED <<config, ring, closed, not_empty>>
  BY DEF EmplaceWait, Locations
<1>2. p \in Threads /\ pc[p] \in {"idle", "wait"} /\ p \notin Consumers /\ p \notin WaitingConsumers
  BY <1>1, ProducerWithMutex
<1>3. /\ pc' \in [Threads -> Locations]
      /\ WaitingProducers' = WaitingProducers \cup {p} /\ WaitingConsumers' = WaitingConsumers
  BY <1>1, <1>2, Moves, MovesInWait DEF Shape
<1>4. SameNotifiers
  BY <1>1, <1>2, Moves DEF SameNotifiers, Shape, Locations
<1>5. Shape'
  BY <1>1, <1>2, <1>3 DEF Shape
<1> QED
  BY <1>1, <1>3, <1>4, <1>5 DEF WokenConsumers

LEMMA AfterEmplaceStore ==
  ASSUME Shape, NEW p \in Producers, NEW v \in Values, EmplaceStore(p, v)
  PROVE  /\ Shape' /\ size' = size + 1
         /\ At("wake_consumer")' = At("wake_consumer") \cup (IF NotifiesConsumer THEN {p} ELSE {})
         /\ p \notin At("wake_consumer")
         /\ \A l \in {"wake_producer", "wake_all", "wake_all_producers"} : At(l)' = At(l)
         /\ WaitingProducers' = WaitingProducers \ {p} /\ WokenProducers' = WokenProducers \ {p}
         /\ WaitingConsumers' = WaitingConsumers /\ WokenConsumers' = WokenConsumers
<1> DEFINE l == IF NotifiesConsumer THEN "wake_consumer" ELSE "idle"
<1>1. /\ HasMutex(p) /\ Goto(p, l) /\ l \in Locations /\ l # "wait"
      /\ StoreTail(v) /\ arg' = [arg EXCEPT ![p] = Blank]
      /\ UNCHANGED <<config, closed, waits>>
  BY DEF EmplaceStore, Locations
<1>2. /\ p \in Threads /\ pc[p] \in {"idle", "wait"}
      /\ p \notin Consumers /\ p \notin WaitingConsumers /\ p \notin not_full
  BY <1>1, ProducerWithMutex
<1>3. /\ pc' \in [Threads -> Locations]
      /\ WaitingProducers' = WaitingProducers \ {p} /\ WaitingConsumers' = WaitingConsumers
  BY <1>1, <1>2, Moves, MovesInWait DEF Shape
<1>4. \A k \in {"wake_producer", "wake_all", "wake_all_producers"} : At(k)' = At(k)
  BY <1>1, <1>2, Moves DEF Shape, Locations
<1>5. p \notin At("wake_consumer")
  BY <1>2 DEF At
<1>6. At("wake_consumer")' = At("wake_consumer") \cup (IF NotifiesConsumer THEN {p} ELSE {})
  <2>1. CASE NotifiesConsumer
    BY <1>1, <1>2, <2>1, Moves DEF Shape
  <2>2. CASE ~NotifiesConsumer
    BY <1>1, <1>2, <2>2, Moves DEF Shape, Locations
  <2> QED
    BY <2>1, <2>2
<1>7. Shape' /\ size' = size + 1
  BY <1>1, <1>2, <1>3, RingTypes DEF Shape
<1> QED
  BY <1>1, <1>2, <1>3, <1>4, <1>5, <1>6, <1>7 DEF WokenConsumers, WokenProducers

\* emplace ends without storing.
LEMMA AfterEmplaceFails ==
  ASSUME Shape, NEW p \in Producers, EmplaceClosed(p) \/ EmplaceThrows(p)
  PROVE  /\ Shape' /\ SameNotifiers /\ HasMutex(p)
         /\ WaitingProducers' = WaitingProducers \ {p}
         /\ WaitingConsumers' = WaitingConsumers /\ WokenConsumers' = WokenConsumers
<1>1. /\ HasMutex(p) /\ Goto(p, "idle") /\ "idle" \in Locations
      /\ arg' = [arg EXCEPT ![p] = Blank] /\ UNCHANGED <<config, ring, closed, waits>>
  BY DEF EmplaceClosed, EmplaceThrows, Locations
<1>2. /\ p \in Threads /\ pc[p] \in {"idle", "wait"}
      /\ p \notin Consumers /\ p \notin WaitingConsumers /\ p \notin not_full
  BY <1>1, ProducerWithMutex
<1>3. /\ pc' \in [Threads -> Locations]
      /\ WaitingProducers' = WaitingProducers \ {p} /\ WaitingConsumers' = WaitingConsumers
  BY <1>1, <1>2, Moves, MovesInWait DEF Shape
<1>4. SameNotifiers
  BY <1>1, <1>2, Moves DEF SameNotifiers, Shape, Locations
<1>5. Shape'
  BY <1>1, <1>2, <1>3 DEF Shape
<1> QED
  BY <1>1, <1>3, <1>4, <1>5 DEF WokenConsumers

LEMMA AfterTryEmplace ==
  ASSUME Shape, NEW p \in TryPushers, NEW v \in Values, TryEmplace(p, v)
  PROVE  /\ Shape' /\ size' = size + 1 /\ closed' = closed
         /\ not_empty' \subseteq not_empty /\ not_full' \subseteq not_full
         /\ \A l \in {"wake_producer", "wake_all", "wake_all_producers"} : At(l)' = At(l)
         /\ version # "V3" => At("wake_consumer")' = At("wake_consumer")
         /\ WaitingProducers' = WaitingProducers /\ WaitingConsumers' = WaitingConsumers
<1>1. /\ p \in Threads /\ pc[p] = "idle" /\ StoreTail(v)
      /\ UNCHANGED <<config, closed, counts, arg>>
  BY DEF TryEmplace, Threads
<1>2. size' = size + 1
  BY <1>1, RingTypes
<1>3. CASE TryEmplaceV3(p, v)
  <2> DEFINE l == IF NotifiesConsumerV3 THEN "wake_consumer" ELSE "idle"
  <2>1. Goto(p, l) /\ l \in Locations /\ l # "wait" /\ version = "V3" /\ UNCHANGED waits
    BY <1>3 DEF TryEmplaceV3, Locations
  <2>2. p \notin WaitingConsumers /\ p \notin WaitingProducers
    BY <1>1 DEF WaitingConsumers, WaitingProducers
  <2>3. /\ pc' \in [Threads -> Locations]
        /\ WaitingProducers' = WaitingProducers /\ WaitingConsumers' = WaitingConsumers
    BY <1>1, <2>1, <2>2, Moves, MovesInWait DEF Shape
  <2>4. \A k \in {"wake_producer", "wake_all", "wake_all_producers"} : At(k)' = At(k)
    BY <1>1, <2>1, Moves DEF Shape, Locations
  <2>5. Shape'
    BY <1>1, <2>1, <2>3, RingTypes DEF Shape
  <2> QED
    BY <1>1, <1>2, <2>1, <2>3, <2>4, <2>5
<1>4. CASE TryEmplaceV1(p, v) \/ TryEmplaceV2(p, v)
  <2>1. UNCHANGED pc /\ not_empty' \subseteq not_empty /\ not_full' \subseteq not_full
    BY <1>4 DEF TryEmplaceV1, TryEmplaceV2, NotifyEitherSide, NotifyAll, NotifyOne
  <2>2. /\ WaitingProducers' = WaitingProducers /\ WaitingConsumers' = WaitingConsumers
        /\ \A l \in Locations : At(l)' = At(l)
    BY <2>1 DEF WaitingProducers, WaitingConsumers, At
  <2>3. Shape'
    BY <1>1, <2>1, <2>2, RingTypes DEF Shape
  <2> QED
    BY <1>1, <1>2, <2>1, <2>2, <2>3 DEF Locations
<1> QED
  BY <1>3, <1>4 DEF TryEmplace

\* One of V2's notifications of a sleeping consumer, or nobody sleeps.
NotifiesOneConsumer ==
  \/ not_empty = {} /\ not_empty' = {}
  \/ \E c \in not_empty : not_empty' = not_empty \ {c}

NotifiesOneProducer ==
  \/ not_full = {} /\ not_full' = {}
  \/ \E p \in not_full : not_full' = not_full \ {p}

LEMMA AfterWakeConsumer ==
  ASSUME Shape, NEW t \in Threads, WakeConsumer(t)
  PROVE  /\ Shape' /\ size' = size /\ closed' = closed
         /\ t \in At("wake_consumer") /\ At("wake_consumer")' = At("wake_consumer") \ {t}
         /\ \A l \in {"wake_producer", "wake_all", "wake_all_producers"} : At(l)' = At(l)
         /\ WaitingProducers' = WaitingProducers /\ WaitingConsumers' = WaitingConsumers
         /\ version = "V1" => not_empty' = {} /\ not_full' = {}
         /\ version # "V1" => not_full' = not_full /\ NotifiesOneConsumer
<1>1. /\ pc[t] = "wake_consumer" /\ Goto(t, "idle") /\ "idle" \in Locations
      /\ UNCHANGED <<config, ring, closed, counts, arg>>
  BY DEF WakeConsumer, Locations
<1>2. /\ version = "V1" => not_empty' = {} /\ not_full' = {}
      /\ version # "V1" => not_full' = not_full /\ NotifiesOneConsumer
  BY DEF WakeConsumer, NotifyEitherSide, NotifyAll, NotifyOne, NotifiesOneConsumer
<1>3. /\ pc' \in [Threads -> Locations]
      /\ WaitingProducers' = WaitingProducers /\ WaitingConsumers' = WaitingConsumers
      /\ At("wake_consumer")' = At("wake_consumer") \ {t}
      /\ \A l \in {"wake_producer", "wake_all", "wake_all_producers"} : At(l)' = At(l)
  BY <1>1, Moves, MovesInWait DEF Shape, Locations
<1>4. not_empty' \subseteq not_empty /\ not_full' \subseteq not_full
  BY <1>2 DEF NotifiesOneConsumer
<1>5. Shape'
  BY <1>1, <1>3, <1>4 DEF Shape
<1>6. t \in At("wake_consumer")
  BY <1>1 DEF At
<1> QED
  BY <1>1, <1>2, <1>3, <1>5, <1>6

LEMMA AfterWakeProducer ==
  ASSUME Shape, NEW t \in Threads, WakeProducer(t)
  PROVE  /\ Shape' /\ size' = size /\ closed' = closed
         /\ t \in At("wake_producer") /\ At("wake_producer")' = At("wake_producer") \ {t}
         /\ \A l \in {"wake_consumer", "wake_all", "wake_all_producers"} : At(l)' = At(l)
         /\ WaitingProducers' = WaitingProducers /\ WaitingConsumers' = WaitingConsumers
         /\ version = "V1" => not_empty' = {} /\ not_full' = {}
         /\ version # "V1" => not_empty' = not_empty /\ NotifiesOneProducer
<1>1. /\ pc[t] = "wake_producer" /\ Goto(t, "idle") /\ "idle" \in Locations
      /\ UNCHANGED <<config, ring, closed, counts, arg>>
  BY DEF WakeProducer, Locations
<1>2. /\ version = "V1" => not_empty' = {} /\ not_full' = {}
      /\ version # "V1" => not_empty' = not_empty /\ NotifiesOneProducer
  BY DEF WakeProducer, NotifyEitherSide, NotifyAll, NotifyOne, NotifiesOneProducer
<1>3. /\ pc' \in [Threads -> Locations]
      /\ WaitingProducers' = WaitingProducers /\ WaitingConsumers' = WaitingConsumers
      /\ At("wake_producer")' = At("wake_producer") \ {t}
      /\ \A l \in {"wake_consumer", "wake_all", "wake_all_producers"} : At(l)' = At(l)
  BY <1>1, Moves, MovesInWait DEF Shape, Locations
<1>4. not_empty' \subseteq not_empty /\ not_full' \subseteq not_full
  BY <1>2 DEF NotifiesOneProducer
<1>5. Shape'
  BY <1>1, <1>3, <1>4 DEF Shape
<1>6. t \in At("wake_producer")
  BY <1>1 DEF At
<1> QED
  BY <1>1, <1>2, <1>3, <1>5, <1>6

LEMMA AfterWaitPopWait ==
  ASSUME Shape, NEW c \in Consumers, WaitPopWait(c)
  PROVE  /\ Shape' /\ SameNotifiers
         /\ WaitingConsumers' = WaitingConsumers \cup {c}
         /\ WaitingProducers' = WaitingProducers /\ WokenProducers' = WokenProducers
<1>1. /\ HasMutex(c) /\ Goto(c, "wait") /\ "wait" \in Locations
      /\ not_empty' = not_empty \cup {c}
      /\ UNCHANGED <<config, ring, closed, not_full, arg>>
  BY DEF WaitPopWait, Locations
<1>2. c \in Threads /\ pc[c] \in {"idle", "wait"} /\ c \notin Producers
  BY <1>1, ConsumerWithMutex
<1>3. /\ pc' \in [Threads -> Locations]
      /\ WaitingConsumers' = WaitingConsumers \cup {c} /\ WaitingProducers' = WaitingProducers
  BY <1>1, <1>2, Moves, MovesInWait DEF Shape
<1>4. SameNotifiers
  BY <1>1, <1>2, Moves DEF SameNotifiers, Shape, Locations
<1>5. Shape'
  BY <1>1, <1>2, <1>3 DEF Shape
<1> QED
  BY <1>1, <1>3, <1>4, <1>5 DEF WokenProducers

LEMMA AfterWaitPopTake ==
  ASSUME Shape, NEW c \in Consumers, WaitPopTake(c)
  PROVE  /\ Shape' /\ size' = size - 1
         /\ At("wake_producer")' = At("wake_producer") \cup (IF NotifiesProducer THEN {c} ELSE {})
         /\ c \notin At("wake_producer")
         /\ \A l \in {"wake_consumer", "wake_all", "wake_all_producers"} : At(l)' = At(l)
         /\ WaitingConsumers' = WaitingConsumers \ {c} /\ WokenConsumers' = WokenConsumers \ {c}
         /\ WaitingProducers' = WaitingProducers /\ WokenProducers' = WokenProducers
<1> DEFINE l == IF NotifiesProducer THEN "wake_producer" ELSE "idle"
<1>1. /\ HasMutex(c) /\ Goto(c, l) /\ l \in Locations /\ l # "wait"
      /\ RemoveHead /\ UNCHANGED <<config, closed, waits, arg>>
  BY DEF WaitPopTake, Locations
<1>2. c \in Threads /\ pc[c] \in {"idle", "wait"} /\ c \notin Producers /\ c \notin not_empty
  BY <1>1, ConsumerWithMutex
<1>3. /\ pc' \in [Threads -> Locations]
      /\ WaitingConsumers' = WaitingConsumers \ {c} /\ WaitingProducers' = WaitingProducers
  BY <1>1, <1>2, Moves, MovesInWait DEF Shape
<1>4. \A k \in {"wake_consumer", "wake_all", "wake_all_producers"} : At(k)' = At(k)
  BY <1>1, <1>2, Moves DEF Shape, Locations
<1>5. c \notin At("wake_producer")
  BY <1>2 DEF At
<1>6. At("wake_producer")' = At("wake_producer") \cup (IF NotifiesProducer THEN {c} ELSE {})
  <2>1. CASE NotifiesProducer
    BY <1>1, <1>2, <2>1, Moves DEF Shape
  <2>2. CASE ~NotifiesProducer
    BY <1>1, <1>2, <2>2, Moves DEF Shape, Locations
  <2> QED
    BY <2>1, <2>2
<1>7. Shape' /\ size' = size - 1
  BY <1>1, <1>2, <1>3, RingTypes DEF Shape
<1> QED
  BY <1>1, <1>2, <1>3, <1>4, <1>5, <1>6, <1>7 DEF WokenConsumers, WokenProducers

\* wait_pop ends without an item.
LEMMA AfterWaitPopFails ==
  ASSUME Shape, NEW c \in Consumers, WaitPopClosed(c) \/ WaitPopThrows(c)
  PROVE  /\ Shape' /\ SameNotifiers /\ HasMutex(c)
         /\ WaitingConsumers' = WaitingConsumers \ {c}
         /\ WaitingProducers' = WaitingProducers /\ WokenProducers' = WokenProducers
<1>1. /\ HasMutex(c) /\ Goto(c, "idle") /\ "idle" \in Locations
      /\ UNCHANGED <<config, ring, closed, waits, arg>>
  BY DEF WaitPopClosed, WaitPopThrows, HasMutex, Locations
<1>2. c \in Threads /\ pc[c] \in {"idle", "wait"} /\ c \notin Producers /\ c \notin not_empty
  BY <1>1, ConsumerWithMutex
<1>3. /\ pc' \in [Threads -> Locations]
      /\ WaitingConsumers' = WaitingConsumers \ {c} /\ WaitingProducers' = WaitingProducers
  BY <1>1, <1>2, Moves, MovesInWait DEF Shape
<1>4. SameNotifiers
  BY <1>1, <1>2, Moves DEF SameNotifiers, Shape, Locations
<1>5. Shape'
  BY <1>1, <1>2, <1>3 DEF Shape
<1> QED
  BY <1>1, <1>3, <1>4, <1>5 DEF WokenProducers

LEMMA AfterTryPop ==
  ASSUME Shape, NEW c \in Pollers, TryPop(c)
  PROVE  /\ Shape' /\ SameNotifiers /\ size' = size - 1 /\ closed' = closed
         /\ UNCHANGED <<counts, waits>>
         /\ WaitingConsumers' = WaitingConsumers /\ WokenConsumers' = WokenConsumers
         /\ WaitingProducers' = WaitingProducers
<1>1. RemoveHead /\ UNCHANGED <<config, closed, counts, waits, pc, arg>>
  BY DEF TryPop
<1> QED
  BY <1>1, RingTypes DEF Shape, SameNotifiers, At, WaitingConsumers, WaitingProducers,
    WokenConsumers

LEMMA AfterClose ==
  ASSUME Shape, NEW t \in Threads, Close(t)
  PROVE  /\ Shape' /\ closed' /\ size' = size /\ t \in At("wake_all")'
         /\ \A l \in {"wake_consumer", "wake_producer", "wake_all_producers"} : At(l)' = At(l)
         /\ UNCHANGED <<counts, waits>>
         /\ WaitingConsumers' = WaitingConsumers /\ WokenConsumers' = WokenConsumers
         /\ WaitingProducers' = WaitingProducers
<1>1. /\ pc[t] = "idle" /\ Goto(t, "wake_all") /\ "wake_all" \in Locations
      /\ closed' = TRUE /\ UNCHANGED <<config, ring, counts, waits, arg>>
  BY DEF Close, Locations
<1>2. /\ pc' \in [Threads -> Locations] /\ t \in At("wake_all")'
      /\ WaitingConsumers' = WaitingConsumers /\ WaitingProducers' = WaitingProducers
      /\ \A l \in {"wake_consumer", "wake_producer", "wake_all_producers"} : At(l)' = At(l)
  BY <1>1, Moves, MovesInWait DEF Shape, Locations
<1>3. Shape'
  BY <1>1, <1>2 DEF Shape
<1> QED
  BY <1>1, <1>2, <1>3 DEF WokenConsumers

LEMMA AfterCloseWakesConsumers ==
  ASSUME Shape, NEW t \in Threads, CloseWakesConsumers(t)
  PROVE  /\ Shape' /\ closed' = closed /\ size' = size /\ not_empty' = {}
         /\ \A l \in {"wake_consumer", "wake_producer"} : At(l)' = At(l)
         /\ WaitingConsumers' = WaitingConsumers /\ WaitingProducers' = WaitingProducers
         /\ IF version = "V1" THEN not_full' = {}
                              ELSE not_full' = not_full /\ t \in At("wake_all_producers")'
<1> DEFINE l == IF version = "V1" THEN "idle" ELSE "wake_all_producers"
<1>1. /\ pc[t] = "wake_all" /\ Goto(t, l) /\ l \in Locations /\ l # "wait"
      /\ not_empty' = {} /\ not_full' = IF version = "V1" THEN {} ELSE not_full
      /\ UNCHANGED <<config, ring, closed, counts, arg>>
  BY DEF CloseWakesConsumers, NotifyAll, Locations
<1>2. /\ pc' \in [Threads -> Locations] /\ t \in At(l)'
      /\ WaitingConsumers' = WaitingConsumers /\ WaitingProducers' = WaitingProducers
      /\ \A k \in {"wake_consumer", "wake_producer"} : At(k)' = At(k)
  BY <1>1, Moves, MovesInWait DEF Shape, Locations
<1>3. Shape'
  BY <1>1, <1>2 DEF Shape
<1> QED
  BY <1>1, <1>2, <1>3

LEMMA AfterCloseWakesProducers ==
  ASSUME Shape, NEW t \in Threads, CloseWakesProducers(t)
  PROVE  /\ Shape' /\ closed' = closed /\ size' = size
         /\ not_empty' = not_empty /\ not_full' = {}
         /\ \A l \in {"wake_consumer", "wake_producer", "wake_all"} : At(l)' = At(l)
         /\ WaitingConsumers' = WaitingConsumers /\ WaitingProducers' = WaitingProducers
<1>1. /\ pc[t] = "wake_all_producers" /\ Goto(t, "idle") /\ "idle" \in Locations
      /\ not_full' = {} /\ UNCHANGED <<config, ring, closed, counts, not_empty, arg>>
  BY DEF CloseWakesProducers, NotifyAll, Locations
<1>2. /\ pc' \in [Threads -> Locations]
      /\ WaitingConsumers' = WaitingConsumers /\ WaitingProducers' = WaitingProducers
      /\ \A k \in {"wake_consumer", "wake_producer", "wake_all"} : At(k)' = At(k)
  BY <1>1, Moves, MovesInWait DEF Shape, Locations
<1>3. Shape'
  BY <1>1, <1>2 DEF Shape
<1> QED
  BY <1>1, <1>2, <1>3

LEMMA AfterSpuriousWakeup ==
  ASSUME Shape, NEW t \in Threads, SpuriousWakeup(t)
  PROVE  /\ Shape' /\ SameNotifiers /\ size' = size /\ closed' = closed
         /\ WaitingConsumers' = WaitingConsumers /\ WaitingProducers' = WaitingProducers
         /\ \/ not_full' = not_full /\ t \in not_empty /\ not_empty' = not_empty \ {t}
            \/ not_empty' = not_empty /\ t \in not_full /\ not_full' = not_full \ {t}
<1>1. /\ t \in not_empty \cup not_full
      /\ not_empty' = not_empty \ {t} /\ not_full' = not_full \ {t}
      /\ UNCHANGED <<config, ring, closed, counts, pc, arg>>
  BY DEF SpuriousWakeup
<1>2. ~(t \in not_empty /\ t \in not_full)
  BY RingThreadsAssumption DEF Shape, WaitingConsumers, WaitingProducers
<1>3. WaitingConsumers' = WaitingConsumers /\ WaitingProducers' = WaitingProducers
  BY <1>1 DEF WaitingConsumers, WaitingProducers
<1>4. SameNotifiers
  BY <1>1 DEF SameNotifiers, At
<1>5. Shape'
  BY <1>1, <1>3 DEF Shape
<1>6. \/ not_full' = not_full /\ t \in not_empty /\ not_empty' = not_empty \ {t}
      \/ not_empty' = not_empty /\ t \in not_full /\ not_full' = not_full \ {t}
  BY <1>1, <1>2
<1> QED
  BY <1>1, <1>3, <1>4, <1>5, <1>6

LEMMA AfterStutter ==
  ASSUME Shape, UNCHANGED vars
  PROVE  /\ Shape' /\ SameNotifiers
         /\ WaitingConsumers' = WaitingConsumers /\ WokenConsumers' = WokenConsumers
         /\ WaitingProducers' = WaitingProducers /\ WokenProducers' = WokenProducers
BY DEF vars, Shape, SameNotifiers, At, WaitingConsumers, WaitingProducers, WokenConsumers,
  WokenProducers

-----------------------------------------------------------------------------
(* Invariants.                                                             *)

LEMMA ShapeStep ==
  ASSUME Shape, [Next]_vars
  PROVE  Shape'
<1>1. CASE Next
  BY <1>1, NextCases, AfterEmplaceWait, AfterEmplaceStore, AfterEmplaceFails, AfterTryEmplace,
     AfterWakeConsumer, AfterWaitPopWait, AfterWaitPopTake, AfterWaitPopFails, AfterTryPop,
     AfterWakeProducer, AfterClose, AfterCloseWakesConsumers, AfterCloseWakesProducers,
     AfterSpuriousWakeup
<1>2. CASE UNCHANGED vars
  BY <1>2, AfterStutter
<1> QED
  BY <1>1, <1>2

\* The class of an object never changes, nor do the habits of its clients.
LEMMA Fixed ==
  ASSUME [Next]_vars
  PROVE  version' = version /\ disciplined' = disciplined
<1> USE DEF EmplaceWait, EmplaceStore, EmplaceClosed, EmplaceThrows, TryEmplace, WakeConsumer,
            WaitPopWait, WaitPopTake, WaitPopClosed, WaitPopThrows, TryPop, WakeProducer, Close,
            CloseWakesConsumers, CloseWakesProducers, SpuriousWakeup
<1>1. CASE Next
  BY <1>1, NextCases
<1>2. CASE UNCHANGED vars
  BY <1>2 DEF vars
<1> QED
  BY <1>1, <1>2

LEMMA InitShape ==
  ASSUME Init
  PROVE  Shape
<1>1. Capacity \in Nat \ {0} /\ 0 \in 0..(Capacity - 1) /\ 0 \in 0..Capacity
  BY RingCapacityAssumption
<1>2. /\ buffer \in [0..(Capacity - 1) -> Values \cup {Blank}]
      /\ pc \in [Threads -> Locations] /\ arg \in [Threads -> Values \cup {Blank}]
  BY DEF Init, Locations
<1> QED
  BY <1>1, <1>2 DEF Init, Shape

LEMMA ShapeInvariant == SafeSpec => []Shape
<1>1. Init => Shape
  BY InitShape
<1>2. Shape /\ [Next]_vars => Shape'
  BY ShapeStep
<1> QED
  BY <1>1, <1>2, PTL DEF SafeSpec

\* Sets of threads can be counted.
LEMMA Countable ==
  ASSUME NEW S \in SUBSET Threads
  PROVE  IsFiniteSet(S) /\ Cardinality(S) \in Nat
BY RingThreadsAssumption, FS_Subset, FS_CardinalityType

LEMMA OneMore ==
  ASSUME NEW S \in SUBSET Threads, NEW t \in Threads
  PROVE  Cardinality(S \cup {t}) = IF t \in S THEN Cardinality(S) ELSE Cardinality(S) + 1
BY Countable, FS_AddElement

LEMMA OneLess ==
  ASSUME NEW S \in SUBSET Threads, NEW t \in Threads
  PROVE  Cardinality(S \ {t}) = IF t \in S THEN Cardinality(S) - 1 ELSE Cardinality(S)
BY Countable, FS_RemoveElement

LEMMA SetsOfThreads ==
  /\ WaitingConsumers \in SUBSET Threads /\ WokenConsumers \in SUBSET Threads
  /\ WaitingProducers \in SUBSET Threads /\ WokenProducers \in SUBSET Threads
  /\ \A l : At(l) \in SUBSET Threads
BY DEF WaitingConsumers, WaitingProducers, WokenConsumers, WokenProducers, At, Threads

\* The waiter counts are exact from the first step on.
LEMMA CounterStep ==
  ASSUME Shape, Counter, [Next]_vars
  PROVE  Counter'
<1>0. Counting' <=> Counting
  BY Fixed DEF Counting
<1>1. ASSUME WaitingConsumers' = WaitingConsumers, WaitingProducers' = WaitingProducers,
             UNCHANGED counts
      PROVE  Counter'
  BY <1>0, <1>1 DEF Counter
<1>2. ASSUME NEW p \in Producers, HasMutex(p), UncountProducer(p),
             waiting_consumers' = waiting_consumers, WaitingConsumers' = WaitingConsumers,
             WaitingProducers' = WaitingProducers \ {p}
      PROVE  Counter'
  <2>1. p \in Threads /\ (p \in WaitingProducers <=> pc[p] = "wait")
    BY <1>2, ProducerWithMutex
  <2>2. /\ Cardinality(WaitingProducers) \in Nat
        /\ Cardinality(WaitingProducers \ {p}) =
             IF pc[p] = "wait" THEN Cardinality(WaitingProducers) - 1
                               ELSE Cardinality(WaitingProducers)
    BY <2>1, SetsOfThreads, Countable, OneLess
  <2> QED
    BY <1>0, <1>2, <2>2 DEF Counter, UncountProducer
<1>3. ASSUME NEW c \in Consumers, HasMutex(c), UncountConsumer(c),
             waiting_producers' = waiting_producers, WaitingProducers' = WaitingProducers,
             WaitingConsumers' = WaitingConsumers \ {c}
      PROVE  Counter'
  <2>1. c \in Threads /\ (c \in WaitingConsumers <=> pc[c] = "wait")
    BY <1>3, ConsumerWithMutex
  <2>2. /\ Cardinality(WaitingConsumers) \in Nat
        /\ Cardinality(WaitingConsumers \ {c}) =
             IF pc[c] = "wait" THEN Cardinality(WaitingConsumers) - 1
                               ELSE Cardinality(WaitingConsumers)
    BY <2>1, SetsOfThreads, Countable, OneLess
  <2> QED
    BY <1>0, <1>3, <2>2 DEF Counter, UncountConsumer
<1>4. ASSUME NEW p \in Producers, NEW v \in Values, EmplaceWait(p, v)
      PROVE  Counter'
  <2>1. /\ p \in Threads /\ (p \in WaitingProducers <=> pc[p] = "wait")
        /\ pc[p] \in {"idle", "wait"}
    BY <1>4, ProducerWithMutex DEF EmplaceWait
  <2>2. /\ Cardinality(WaitingProducers) \in Nat
        /\ Cardinality(WaitingProducers \cup {p}) =
             IF pc[p] = "wait" THEN Cardinality(WaitingProducers)
                               ELSE Cardinality(WaitingProducers) + 1
    BY <2>1, SetsOfThreads, Countable, OneMore
  <2>3. /\ WaitingProducers' = WaitingProducers \cup {p}
        /\ WaitingConsumers' = WaitingConsumers
        /\ waiting_consumers' = waiting_consumers
        /\ waiting_producers' = IF Counting /\ pc[p] = "idle" THEN waiting_producers + 1
                                                              ELSE waiting_producers
    BY <1>4, AfterEmplaceWait DEF EmplaceWait
  <2> QED
    BY <1>0, <2>1, <2>2, <2>3 DEF Counter
<1>5. ASSUME NEW c \in Consumers, WaitPopWait(c)
      PROVE  Counter'
  <2>1. /\ c \in Threads /\ (c \in WaitingConsumers <=> pc[c] = "wait")
        /\ pc[c] \in {"idle", "wait"}
    BY <1>5, ConsumerWithMutex DEF WaitPopWait
  <2>2. /\ Cardinality(WaitingConsumers) \in Nat
        /\ Cardinality(WaitingConsumers \cup {c}) =
             IF pc[c] = "wait" THEN Cardinality(WaitingConsumers)
                               ELSE Cardinality(WaitingConsumers) + 1
    BY <2>1, SetsOfThreads, Countable, OneMore
  <2>3. /\ WaitingConsumers' = WaitingConsumers \cup {c}
        /\ WaitingProducers' = WaitingProducers
        /\ waiting_producers' = waiting_producers
        /\ waiting_consumers' = IF Counting /\ pc[c] = "idle" THEN waiting_consumers + 1
                                                              ELSE waiting_consumers
    BY <1>5, AfterWaitPopWait DEF WaitPopWait
  <2> QED
    BY <1>0, <2>1, <2>2, <2>3 DEF Counter
<1>6. ASSUME NEW p \in Producers, NEW v \in Values, EmplaceStore(p, v)
      PROVE  Counter'
  BY <1>2, <1>6, AfterEmplaceStore DEF EmplaceStore
<1>7. ASSUME NEW p \in Producers, EmplaceClosed(p) \/ EmplaceThrows(p)
      PROVE  Counter'
  BY <1>2, <1>7, AfterEmplaceFails DEF EmplaceClosed, EmplaceThrows
<1>8. ASSUME NEW c \in Consumers, WaitPopTake(c)
      PROVE  Counter'
  BY <1>3, <1>8, AfterWaitPopTake DEF WaitPopTake
<1>9. ASSUME NEW c \in Consumers, WaitPopClosed(c) \/ WaitPopThrows(c)
      PROVE  Counter'
  BY <1>3, <1>9, AfterWaitPopFails DEF WaitPopClosed, WaitPopThrows
<1>10. ASSUME NEW p \in TryPushers, NEW v \in Values, TryEmplace(p, v)
       PROVE  Counter'
  BY <1>1, <1>10, AfterTryEmplace DEF TryEmplace
<1>11. ASSUME NEW c \in Pollers, TryPop(c)
       PROVE  Counter'
  BY <1>1, <1>11, AfterTryPop
<1>12. ASSUME NEW t \in Threads, WakeConsumer(t) \/ WakeProducer(t)
       PROVE  Counter'
  BY <1>1, <1>12, AfterWakeConsumer, AfterWakeProducer DEF WakeConsumer, WakeProducer
<1>13. ASSUME NEW t \in Threads, Close(t) \/ CloseWakesConsumers(t) \/ CloseWakesProducers(t)
       PROVE  Counter'
  BY <1>1, <1>13, AfterClose, AfterCloseWakesConsumers, AfterCloseWakesProducers
  DEF CloseWakesConsumers, CloseWakesProducers
<1>14. ASSUME NEW t \in Threads, SpuriousWakeup(t)
       PROVE  Counter'
  BY <1>1, <1>14, AfterSpuriousWakeup DEF SpuriousWakeup
<1>15. CASE UNCHANGED vars
  BY <1>1, <1>15, AfterStutter DEF vars
<1>16. CASE Next
  BY <1>16, NextCases, <1>4, <1>5, <1>6, <1>7, <1>8, <1>9, <1>10, <1>11, <1>12, <1>13, <1>14
<1> QED
  BY <1>15, <1>16

LEMMA CounterInvariant == SafeSpec => []Counter
<1>1. ASSUME Init
      PROVE  Counter
  <2>1. /\ WaitingConsumers = {} /\ WaitingProducers = {}
        /\ waiting_consumers = 0 /\ waiting_producers = 0
    BY <1>1 DEF Init, WaitingConsumers, WaitingProducers, Threads
  <2> QED
    BY <2>1, FS_EmptySet DEF Counter
<1> QED
  BY <1>1, CounterStep, ShapeInvariant, PTL DEF SafeSpec

\* The members of the ring keep their types; in particular the element count stays
\* between 0 and capacity_ and the waiter counts never go below zero.
THEOREM TypeCorrect == SafeSpec => []TypeOK
<1>1. ASSUME Shape, Counter
      PROVE  TypeOK
  <2>1. Cardinality(WaitingConsumers) \in Nat /\ Cardinality(WaitingProducers) \in Nat
    BY SetsOfThreads, Countable
  <2>2. not_empty \subseteq Consumers /\ not_full \subseteq Producers
    BY <1>1 DEF Shape, WaitingConsumers, WaitingProducers
  <2> QED
    BY <1>1, <2>1, <2>2 DEF Shape, Counter, TypeOK
<1> QED
  BY <1>1, ShapeInvariant, CounterInvariant, PTL

\* V3's waiting_consumers_ and waiting_producers_ always equal the numbers of
\* threads inside wait(), those that were woken and have not got the mutex included.
THEOREM WaiterCountsCorrect == SafeSpec => []WaiterCountsExact
<1>1. Counter => WaiterCountsExact
  BY DEF Counter, WaiterCountsExact
<1> QED
  BY <1>1, CounterInvariant, PTL

\* A thread asleep on a closed ring, on either side, always has a notify_all to
\* come, although V2 and V3 notify one side after the other.
THEOREM CloseStrandsNobody == SafeSpec => []CloseWakesSleepers
<1>1. Init => CloseWakesSleepers
  BY DEF Init, CloseWakesSleepers
<1>2. ASSUME Shape, CloseWakesSleepers, [Next]_vars
      PROVE  CloseWakesSleepers'
  <2>1. ASSUME closed' = closed, not_empty' \subseteq not_empty, not_full' \subseteq not_full,
               At("wake_all")' = At("wake_all"),
               At("wake_all_producers")' = At("wake_all_producers")
        PROVE  CloseWakesSleepers'
    BY <1>2, <2>1 DEF CloseWakesSleepers
  <2>2. ASSUME NEW p \in Producers, NEW v \in Values, EmplaceWait(p, v)
        PROVE  CloseWakesSleepers'
    BY <2>2 DEF EmplaceWait, CloseWakesSleepers
  <2>3. ASSUME NEW c \in Consumers, WaitPopWait(c)
        PROVE  CloseWakesSleepers'
    BY <2>3 DEF WaitPopWait, CloseWakesSleepers
  <2>4. ASSUME NEW p \in Producers, NEW v \in Values, EmplaceStore(p, v)
        PROVE  CloseWakesSleepers'
    BY <1>2, <2>1, <2>4, AfterEmplaceStore DEF EmplaceStore
  <2>5. ASSUME NEW p \in Producers, EmplaceClosed(p) \/ EmplaceThrows(p)
        PROVE  CloseWakesSleepers'
    BY <1>2, <2>1, <2>5, AfterEmplaceFails DEF EmplaceClosed, EmplaceThrows, SameNotifiers
  <2>6. ASSUME NEW c \in Consumers, WaitPopTake(c)
        PROVE  CloseWakesSleepers'
    BY <1>2, <2>1, <2>6, AfterWaitPopTake DEF WaitPopTake
  <2>7. ASSUME NEW c \in Consumers, WaitPopClosed(c) \/ WaitPopThrows(c)
        PROVE  CloseWakesSleepers'
    BY <1>2, <2>1, <2>7, AfterWaitPopFails DEF WaitPopClosed, WaitPopThrows, SameNotifiers
  <2>8. ASSUME NEW p \in TryPushers, NEW v \in Values, TryEmplace(p, v)
        PROVE  CloseWakesSleepers'
    BY <1>2, <2>1, <2>8, AfterTryEmplace
  <2>9. ASSUME NEW c \in Pollers, TryPop(c)
        PROVE  CloseWakesSleepers'
    BY <1>2, <2>1, <2>9, AfterTryPop DEF SameNotifiers
  <2>10. ASSUME NEW t \in Threads, WakeConsumer(t)
         PROVE  CloseWakesSleepers'
    <3>1. not_empty' \subseteq not_empty /\ not_full' \subseteq not_full
      BY <1>2, <2>10, AfterWakeConsumer DEF NotifiesOneConsumer
    <3> QED
      BY <1>2, <2>1, <2>10, <3>1, AfterWakeConsumer
  <2>11. ASSUME NEW t \in Threads, WakeProducer(t)
         PROVE  CloseWakesSleepers'
    <3>1. not_empty' \subseteq not_empty /\ not_full' \subseteq not_full
      BY <1>2, <2>11, AfterWakeProducer DEF NotifiesOneProducer
    <3> QED
      BY <1>2, <2>1, <2>11, <3>1, AfterWakeProducer
  <2>12. ASSUME NEW t \in Threads, Close(t)
         PROVE  CloseWakesSleepers'
    BY <1>2, <2>12, AfterClose DEF CloseWakesSleepers
  <2>13. ASSUME NEW t \in Threads, CloseWakesConsumers(t)
         PROVE  CloseWakesSleepers'
    BY <1>2, <2>13, AfterCloseWakesConsumers DEF CloseWakesSleepers
  <2>14. ASSUME NEW t \in Threads, CloseWakesProducers(t)
         PROVE  CloseWakesSleepers'
    BY <1>2, <2>14, AfterCloseWakesProducers DEF CloseWakesSleepers
  <2>15. ASSUME NEW t \in Threads, SpuriousWakeup(t)
         PROVE  CloseWakesSleepers'
    <3>1. not_empty' \subseteq not_empty /\ not_full' \subseteq not_full
      BY <1>2, <2>15, AfterSpuriousWakeup
    <3> QED
      BY <1>2, <2>1, <2>15, <3>1, AfterSpuriousWakeup DEF SameNotifiers
  <2>16. CASE UNCHANGED vars
    BY <1>2, <2>1, <2>16, AfterStutter DEF vars, SameNotifiers
  <2>17. CASE Next
    BY <2>17, NextCases, <2>2, <2>3, <2>4, <2>5, <2>6, <2>7, <2>8, <2>9, <2>10, <2>11, <2>12,
       <2>13, <2>14, <2>15
  <2> QED
    BY <1>2, <2>16, <2>17
<1> QED
  BY <1>1, <1>2, ShapeInvariant, PTL DEF SafeSpec

-----------------------------------------------------------------------------
(* Wake-ups.                                                               *)

\* A step neglects no item if it leaves no consumer asleep or nothing to pop, or
\* adds as many agents as it adds items; the same for slots and producers.
LEMMA NoItemNeglected ==
  ASSUME Shape, Shape',
         \/ not_empty' = {}
         \/ size' = 0
         \/ /\ not_empty # {}
            /\ size' + Cardinality(At("wake_consumer")) + Cardinality(WokenConsumers)
                 <= size + Cardinality(At("wake_consumer")') + Cardinality(WokenConsumers')
  PROVE  ~(UnattendedItems' > UnattendedItems)
<1> DEFINE Items == size
           Agents == Cardinality(At("wake_consumer")) + Cardinality(WokenConsumers)
<1>1. Items \in Nat /\ Items' \in Nat
  BY RingCapacityAssumption DEF Shape
<1>2. /\ Cardinality(At("wake_consumer")) \in Nat /\ Cardinality(WokenConsumers) \in Nat
      /\ Cardinality(At("wake_consumer")') \in Nat /\ Cardinality(WokenConsumers') \in Nat
  <2>1. At("wake_consumer")' \in SUBSET Threads /\ WokenConsumers' \in SUBSET Threads
    BY DEF At, WokenConsumers, WaitingConsumers, Threads
  <2> QED
    BY <2>1, SetsOfThreads, Countable
<1>3. /\ UnattendedItems = IF not_empty = {} THEN 0
                           ELSE IF Items > Agents THEN Items - Agents ELSE 0
      /\ UnattendedItems' = IF not_empty' = {} THEN 0
                            ELSE IF Items' > Agents' THEN Items' - Agents' ELSE 0
  BY DEF UnattendedItems, Unattended, WokenConsumers
<1> QED
  BY <1>1, <1>2, <1>3

LEMMA NoSlotNeglected ==
  ASSUME Shape, Shape',
         \/ not_full' = {}
         \/ closed'
         \/ size' = Capacity
         \/ /\ not_full # {} /\ ~closed
            /\ size + Cardinality(At("wake_producer")) + Cardinality(WokenProducers)
                 <= size' + Cardinality(At("wake_producer")') + Cardinality(WokenProducers')
  PROVE  ~(UnattendedSlots' > UnattendedSlots)
<1> DEFINE Slots == Capacity - size
           Agents == Cardinality(At("wake_producer")) + Cardinality(WokenProducers)
<1>1. Capacity \in Nat /\ size \in Nat /\ size' \in Nat /\ size <= Capacity /\ size' <= Capacity
  BY RingCapacityAssumption DEF Shape
<1>2. /\ Cardinality(At("wake_producer")) \in Nat /\ Cardinality(WokenProducers) \in Nat
      /\ Cardinality(At("wake_producer")') \in Nat /\ Cardinality(WokenProducers') \in Nat
  <2>1. At("wake_producer")' \in SUBSET Threads /\ WokenProducers' \in SUBSET Threads
    BY DEF At, WokenProducers, WaitingProducers, Threads
  <2> QED
    BY <2>1, SetsOfThreads, Countable
<1>3. /\ UnattendedSlots = IF not_full = {} \/ closed THEN 0
                           ELSE IF Slots > Agents THEN Slots - Agents ELSE 0
      /\ UnattendedSlots' = IF not_full' = {} \/ closed' THEN 0
                            ELSE IF Slots' > Agents' THEN Slots' - Agents' ELSE 0
  BY DEF UnattendedSlots, Unattended, WokenProducers
<1> QED
  BY <1>1, <1>2, <1>3

\* Cardinalities of the sets the two lemmas speak of.
LEMMA Agents ==
  /\ Cardinality(At("wake_consumer")) \in Nat /\ Cardinality(WokenConsumers) \in Nat
  /\ Cardinality(At("wake_producer")) \in Nat /\ Cardinality(WokenProducers) \in Nat
BY SetsOfThreads, Countable

\* The bookkeeping of a step that touches neither sleepers nor notifiers of a side.
LEMMA NothingOnItemSide ==
  ASSUME Shape, Shape', size' <= size, not_empty' = not_empty,
         At("wake_consumer")' = At("wake_consumer"), WokenConsumers' = WokenConsumers
  PROVE  ~(UnattendedItems' > UnattendedItems)
<1>1. size \in Nat /\ size' \in Nat
  BY RingCapacityAssumption DEF Shape
<1> QED
  BY <1>1, Agents, NoItemNeglected

LEMMA NothingOnSlotSide ==
  ASSUME Shape, Shape', size <= size', not_full' = not_full, closed => closed',
         At("wake_producer")' = At("wake_producer"), WokenProducers' = WokenProducers
  PROVE  ~(UnattendedSlots' > UnattendedSlots)
<1>1. size \in Nat /\ size' \in Nat
  BY RingCapacityAssumption DEF Shape
<1>2. CASE closed'
  BY <1>2, NoSlotNeglected
<1>3. CASE ~closed'
  BY <1>1, <1>3, Agents, NoSlotNeglected
<1> QED
  BY <1>2, <1>3

LEMMA SizeIsNat ==
  ASSUME Shape
  PROVE  size \in Nat /\ Capacity \in Nat /\ size <= Capacity
BY RingCapacityAssumption DEF Shape

\* The versions that notify for each item and each slot that somebody waits for: V3,
\* which looks at the size before it counts, does so only when there is a single slot.
NotifiesForEach == version # "V3" \/ Capacity = 1

\* A push that notifies nobody finds nobody waiting; so does a removal.  In V3 this is
\* so for the push onto an empty ring and the removal from a full one, at least.
LEMMA SilentPush ==
  ASSUME Shape, Counter, NotifiesForEach \/ size = 0, size < Capacity, ~NotifiesConsumer
  PROVE  not_empty = {}
<1>1. version = "V3" /\ size = 0 /\ ~(waiting_consumers > 0)
  BY RingVersionAssumption, SizeIsNat
  DEF NotifiesForEach, NotifiesConsumer, NotifiesConsumerV1, NotifiesConsumerV2,
    NotifiesConsumerV3, Shape
<1>2. waiting_consumers = Cardinality(WaitingConsumers) /\ waiting_consumers \in Nat
  BY <1>1, SetsOfThreads, Countable DEF Counter, Counting
<1>3. WaitingConsumers = {}
  BY <1>1, <1>2, SetsOfThreads, Countable, FS_EmptySet
<1> QED
  BY <1>3 DEF Shape

LEMMA SilentRemoval ==
  ASSUME Shape, Counter, NotifiesForEach \/ size = Capacity, size > 0, ~NotifiesProducer
  PROVE  not_full = {}
<1>1. version = "V3" /\ size = Capacity /\ ~(waiting_producers > 0)
  BY RingVersionAssumption, SizeIsNat
  DEF NotifiesForEach, NotifiesProducer, NotifiesProducerV1, NotifiesProducerV2,
    NotifiesProducerV3, Shape
<1>2. waiting_producers = Cardinality(WaitingProducers) /\ waiting_producers \in Nat
  BY <1>1, SetsOfThreads, Countable DEF Counter, Counting
<1>3. WaitingProducers = {}
  BY <1>1, <1>2, SetsOfThreads, Countable, FS_EmptySet
<1> QED
  BY <1>3 DEF Shape

\* Items.
LEMMA ItemNeglectHasACause ==
  ASSUME Shape, Counter, NotifiesForEach, [Next]_vars, UnattendedItems' > UnattendedItems
  PROVE  \/ version = "V2" /\ size > 0 /\ \E p \in TryPushersInUse, v \in Values : TryEmplace(p, v)
         \/ \E c \in Consumers : WaitPopThrows(c)
<1> SUFFICES ASSUME ~(version = "V2" /\ size > 0
                        /\ \E p \in TryPushersInUse, v \in Values : TryEmplace(p, v)),
                    ~(\E c \in Consumers : WaitPopThrows(c))
             PROVE  FALSE
  OBVIOUS
<1>0. Shape' /\ size \in Nat /\ Capacity \in Nat
  BY ShapeStep, SizeIsNat
<1>1. version \in {"V1", "V2", "V3"}
  BY RingVersionAssumption DEF Shape
<1>2. ASSUME NEW p \in Producers, NEW v \in Values, EmplaceWait(p, v)
      PROVE  FALSE
  <2>1. size' = size /\ not_empty' = not_empty
    BY <1>2 DEF EmplaceWait
  <2> QED
    BY <1>0, <1>2, <2>1, AfterEmplaceWait, NothingOnItemSide DEF SameNotifiers
<1>3. ASSUME NEW p \in Producers, NEW v \in Values, EmplaceStore(p, v)
      PROVE  FALSE
  <2>1. p \in Threads /\ not_empty' = not_empty /\ size < Capacity
    BY <1>3 DEF Threads, EmplaceStore, StoreTail
  <2>2. CASE not_empty = {}
    BY <1>0, <2>1, <2>2, NoItemNeglected
  <2>3. CASE not_empty # {}
    <3>1. NotifiesConsumer
      BY <2>1, <2>3, SilentPush
    <3>2. /\ Cardinality(At("wake_consumer")') = Cardinality(At("wake_consumer")) + 1
          /\ size' = size + 1 /\ WokenConsumers' = WokenConsumers
      BY <1>3, <2>1, <3>1, AfterEmplaceStore, SetsOfThreads, OneMore
    <3> QED
      BY <1>0, <2>3, <3>2, Agents, NoItemNeglected
  <2> QED
    BY <2>2, <2>3
<1>4. ASSUME NEW p \in Producers, EmplaceClosed(p) \/ EmplaceThrows(p)
      PROVE  FALSE
  BY <1>0, <1>4, AfterEmplaceFails, NothingOnItemSide DEF EmplaceClosed, EmplaceThrows, SameNotifiers
<1>5. ASSUME NEW p \in TryPushersInUse, NEW v \in Values, TryEmplace(p, v)
      PROVE  FALSE
  <2>0. p \in TryPushers
    BY DEF TryPushersInUse
  <2>1. CASE version = "V1"
    <3>1. not_empty' = {}
      BY <1>5, <2>1 DEF TryEmplace, TryEmplaceV1, TryEmplaceV2, TryEmplaceV3, NotifyEitherSide,
         NotifyAll
    <3> QED
      BY <1>0, <3>1, NoItemNeglected
  <2>2. CASE version = "V2"
    <3>1. size = 0
      BY <1>0, <1>5, <2>2
    <3>2. not_empty' \in NotifyOne(not_empty)
      BY <1>5, <2>2, <3>1 DEF TryEmplace, TryEmplaceV1, TryEmplaceV2, TryEmplaceV3
    <3>3. /\ size' = size + 1 /\ At("wake_consumer")' = At("wake_consumer")
          /\ WaitingConsumers' = WaitingConsumers
      BY <1>5, <2>0, <2>2, AfterTryEmplace
    <3>4. CASE not_empty = {}
      <4>1. not_empty' = {}
        BY <3>2, <3>4 DEF NotifyOne
      <4> QED
        BY <1>0, <4>1, NoItemNeglected
    <3>5. CASE not_empty # {}
      <4>1. PICK c \in not_empty : not_empty' = not_empty \ {c}
        BY <3>2, <3>5 DEF NotifyOne
      <4>2. /\ c \in Threads /\ c \notin WokenConsumers
            /\ WokenConsumers' = WokenConsumers \cup {c}
        BY <3>3, <4>1 DEF WokenConsumers, Shape, WaitingConsumers, Threads
      <4>3. Cardinality(WokenConsumers') = Cardinality(WokenConsumers) + 1
        BY <4>2, SetsOfThreads, OneMore
      <4> QED
        BY <1>0, <3>3, <3>5, <4>3, Agents, NoItemNeglected
    <3> QED
      BY <3>4, <3>5
  <2>3. CASE version = "V3"
    <3>1. /\ TryEmplaceV3(p, v) /\ size < Capacity /\ pc[p] = "idle"
          /\ size' = size + 1 /\ WaitingConsumers' = WaitingConsumers
      BY <1>5, <2>0, <2>3, AfterTryEmplace DEF TryEmplace, TryEmplaceV1, TryEmplaceV2, StoreTail
    <3>2. not_empty' = not_empty /\ WokenConsumers' = WokenConsumers
      BY <3>1 DEF TryEmplaceV3, WokenConsumers
    <3>3. CASE not_empty = {}
      BY <1>0, <3>2, <3>3, NoItemNeglected
    <3>4. CASE not_empty # {}
      <4>1. NotifiesConsumerV3
        BY <2>3, <3>1, <3>4, SilentPush
        DEF NotifiesConsumer, NotifiesConsumerV1, NotifiesConsumerV2
      <4>2. /\ p \in Threads /\ p \notin At("wake_consumer")
            /\ At("wake_consumer")' = At("wake_consumer") \cup {p}
        BY <2>0, <3>1, <4>1, Moves DEF TryEmplaceV3, Threads, At, Locations, Shape
      <4>3. Cardinality(At("wake_consumer")') = Cardinality(At("wake_consumer")) + 1
        BY <4>2, SetsOfThreads, OneMore
      <4> QED
        BY <1>0, <3>1, <3>2, <3>4, <4>3, Agents, NoItemNeglected
    <3> QED
      BY <3>3, <3>4
  <2> QED
    BY <1>1, <2>1, <2>2, <2>3
<1>6. ASSUME NEW t \in Threads, WakeConsumer(t)
      PROVE  FALSE
  <2>1. CASE not_empty' = {}
    BY <1>0, <2>1, NoItemNeglected
  <2>2. CASE not_empty' # {}
    <3>1. PICK c \in not_empty : not_empty' = not_empty \ {c}
      BY <1>6, <2>2, AfterWakeConsumer DEF NotifiesOneConsumer
    <3>2. c \in Threads /\ c \notin WokenConsumers /\ WokenConsumers' = WokenConsumers \cup {c}
      BY <1>6, <3>1, AfterWakeConsumer DEF WokenConsumers, Shape, WaitingConsumers, Threads
    <3>3. Cardinality(WokenConsumers') = Cardinality(WokenConsumers) + 1
      BY <3>2, SetsOfThreads, OneMore
    <3>4. Cardinality(At("wake_consumer")') = Cardinality(At("wake_consumer")) - 1 /\ size' = size
      BY <1>6, AfterWakeConsumer, SetsOfThreads, OneLess
    <3> QED
      BY <1>0, <3>1, <3>3, <3>4, Agents, NoItemNeglected
  <2> QED
    BY <2>1, <2>2
<1>7. ASSUME NEW c \in Consumers, WaitPopWait(c) \/ WaitPopClosed(c)
      PROVE  FALSE
  <2>1. size' = 0
    BY <1>7 DEF WaitPopWait, WaitPopClosed
  <2> QED
    BY <1>0, <2>1, NoItemNeglected
<1>8. ASSUME NEW c \in Consumers, WaitPopTake(c)
      PROVE  FALSE
  <2>1. /\ size' = size - 1 /\ WokenConsumers' = WokenConsumers \ {c} /\ not_empty' = not_empty
        /\ At("wake_consumer")' = At("wake_consumer") /\ c \in Threads
    BY <1>8, AfterWaitPopTake DEF WaitPopTake, Threads
  <2>2. Cardinality(WokenConsumers) <= Cardinality(WokenConsumers') + 1
    BY <2>1, SetsOfThreads, OneLess, Agents
  <2>3. CASE not_empty = {}
    BY <1>0, <2>1, <2>3, NoItemNeglected
  <2>4. CASE not_empty # {}
    <3>1. Cardinality(WokenConsumers') \in Nat
      BY <2>1, SetsOfThreads, Countable
    <3> QED
      BY <1>0, <2>1, <2>2, <2>4, <3>1, Agents, NoItemNeglected
  <2> QED
    BY <2>3, <2>4
<1>9. ASSUME NEW c \in Pollers, TryPop(c)
      PROVE  FALSE
  BY <1>0, <1>9, AfterTryPop, NothingOnItemSide DEF SameNotifiers
<1>10. ASSUME NEW t \in Threads, WakeProducer(t)
       PROVE  FALSE
  <2>1. CASE not_empty' = {}
    BY <1>0, <2>1, NoItemNeglected
  <2>2. CASE not_empty' # {}
    <3>1. /\ not_empty' = not_empty /\ size' = size /\ WaitingConsumers' = WaitingConsumers
          /\ At("wake_consumer")' = At("wake_consumer")
      BY <1>10, <2>2, AfterWakeProducer
    <3> QED
      BY <1>0, <3>1, NothingOnItemSide DEF WokenConsumers
  <2> QED
    BY <2>1, <2>2
<1>11. ASSUME NEW t \in Threads, Close(t)
       PROVE  FALSE
  BY <1>0, <1>11, AfterClose, NothingOnItemSide
<1>12. ASSUME NEW t \in Threads, CloseWakesConsumers(t)
       PROVE  FALSE
  BY <1>0, <1>12, AfterCloseWakesConsumers, NoItemNeglected
<1>13. ASSUME NEW t \in Threads, CloseWakesProducers(t)
       PROVE  FALSE
  BY <1>0, <1>13, AfterCloseWakesProducers, NothingOnItemSide DEF WokenConsumers
<1>14. ASSUME NEW t \in Threads, SpuriousWakeup(t)
       PROVE  FALSE
  <2>1. CASE t \in not_empty /\ not_empty' = not_empty \ {t}
    <3>1. /\ t \notin WokenConsumers /\ WokenConsumers' = WokenConsumers \cup {t}
          /\ size' = size /\ At("wake_consumer")' = At("wake_consumer")
      BY <1>14, <2>1, AfterSpuriousWakeup DEF WokenConsumers, Shape, SameNotifiers
    <3>2. Cardinality(WokenConsumers') = Cardinality(WokenConsumers) + 1
      BY <3>1, SetsOfThreads, OneMore
    <3> QED
      BY <1>0, <2>1, <3>1, <3>2, Agents, NoItemNeglected
  <2>2. CASE not_empty' = not_empty
    BY <1>0, <1>14, <2>2, AfterSpuriousWakeup, NothingOnItemSide DEF WokenConsumers, SameNotifiers
  <2> QED
    BY <1>14, <2>1, <2>2, AfterSpuriousWakeup
<1>15. CASE UNCHANGED vars
  BY <1>0, <1>15, AfterStutter, NothingOnItemSide DEF vars, SameNotifiers
<1>16. CASE Next
  <2> TryPushersInUse \subseteq TryPushers
    BY DEF TryPushersInUse
  <2> QED
    BY <1>16, NextCases, <1>2, <1>3, <1>4, <1>5, <1>6, <1>7, <1>8, <1>9, <1>10, <1>11, <1>12,
       <1>13, <1>14
<1> QED
  BY <1>15, <1>16

\* Slots: the mirror image, with try_pop and a throw in emplace as the exceptions.
LEMMA SlotNeglectHasACause ==
  ASSUME Shape, Counter, NotifiesForEach, [Next]_vars, UnattendedSlots' > UnattendedSlots
  PROVE  \/ \E c \in PollersInUse : TryPop(c)
         \/ \E p \in Producers : EmplaceThrows(p)
<1> SUFFICES ASSUME ~(\E c \in PollersInUse : TryPop(c)),
                    ~(\E p \in Producers : EmplaceThrows(p))
             PROVE  FALSE
  OBVIOUS
<1>0. Shape' /\ size \in Nat /\ size' \in Nat /\ Capacity \in Nat
  <2>1. Shape'
    BY ShapeStep
  <2> QED
    BY <2>1, SizeIsNat, RingCapacityAssumption DEF Shape
<1>1. version \in {"V1", "V2", "V3"}
  BY RingVersionAssumption DEF Shape
<1>2. ASSUME NEW p \in Producers, NEW v \in Values, EmplaceWait(p, v)
      PROVE  FALSE
  <2>1. size' = Capacity
    BY <1>2 DEF EmplaceWait
  <2> QED
    BY <1>0, <2>1, NoSlotNeglected
<1>3. ASSUME NEW p \in Producers, NEW v \in Values, EmplaceStore(p, v)
      PROVE  FALSE
  <2>1. /\ size' = size + 1 /\ WokenProducers' = WokenProducers \ {p} /\ not_full' = not_full
        /\ At("wake_producer")' = At("wake_producer") /\ p \in Threads /\ ~closed
    BY <1>3, AfterEmplaceStore DEF EmplaceStore, Threads
  <2>2. Cardinality(WokenProducers) <= Cardinality(WokenProducers') + 1
    BY <2>1, SetsOfThreads, OneLess, Agents
  <2>3. CASE not_full = {}
    BY <1>0, <2>1, <2>3, NoSlotNeglected
  <2>4. CASE not_full # {}
    <3>1. Cardinality(WokenProducers') \in Nat
      BY <2>1, SetsOfThreads, Countable
    <3> QED
      BY <1>0, <2>1, <2>2, <2>4, <3>1, Agents, NoSlotNeglected
  <2> QED
    BY <2>3, <2>4
<1>4. ASSUME NEW p \in Producers, EmplaceClosed(p)
      PROVE  FALSE
  <2>1. closed'
    BY <1>4 DEF EmplaceClosed
  <2> QED
    BY <1>0, <2>1, NoSlotNeglected
<1>5. ASSUME NEW p \in TryPushers, NEW v \in Values, TryEmplace(p, v)
      PROVE  FALSE
  <2>1. CASE not_full' = {}
    BY <1>0, <2>1, NoSlotNeglected
  <2>2. CASE not_full' # {}
    <3>1. not_full' = not_full
      BY <1>1, <1>5, <2>2 DEF TryEmplace, TryEmplaceV1, TryEmplaceV2, TryEmplaceV3,
         NotifyEitherSide, NotifyAll
    <3>2. /\ size <= size' /\ WokenProducers' = WokenProducers /\ closed' = closed
          /\ At("wake_producer")' = At("wake_producer")
      BY <1>0, <1>5, <3>1, AfterTryEmplace DEF WokenProducers
    <3> QED
      BY <1>0, <3>1, <3>2, NothingOnSlotSide
  <2> QED
    BY <2>1, <2>2
<1>6. ASSUME NEW t \in Threads, WakeConsumer(t)
      PROVE  FALSE
  <2>1. CASE not_full' = {}
    BY <1>0, <2>1, NoSlotNeglected
  <2>2. CASE not_full' # {}
    <3>1. /\ not_full' = not_full /\ size' = size /\ WaitingProducers' = WaitingProducers
          /\ At("wake_producer")' = At("wake_producer") /\ closed' = closed
      BY <1>6, <2>2, AfterWakeConsumer
    <3> QED
      BY <1>0, <3>1, NothingOnSlotSide DEF WokenProducers
  <2> QED
    BY <2>1, <2>2
<1>7. ASSUME NEW c \in Consumers, WaitPopWait(c)
      PROVE  FALSE
  <2>1. size' = size /\ not_full' = not_full /\ closed' = closed
    BY <1>7 DEF WaitPopWait
  <2> QED
    BY <1>0, <1>7, <2>1, AfterWaitPopWait, NothingOnSlotSide DEF SameNotifiers
<1>8. ASSUME NEW c \in Consumers, WaitPopTake(c)
      PROVE  FALSE
  <2>1. c \in Threads /\ not_full' = not_full /\ closed' = closed /\ size > 0
    BY <1>8 DEF Threads, WaitPopTake, RemoveHead
  <2>2. CASE not_full = {} \/ closed'
    BY <1>0, <2>1, <2>2, NoSlotNeglected
  <2>3. CASE not_full # {} /\ ~closed'
    <3>1. NotifiesProducer
      BY <2>1, <2>3, SilentRemoval
    <3>2. /\ Cardinality(At("wake_producer")') = Cardinality(At("wake_producer")) + 1
          /\ size' = size - 1 /\ WokenProducers' = WokenProducers
      BY <1>8, <2>1, <3>1, AfterWaitPopTake, SetsOfThreads, OneMore
    <3> QED
      BY <1>0, <2>1, <2>3, <3>2, Agents, NoSlotNeglected
  <2> QED
    BY <2>2, <2>3
<1>9. ASSUME NEW c \in Consumers, WaitPopClosed(c) \/ WaitPopThrows(c)
      PROVE  FALSE
  <2>1. size' = size /\ not_full' = not_full /\ closed' = closed
    BY <1>9 DEF WaitPopClosed, WaitPopThrows
  <2> QED
    BY <1>0, <1>9, <2>1, AfterWaitPopFails, NothingOnSlotSide DEF SameNotifiers
<1>10. ASSUME NEW t \in Threads, WakeProducer(t)
       PROVE  FALSE
  <2>1. CASE not_full' = {}
    BY <1>0, <2>1, NoSlotNeglected
  <2>2. CASE closed'
    BY <1>0, <2>2, NoSlotNeglected
  <2>3. CASE not_full' # {} /\ ~closed'
    <3>1. PICK p \in not_full : not_full' = not_full \ {p}
      BY <1>10, <2>3, AfterWakeProducer DEF NotifiesOneProducer
    <3>2. p \in Threads /\ p \notin WokenProducers /\ WokenProducers' = WokenProducers \cup {p}
      BY <1>10, <3>1, AfterWakeProducer DEF WokenProducers, Shape, WaitingProducers, Threads
    <3>3. Cardinality(WokenProducers') = Cardinality(WokenProducers) + 1
      BY <3>2, SetsOfThreads, OneMore
    <3>4. Cardinality(At("wake_producer")') = Cardinality(At("wake_producer")) - 1 /\ size' = size
      BY <1>10, AfterWakeProducer, SetsOfThreads, OneLess
    <3>5. ~closed
      BY <1>10, <2>3, AfterWakeProducer
    <3> QED
      BY <1>0, <3>1, <3>3, <3>4, <3>5, Agents, NoSlotNeglected
  <2> QED
    BY <2>1, <2>2, <2>3
<1>11. ASSUME NEW t \in Threads, Close(t)
       PROVE  FALSE
  BY <1>0, <1>11, AfterClose, NoSlotNeglected
<1>12. ASSUME NEW t \in Threads, CloseWakesConsumers(t)
       PROVE  FALSE
  <2>1. CASE not_full' = {}
    BY <1>0, <2>1, NoSlotNeglected
  <2>2. CASE not_full' # {}
    <3>1. /\ not_full' = not_full /\ size' = size /\ WaitingProducers' = WaitingProducers
          /\ At("wake_producer")' = At("wake_producer") /\ closed' = closed
      BY <1>12, <2>2, AfterCloseWakesConsumers
    <3> QED
      BY <1>0, <3>1, NothingOnSlotSide DEF WokenProducers
  <2> QED
    BY <2>1, <2>2
<1>13. ASSUME NEW t \in Threads, CloseWakesProducers(t)
       PROVE  FALSE
  BY <1>0, <1>13, AfterCloseWakesProducers, NoSlotNeglected
<1>14. ASSUME NEW t \in Threads, SpuriousWakeup(t)
       PROVE  FALSE
  <2>1. CASE closed'
    BY <1>0, <2>1, NoSlotNeglected
  <2>2. CASE ~closed' /\ t \in not_full /\ not_full' = not_full \ {t}
    <3>1. /\ t \notin WokenProducers /\ WokenProducers' = WokenProducers \cup {t}
          /\ size' = size /\ At("wake_producer")' = At("wake_producer") /\ ~closed
      BY <1>14, <2>2, AfterSpuriousWakeup DEF WokenProducers, Shape, SameNotifiers
    <3>2. Cardinality(WokenProducers') = Cardinality(WokenProducers) + 1
      BY <3>1, SetsOfThreads, OneMore
    <3> QED
      BY <1>0, <2>2, <3>1, <3>2, Agents, NoSlotNeglected
  <2>3. CASE not_full' = not_full
    BY <1>0, <1>14, <2>3, AfterSpuriousWakeup, NothingOnSlotSide DEF WokenProducers, SameNotifiers
  <2> QED
    BY <1>14, <2>1, <2>2, <2>3, AfterSpuriousWakeup
<1>15. CASE UNCHANGED vars
  BY <1>0, <1>15, AfterStutter, NothingOnSlotSide DEF vars, SameNotifiers
<1>16. CASE Next
  BY <1>16, NextCases, <1>2, <1>3, <1>4, <1>5, <1>6, <1>7, <1>8, <1>9, <1>10, <1>11, <1>12,
     <1>13, <1>14
<1> QED
  BY <1>15, <1>16

\* The numbers of neglected items and slots are numbers.
NeglectIsNat == UnattendedItems \in Nat /\ UnattendedSlots \in Nat

LEMMA NeglectCounts ==
  ASSUME Shape
  PROVE  NeglectIsNat
<1>1. size \in Nat /\ Capacity \in Nat /\ size <= Capacity
  BY SizeIsNat
<1> QED
  BY <1>1, Agents
  DEF NeglectIsNat, UnattendedItems, UnattendedSlots, Unattended, WokenConsumers, WokenProducers

LEMMA NeglectCountsNext == Shape' => NeglectIsNat'
<1>1. Shape => NeglectIsNat
  BY NeglectCounts
<1> QED
  BY <1>1, PTL

\* Whoever uses a ring of V1 or V2, and however many items and slots are neglected
\* already: one more item only by V2's try_emplace onto a non-empty ring or an
\* exception in a woken wait_pop, one more slot only by a try_pop or an exception
\* in a woken emplace.
THEOREM NeglectIsExplained == SafeSpec => OnlySilentCallsNeglect
<1> DEFINE Explained ==
      version # "V3" =>
        /\ UnattendedItems' > UnattendedItems =>
             \/ version = "V2" /\ size > 0 /\ \E p \in TryPushers, v \in Values : TryEmplace(p, v)
             \/ \E c \in Consumers : WaitPopThrows(c)
        /\ UnattendedSlots' > UnattendedSlots =>
             \/ \E c \in Pollers : TryPop(c)
             \/ \E p \in Producers : EmplaceThrows(p)
<1>1. Shape /\ Counter /\ [Next]_vars => Explained
  BY ItemNeglectHasACause, SlotNeglectHasACause
  DEF TryPushersInUse, PollersInUse, NotifiesForEach
<1>2. Shape /\ Counter /\ [Next]_vars => [Explained]_vars
  BY <1>1
<1>3. SafeSpec => [][Explained]_vars
  BY <1>2, ShapeInvariant, CounterInvariant, PTL DEF SafeSpec
<1> QED
  BY <1>3 DEF OnlySilentCallsNeglect

\* While disciplined clients use V1 or V2, each item has its own agent when a
\* consumer sleeps, each free slot when a producer does: neither V1's shared
\* condition variable nor V2's single notifications ever lose a wake-up.
THEOREM EverySlotHasAnAgent == SafeSpec => []EachSlotHasAnAgent
<1>1. ASSUME Init
      PROVE  EachSlotHasAnAgent
  BY <1>1 DEF Init, EachSlotHasAnAgent, UnattendedItems, UnattendedSlots
<1>2. ASSUME Shape, Counter, EachSlotHasAnAgent, [Next]_vars
      PROVE  EachSlotHasAnAgent'
  <2> SUFFICES ASSUME disciplined, version # "V3", UnattendedItems = 0, UnattendedSlots = 0
               PROVE  UnattendedItems' = 0 /\ UnattendedSlots' = 0
    BY <1>2, Fixed DEF EachSlotHasAnAgent
  <2>1. ~(UnattendedItems' > 0) /\ ~(UnattendedSlots' > 0)
    BY <1>2, ItemNeglectHasACause, SlotNeglectHasACause
    DEF WaitPopThrows, EmplaceThrows, TryPushersInUse, PollersInUse, NotifiesForEach
  <2>2. Shape'
    BY <1>2, ShapeStep
  <2> QED
    BY <2>1, <2>2, NeglectCountsNext DEF NeglectIsNat
<1> QED
  BY <1>1, <1>2, ShapeInvariant, CounterInvariant, PTL DEF SafeSpec

-----------------------------------------------------------------------------
(* The refinement of ClosableFifo: every step is one of its steps or       *)
(* changes nothing there.                                                  *)

\* An index that has been counted up is reduced to the ring.
Wrapped(x) == x % Capacity

\* tail_ is where size_ elements from head_ on end.
TailAt == tail = Wrapped(head + size)

LEMMA Remainder ==
  ASSUME NEW n \in Nat \ {0}, NEW x \in Nat, NEW q \in Nat, NEW r \in 0..(n - 1),
         x = q * n + r
  PROVE  x % n = r
OBVIOUS

\* Indices are never two laps away.
LEMMA Wraps ==
  ASSUME NEW x \in Nat, x < Capacity + Capacity
  PROVE  /\ Wrapped(x) = IF x < Capacity THEN x ELSE x - Capacity
         /\ Wrapped(x) \in 0..(Capacity - 1)
<1>1. Capacity \in Nat \ {0}
  BY RingCapacityAssumption
<1>2. CASE x < Capacity
  <2>1. x \in 0..(Capacity - 1) /\ x = 0 * Capacity + x
    BY <1>1, <1>2
  <2> QED
    BY <1>1, <1>2, <2>1, Remainder DEF Wrapped
<1>3. CASE ~(x < Capacity)
  <2>1. x - Capacity \in 0..(Capacity - 1) /\ x = 1 * Capacity + (x - Capacity)
    BY <1>1, <1>3
  <2> QED
    BY <1>1, <1>3, <2>1, Remainder DEF Wrapped
<1> QED
  BY <1>2, <1>3

\* One step ahead, and one further element, is the same slot.
LEMMA NextSlot ==
  ASSUME NEW h \in 0..(Capacity - 1), NEW i \in 1..Capacity
  PROVE  Wrapped(Wrapped(h + 1) + i - 1) = Wrapped(h + i)
<1> DEFINE n == Wrapped(h + 1)
<1>1. Capacity \in Nat \ {0}
  BY RingCapacityAssumption
<1>2. h + 1 \in Nat /\ h + 1 < Capacity + Capacity
  BY <1>1
<1>3. /\ n = IF h + 1 < Capacity THEN h + 1 ELSE h + 1 - Capacity
      /\ n \in 0..(Capacity - 1)
  BY <1>1, <1>2, Wraps
<1> HIDE DEF n
<1>4. n + i - 1 \in Nat /\ n + i - 1 < Capacity + Capacity
  BY <1>1, <1>3
<1>5. Wrapped(n + i - 1) = IF n + i - 1 < Capacity THEN n + i - 1 ELSE n + i - 1 - Capacity
  BY <1>1, <1>3, <1>4, Wraps
<1>6. h + i \in Nat /\ h + i < Capacity + Capacity
  BY <1>1
<1>7. Wrapped(h + i) = IF h + i < Capacity THEN h + i ELSE h + i - Capacity
  BY <1>1, <1>6, Wraps
<1>8. Wrapped(n + i - 1) = Wrapped(h + i)
  BY <1>1, <1>3, <1>5, <1>7
<1> QED
  BY <1>8 DEF n

\* The slot of the i-th element.
Slot(i) == Wrapped(head + i - 1)

LEMMA Slots ==
  ASSUME Shape, NEW i \in 1..(Capacity + 1)
  PROVE  /\ Slot(i) = IF head + i - 1 < Capacity THEN head + i - 1 ELSE head + i - 1 - Capacity
         /\ Slot(i) \in 0..(Capacity - 1)
<1>1. Capacity \in Nat \ {0} /\ head \in 0..(Capacity - 1)
  BY RingCapacityAssumption DEF Shape
<1>2. head + i - 1 \in Nat /\ head + i - 1 < Capacity + Capacity
  BY <1>1
<1> QED
  BY <1>1, <1>2, Wraps DEF Slot

ContentShape ==
  /\ Content \in Seq(Values \cup {Blank}) /\ Len(Content) = size /\ size \in Nat
  /\ \A i \in 1..size : Content[i] = buffer[Slot(i)]
  /\ Content = <<>> <=> size = 0

LEMMA ContentIsSeq ==
  ASSUME Shape
  PROVE  ContentShape
<1>1. size \in Nat /\ size <= Capacity /\ Capacity \in Nat \ {0}
  BY RingCapacityAssumption DEF Shape
<1>2. \A i \in 1..size : buffer[Slot(i)] \in Values \cup {Blank}
  <2> SUFFICES ASSUME NEW i \in 1..size PROVE buffer[Slot(i)] \in Values \cup {Blank}
    OBVIOUS
  <2>1. Slot(i) \in 0..(Capacity - 1)
    BY <1>1, Slots
  <2> QED
    BY <2>1 DEF Shape
<1>3. Content = [i \in 1..size |-> buffer[Slot(i)]]
  BY DEF Content, Slot, Wrapped
<1>4. Content \in [1..size -> Values \cup {Blank}]
  BY <1>2, <1>3
<1>5. Content \in Seq(Values \cup {Blank})
  BY <1>1, <1>4, SeqDef
<1>6. Len(Content) = size
  BY <1>1, <1>4, <1>5, LenProperties
<1> QED
  BY <1>1, <1>3, <1>5, <1>6, EmptySeq DEF ContentShape

\* The same of the next state.
LEMMA ContentIsSeqNext == Shape' => ContentShape'
<1>1. Shape => ContentShape
  BY ContentIsSeq
<1> QED
  BY <1>1, PTL

\* Storing appends.
LEMMA StoreAppends ==
  ASSUME Shape, Shape', TailAt, NEW v \in Values, StoreTail(v)
  PROVE  TailAt' /\ Len(Content) < Capacity /\ Content' = Append(Content, v)
<1>1. /\ size < Capacity /\ size' = size + 1 /\ head' = head
      /\ buffer' = [buffer EXCEPT ![tail] = v] /\ tail' = Wrapped(tail + 1)
  BY DEF StoreTail, RingNext, Wrapped
<1>2. /\ Capacity \in Nat \ {0} /\ size \in Nat /\ head \in 0..(Capacity - 1)
      /\ tail \in 0..(Capacity - 1)
  BY RingCapacityAssumption DEF Shape
<1>3. tail = IF head + size < Capacity THEN head + size ELSE head + size - Capacity
  <2>1. head + size \in Nat /\ head + size < Capacity + Capacity
    BY <1>1, <1>2
  <2> QED
    BY <1>2, <2>1, Wraps DEF TailAt
<1>4. TailAt'
  <2>1. tail' = IF tail + 1 < Capacity THEN tail + 1 ELSE tail + 1 - Capacity
    <3>1. tail + 1 \in Nat /\ tail + 1 < Capacity + Capacity
      BY <1>2
    <3> QED
      BY <1>1, <1>2, <3>1, Wraps
  <2>2. Wrapped(head + (size + 1))
          = IF head + (size + 1) < Capacity THEN head + (size + 1) ELSE head + (size + 1) - Capacity
    <3>1. head + (size + 1) \in Nat /\ head + (size + 1) < Capacity + Capacity
      BY <1>1, <1>2
    <3> QED
      BY <1>2, <3>1, Wraps
  <2>3. tail' = Wrapped(head + (size + 1))
    BY <1>1, <1>2, <1>3, <2>1, <2>2
  <2>4. Wrapped(head + size)' = Wrapped(head + (size + 1))
    BY <1>1 DEF Wrapped
  <2> QED
    BY <2>3, <2>4 DEF TailAt
<1>5. \A i \in 1..(size + 1) : Slot(i)' = Slot(i)
  BY <1>1 DEF Slot, Wrapped
<1>6. ASSUME NEW i \in 1..size
      PROVE  buffer'[Slot(i)] = buffer[Slot(i)]
  <2>1. i \in 1..(Capacity + 1)
    BY <1>1, <1>2
  <2>2. Slot(i) \in 0..(Capacity - 1) /\ Slot(i) # tail
    BY <1>1, <1>2, <1>3, <2>1, Slots
  <2> QED
    BY <1>1, <2>2 DEF Shape
<1>7. buffer'[Slot(size + 1)] = v
  <2>1. size + 1 \in 1..(Capacity + 1)
    BY <1>1, <1>2
  <2>2. Slot(size + 1) = tail
    BY <1>1, <1>2, <1>3, <2>1, Slots
  <2> QED
    BY <1>1, <1>2, <2>2 DEF Shape
<1>8. /\ Content' \in Seq(Values \cup {Blank}) /\ Len(Content') = size + 1
      /\ \A i \in 1..(size + 1) : Content'[i] = buffer'[Slot(i)]
  BY <1>1, <1>5, ContentIsSeqNext DEF ContentShape
<1>9. /\ Append(Content, v) \in Seq(Values \cup {Blank}) /\ Len(Append(Content, v)) = size + 1
      /\ \A i \in 1..size : Append(Content, v)[i] = buffer[Slot(i)]
      /\ Append(Content, v)[size + 1] = v
  <2>1. /\ Content \in Seq(Values \cup {Blank}) /\ v \in Values \cup {Blank}
        /\ Len(Content) = size
        /\ \A i \in 1..size : Content[i] = buffer[Slot(i)]
    BY ContentIsSeq DEF ContentShape
  <2> HIDE DEF Content
  <2>2. /\ Append(Content, v) \in Seq(Values \cup {Blank}) /\ Len(Append(Content, v)) = size + 1
        /\ \A i \in 1..size : Append(Content, v)[i] = Content[i]
        /\ Append(Content, v)[size + 1] = v
    BY <2>1
  <2> QED
    BY <2>1, <2>2
<1>10. \A i \in 1..(size + 1) : Content'[i] = Append(Content, v)[i]
  <2>1. \A i \in 1..(size + 1) : i \in 1..size \/ i = size + 1
    BY <1>2
  <2> QED
    BY <1>6, <1>7, <1>8, <1>9, <2>1
<1>11. Content' = Append(Content, v)
  BY <1>8, <1>9, <1>10, SeqEqual
<1> QED
  BY <1>1, <1>2, <1>4, <1>11, ContentIsSeq DEF ContentShape

\* Removing takes the head off.
LEMMA RemoveTakes ==
  ASSUME Shape, Shape', TailAt, RemoveHead
  PROVE  TailAt' /\ Content # <<>> /\ Content' = Tail(Content)
<1>1. /\ size > 0 /\ size' = size - 1 /\ head' = Wrapped(head + 1) /\ tail' = tail
      /\ buffer' = [buffer EXCEPT ![head] = Blank]
  BY DEF RemoveHead, RingNext, Wrapped
<1>2. /\ Capacity \in Nat \ {0} /\ size \in Nat /\ size <= Capacity
      /\ head \in 0..(Capacity - 1) /\ head' \in 0..(Capacity - 1)
  BY RingCapacityAssumption DEF Shape
<1>3. TailAt'
  <2>1. size \in 1..Capacity /\ head' + (size - 1) = head' + size - 1
    BY <1>1, <1>2
  <2>2. Wrapped(head' + size - 1) = Wrapped(head + size)
    BY <1>1, <1>2, <2>1, NextSlot
  <2>3. Wrapped(head' + (size - 1)) = tail
    BY <2>1, <2>2 DEF TailAt
  <2>4. Wrapped(head + size)' = Wrapped(head' + (size - 1))
    BY <1>1 DEF Wrapped
  <2> QED
    BY <1>1, <2>3, <2>4 DEF TailAt
<1>4. ASSUME NEW i \in 1..(size - 1)
      PROVE  Slot(i)' = Slot(i + 1) /\ buffer'[Slot(i + 1)] = buffer[Slot(i + 1)]
  <2>1. i \in 1..Capacity /\ i + 1 \in 1..(Capacity + 1) /\ i + 1 \in 2..Capacity
    BY <1>2
  <2>2. Wrapped(head' + i - 1) = Wrapped(head + i)
    BY <1>1, <1>2, <2>1, NextSlot
  <2>3. Slot(i)' = Wrapped(head' + i - 1)
    BY DEF Slot, Wrapped
  <2>4. head + i = head + (i + 1) - 1
    BY <1>2, <2>1
  <2>5. Slot(i)' = Slot(i + 1)
    BY <2>2, <2>3, <2>4 DEF Slot
  <2>6. Slot(i + 1) \in 0..(Capacity - 1) /\ Slot(i + 1) # head
    BY <1>2, <2>1, Slots
  <2> QED
    BY <1>1, <2>5, <2>6 DEF Shape
<1>5. /\ Content' \in Seq(Values \cup {Blank}) /\ Len(Content') = size - 1
      /\ \A i \in 1..(size - 1) : Content'[i] = buffer[Slot(i + 1)]
  BY <1>1, <1>4, ContentIsSeqNext DEF ContentShape
<1>6. /\ Content \in Seq(Values \cup {Blank}) /\ Content # <<>> /\ Len(Content) = size
      /\ \A i \in 1..size : Content[i] = buffer[Slot(i)]
  BY <1>1, ContentIsSeq DEF ContentShape
<1>7. /\ Tail(Content) \in Seq(Values \cup {Blank}) /\ Len(Tail(Content)) = size - 1
      /\ \A i \in 1..(size - 1) : Tail(Content)[i] = Content[i + 1]
  BY <1>6, HeadTailProperties
<1>8. \A i \in 1..(size - 1) : Content'[i] = Tail(Content)[i]
  <2>1. \A i \in 1..(size - 1) : i + 1 \in 1..size
    BY <1>2
  <2> QED
    BY <1>5, <1>6, <1>7, <2>1
<1> QED
  BY <1>3, <1>5, <1>6, <1>7, <1>8, SeqEqual

\* A step that leaves the ring alone leaves its content alone.
LEMMA SameContent ==
  ASSUME UNCHANGED ring
  PROVE  Content' = Content /\ (TailAt => TailAt')
BY DEF Content, TailAt, Wrapped

LEMMA TailAtInvariant == SafeSpec => []TailAt
<1>1. ASSUME Init
      PROVE  TailAt
  <2>1. Wrapped(0) = 0
    BY RingCapacityAssumption, Wraps
  <2> QED
    BY <1>1, <2>1 DEF Init, TailAt
<1>2. ASSUME Shape, TailAt, [Next]_vars
      PROVE  TailAt'
  <2>0. Shape'
    BY <1>2, ShapeStep
  <2>1. ASSUME NEW p \in Producers \cup TryPushers, NEW v \in Values,
               EmplaceStore(p, v) \/ TryEmplace(p, v)
        PROVE  TailAt'
    <3>1. StoreTail(v)
      BY <2>1 DEF EmplaceStore, TryEmplace
    <3> QED
      BY <1>2, <2>0, <3>1, StoreAppends
  <2>2. ASSUME NEW c \in Consumers \cup Pollers, WaitPopTake(c) \/ TryPop(c)
        PROVE  TailAt'
    <3>1. RemoveHead
      BY <2>2 DEF WaitPopTake, TryPop
    <3> QED
      BY <1>2, <2>0, <3>1, RemoveTakes
  <2>3. \/ \E p \in Producers \cup TryPushers, v \in Values : EmplaceStore(p, v) \/ TryEmplace(p, v)
        \/ \E c \in Consumers \cup Pollers : WaitPopTake(c) \/ TryPop(c)
        \/ UNCHANGED ring
    <3>1. CASE Next
      BY <3>1, NextCases DEF EmplaceWait, EmplaceClosed, EmplaceThrows, WakeConsumer,
         WaitPopWait, WaitPopClosed, WaitPopThrows, WakeProducer, Close,
         CloseWakesConsumers, CloseWakesProducers, SpuriousWakeup
    <3>2. CASE UNCHANGED vars
      BY <3>2 DEF vars
    <3> QED
      BY <1>2, <3>1, <3>2
  <2> QED
    BY <1>2, <2>1, <2>2, <2>3, SameContent
<1> QED
  BY <1>1, <1>2, ShapeInvariant, PTL DEF SafeSpec

\* emplace stores, blocks, is rejected, or throws.
LEMMA EmplacePushes ==
  ASSUME Shape, Shape', TailAt, NEW p \in Producers, NEW v \in Values, EmplaceStore(p, v)
  PROVE  Fifo!Next
<1>1. Content' = Append(Content, v) /\ Len(Content) < Capacity
  BY StoreAppends DEF EmplaceStore
<1>2. WaitingProducers' = WaitingProducers \ {p} /\ WaitingConsumers' = WaitingConsumers
  BY AfterEmplaceStore
<1>3. Fifo!Push(p, v)
  BY <1>1, <1>2 DEF EmplaceStore, Fifo!Push
<1> QED
  BY <1>3 DEF Fifo!Next

LEMMA EmplaceBlocks ==
  ASSUME Shape, NEW p \in Producers, NEW v \in Values, EmplaceWait(p, v)
  PROVE  Fifo!Next
<1>1. Content' = Content /\ Len(Content) = Capacity
  BY SameContent, ContentIsSeq DEF EmplaceWait, ContentShape
<1>2. WaitingProducers' = WaitingProducers \cup {p} /\ WaitingConsumers' = WaitingConsumers
  BY AfterEmplaceWait
<1>3. Fifo!Block(p)
  BY <1>1, <1>2 DEF EmplaceWait, Fifo!Block
<1> QED
  BY <1>3 DEF Fifo!Next

LEMMA EmplaceFails ==
  ASSUME Shape, NEW p \in Producers, EmplaceClosed(p) \/ EmplaceThrows(p)
  PROVE  Fifo!Next
<1>1. Content' = Content
  BY SameContent DEF EmplaceClosed, EmplaceThrows
<1>2. /\ WaitingProducers' = WaitingProducers \ {p} /\ WaitingConsumers' = WaitingConsumers
      /\ p \notin WaitingConsumers /\ p \in WaitingProducers
  <2>1. pc[p] = "wait"
    BY DEF EmplaceClosed, EmplaceThrows
  <2> QED
    BY <2>1, AfterEmplaceFails, ProducerWithMutex
<1>3. CASE EmplaceClosed(p)
  <2>1. Fifo!Reject(p)
    BY <1>1, <1>2, <1>3 DEF EmplaceClosed, Fifo!Reject
  <2> QED
    BY <2>1 DEF Fifo!Next
<1>4. CASE EmplaceThrows(p)
  <2>1. WaitingConsumers' = WaitingConsumers \ {p}
    BY <1>2
  <2>2. Fifo!Throw(p)
    BY <1>1, <1>2, <1>4, <2>1 DEF EmplaceThrows, Fifo!Throw
  <2> QED
    BY <1>2, <2>2 DEF Fifo!Next
<1> QED
  BY <1>3, <1>4

\* try_emplace stores, whatever it decides about notifying.
LEMMA TryEmplacePushes ==
  ASSUME Shape, Shape', TailAt, NEW p \in TryPushers, NEW v \in Values, TryEmplace(p, v)
  PROVE  Fifo!Next
<1>1. Content' = Append(Content, v) /\ Len(Content) < Capacity
  BY StoreAppends DEF TryEmplace
<1>2. /\ WaitingProducers' = WaitingProducers /\ WaitingConsumers' = WaitingConsumers
      /\ p \notin WaitingProducers
  BY AfterTryEmplace DEF TryEmplace, WaitingProducers
<1>3. Fifo!Push(p, v)
  BY <1>1, <1>2 DEF TryEmplace, Fifo!Push
<1> QED
  BY <1>3 DEF Fifo!Next

\* wait_pop takes, waits, is dismissed, or throws.
LEMMA WaitPopTakes ==
  ASSUME Shape, Shape', TailAt, NEW c \in Consumers, WaitPopTake(c)
  PROVE  Fifo!Next
<1>1. Content # <<>> /\ Content' = Tail(Content)
  BY RemoveTakes DEF WaitPopTake
<1>2. WaitingConsumers' = WaitingConsumers \ {c} /\ WaitingProducers' = WaitingProducers
  BY AfterWaitPopTake
<1>3. Fifo!Take(c)
  BY <1>1, <1>2 DEF WaitPopTake, Fifo!Take
<1> QED
  BY <1>3 DEF Fifo!Next

LEMMA WaitPopWaits ==
  ASSUME Shape, NEW c \in Consumers, WaitPopWait(c)
  PROVE  Fifo!Next
<1>1. Content' = Content /\ Content = <<>>
  BY SameContent, ContentIsSeq DEF WaitPopWait, ContentShape
<1>2. WaitingConsumers' = WaitingConsumers \cup {c} /\ WaitingProducers' = WaitingProducers
  BY AfterWaitPopWait
<1>3. Fifo!Arrive(c)
  BY <1>1, <1>2 DEF WaitPopWait, Fifo!Arrive
<1> QED
  BY <1>3 DEF Fifo!Next

LEMMA WaitPopFails ==
  ASSUME Shape, NEW c \in Consumers, WaitPopClosed(c) \/ WaitPopThrows(c)
  PROVE  [Fifo!Next]_(Fifo!vars)
<1>1. Content' = Content
  BY SameContent DEF WaitPopClosed, WaitPopThrows
<1>2. WaitingConsumers' = WaitingConsumers \ {c} /\ WaitingProducers' = WaitingProducers
  BY AfterWaitPopFails
<1>3. CASE WaitPopClosed(c) /\ c \in WaitingConsumers
  <2>1. Content = <<>>
    BY <1>3, ContentIsSeq DEF WaitPopClosed, ContentShape
  <2>2. Fifo!Dismiss(c)
    BY <1>1, <1>2, <1>3, <2>1 DEF WaitPopClosed, Fifo!Dismiss
  <2> QED
    BY <2>2 DEF Fifo!Next
<1>4. CASE WaitPopClosed(c) /\ c \notin WaitingConsumers
  BY <1>1, <1>2, <1>4 DEF WaitPopClosed, Fifo!vars
<1>5. CASE WaitPopThrows(c)
  <2>1. c \in WaitingConsumers /\ c \notin WaitingProducers
    BY <1>5, ConsumerWithMutex DEF WaitPopThrows
  <2>2. WaitingProducers' = WaitingProducers \ {c}
    BY <1>2, <2>1
  <2>3. Fifo!Throw(c)
    BY <1>1, <1>2, <1>5, <2>1, <2>2 DEF WaitPopThrows, Fifo!Throw
  <2> QED
    BY <2>1, <2>3 DEF Fifo!Next
<1> QED
  BY <1>3, <1>4, <1>5

LEMMA TryPopTakes ==
  ASSUME Shape, Shape', TailAt, NEW c \in Pollers, TryPop(c)
  PROVE  Fifo!Next
<1>1. Content # <<>> /\ Content' = Tail(Content)
  BY RemoveTakes DEF TryPop
<1>2. /\ WaitingConsumers' = WaitingConsumers /\ WaitingProducers' = WaitingProducers
      /\ c \notin WaitingConsumers
  BY AfterTryPop DEF TryPop, WaitingConsumers
<1>3. Fifo!Take(c)
  BY <1>1, <1>2 DEF TryPop, Fifo!Take
<1> QED
  BY <1>3 DEF Fifo!Next

LEMMA CloseCloses ==
  ASSUME Shape, NEW t \in Threads, Close(t)
  PROVE  Fifo!Next
<1>1. Content' = Content
  BY SameContent DEF Close
<1>2. Fifo!Close
  BY <1>1, AfterClose DEF Close, Fifo!Close
<1> QED
  BY <1>2 DEF Fifo!Next

\* Notifications and wake-ups are invisible.
LEMMA WakeUpsAreInvisible ==
  ASSUME Shape,
         \/ \E t \in Threads : \/ WakeConsumer(t) \/ WakeProducer(t) \/ SpuriousWakeup(t)
                              \/ CloseWakesConsumers(t) \/ CloseWakesProducers(t)
         \/ UNCHANGED vars
  PROVE  UNCHANGED Fifo!vars
<1>1. UNCHANGED <<config, ring, closed>>
  BY DEF WakeConsumer, WakeProducer, SpuriousWakeup, CloseWakesConsumers, CloseWakesProducers, vars
<1>2. WaitingConsumers' = WaitingConsumers /\ WaitingProducers' = WaitingProducers
  BY AfterWakeConsumer, AfterWakeProducer, AfterSpuriousWakeup, AfterCloseWakesConsumers,
     AfterCloseWakesProducers, AfterStutter
<1> QED
  BY <1>1, <1>2, SameContent DEF Fifo!vars

\* Every version, with any threads in any mix of calls, throwing payloads included, is
\* a bounded FIFO that blocks both ways: values leave in the order in which they were
\* stored, each one once; a push blocks only on a full ring and fails only on a closed
\* one, a pop waits only on an empty ring and fails only on an empty closed one.
\* (The other half of ImplementsFifo, that nobody waits for ever, is liveness.)
THEOREM Refinement == SafeSpec => Fifo!SafeSpec
<1>1. ASSUME Init
      PROVE  Fifo!Init
  <2>1. Shape
    BY <1>1, InitShape
  <2>2. Content = <<>>
    BY <1>1, <2>1, ContentIsSeq DEF Init, ContentShape
  <2>3. WaitingConsumers = {} /\ WaitingProducers = {}
    BY <1>1 DEF Init, WaitingConsumers, WaitingProducers, Threads
  <2>4. (~disciplined) \in BOOLEAN
    OBVIOUS
  <2> QED
    BY <1>1, <2>2, <2>3, <2>4 DEF Init, Fifo!Init
<1>2. ASSUME Shape, TailAt, [Next]_vars
      PROVE  [Fifo!Next]_(Fifo!vars)
  <2>1. Shape'
    BY <1>2, ShapeStep
  <2>2. CASE Next
    BY <1>2, <2>1, <2>2, NextCases, EmplacePushes, EmplaceBlocks, EmplaceFails,
       TryEmplacePushes, WaitPopTakes, WaitPopWaits, WaitPopFails, TryPopTakes, CloseCloses,
       WakeUpsAreInvisible
  <2>3. CASE UNCHANGED vars
    BY <1>2, <2>3, WakeUpsAreInvisible
  <2> QED
    BY <1>2, <2>2, <2>3
<1> QED
  BY <1>1, <1>2, ShapeInvariant, TailAtInvariant, PTL DEF SafeSpec, Fifo!SafeSpec
=============================================================================
