------------------------- MODULE RingMutexMpmcQueue -------------------------
(***************************************************************************)
(* RingMutexMpmcQueueV1, V2, V3: a bounded ring buffer under one mutex,    *)
(* blocking in both directions.                                            *)
(*                                                                         *)
(*   "V1"  one condition variable, every operation notifies all            *)
(*   "V2"  one per direction, every blocking operation notifies one        *)
(*   "V3"  one per direction, notified only when the ring was empty (full) *)
(*         and the waiter counts say somebody waits                        *)
(*                                                                         *)
(* As in MutexDequeQueue a critical section is one step, and so is a       *)
(* notification made after the unlock; where the code notifies with the    *)
(* mutex held (try_emplace of V1 and V2) it is part of the section.  V1's  *)
(* single cv_ is the union of the two wait sets: it is only ever notified  *)
(* with notify_all.  Calls that return false at once are stuttering steps. *)
(***************************************************************************)
EXTENDS Naturals, Sequences, FiniteSets, CondVar

CONSTANTS Producers,  \* threads that call emplace
          Consumers,  \* threads that call wait_pop
          TryPushers, \* threads that call try_emplace
          Pollers,    \* threads that call try_pop
          Closers,    \* threads that call close
          Values,     \* payloads
          Blank,      \* a default-constructed or moved-from T; no value
          Capacity,   \* capacity_
          Versions,   \* classes the object may be of: see above
          LoneProducer, LoneConsumer  \* one of Producers, one of Consumers

Threads == Producers \cup TryPushers \cup Consumers \cup Pollers \cup Closers

ASSUME RingVersionAssumption == Versions \subseteq {"V1", "V2", "V3"}
ASSUME RingCapacityAssumption == Capacity \in Nat \ {0}
ASSUME RingThreadsAssumption ==
  /\ IsFiniteSet(Threads)
  /\ Producers \cap Consumers = {}
  /\ LoneProducer \in Producers /\ LoneConsumer \in Consumers
ASSUME BlankAssumption == Blank \notin Values

VARIABLES version,                               \* the class of the object
          disciplined,                           \* do clients keep to the sets InUse below?
          buffer, head, tail, size,              \* buffer_, head_, tail_, size_
          closed,                                \* closed_
          waiting_consumers, waiting_producers,  \* 0 where they are no members
          not_empty, not_full,                   \* wait sets of the two cvs
          pc, arg                                \* each thread's place and argument

config == <<version, disciplined>>
ring == <<buffer, head, tail, size>>
counts == <<waiting_consumers, waiting_producers>>
waits == <<not_empty, not_full>>
vars == <<config, ring, closed, counts, waits, pc, arg>>

(***************************************************************************)
(* "idle"          outside, or before the first critical section           *)
(* "wait"          inside wait(), asleep or woken and without the mutex    *)
(* "wake_consumer" unlocked, and about to notify for an item               *)
(* "wake_producer" unlocked, and about to notify for a free slot           *)
(* "wake_all", "wake_all_producers"   the notifications of close           *)
(***************************************************************************)
Locations == {"idle", "wait", "wake_consumer", "wake_producer",
              "wake_all", "wake_all_producers"}

TypeOK ==
  /\ version \in Versions /\ disciplined \in BOOLEAN
  /\ buffer \in [0..(Capacity - 1) -> Values \cup {Blank}]
  /\ head \in 0..(Capacity - 1) /\ tail \in 0..(Capacity - 1)
  /\ size \in 0..Capacity
  /\ closed \in BOOLEAN
  /\ waiting_consumers \in Nat /\ waiting_producers \in Nat
  /\ not_empty \subseteq Consumers /\ not_full \subseteq Producers
  /\ pc \in [Threads -> Locations]
  /\ arg \in [Threads -> Values \cup {Blank}]

Init ==
  /\ version \in Versions /\ disciplined \in BOOLEAN
  /\ buffer = [i \in 0..(Capacity - 1) |-> Blank]
  /\ head = 0 /\ tail = 0 /\ size = 0
  /\ closed = FALSE
  /\ waiting_consumers = 0 /\ waiting_producers = 0
  /\ not_empty = {} /\ not_full = {}
  /\ pc = [t \in Threads |-> "idle"]
  /\ arg = [t \in Threads |-> Blank]

RingNext(index) == (index + 1) % Capacity

Goto(t, location) == pc' = [pc EXCEPT ![t] = location]

HasMutex(t) == pc[t] = "idle" \/ (pc[t] = "wait" /\ t \notin not_empty \cup not_full)

WaitingConsumers == {c \in Consumers : pc[c] = "wait"}
WaitingProducers == {p \in Producers : pc[p] = "wait"}

\* V3 counts a waiter from before wait() until it has the mutex back.
Counting == version = "V3"

\* The two halves of storing and removing an element.
\* Mutant of StoreTail: the predicate is not tested again after a wake-up.
StoreTail_Unchecked(v) ==
  /\ buffer' = [buffer EXCEPT ![tail] = v]
  /\ tail' = RingNext(tail)
  /\ size' = size + 1
  /\ UNCHANGED head

StoreTail(v) ==
  /\ size < Capacity
  /\ buffer' = [buffer EXCEPT ![tail] = v]
  /\ tail' = RingNext(tail)
  /\ size' = size + 1
  /\ UNCHANGED head

RemoveHead ==
  /\ size > 0
  /\ buffer' = [buffer EXCEPT ![head] = Blank]
  /\ head' = RingNext(head)
  /\ size' = size - 1
  /\ UNCHANGED tail

-----------------------------------------------------------------------------
(* emplace                                                                 *)

\* Mutant of NotifiesConsumerV1: notifies for the first item only.
NotifiesConsumerV1_OnlyWhenEmpty == version = "V1" /\ size = 0

NotifiesConsumerV1 == version = "V1"
NotifiesConsumerV2 == version = "V2"
\* Mutant of NotifiesConsumerV3: emptiness is looked at after the push.
NotifiesConsumerV3_TestAfterPush == version = "V3" /\ size + 1 = 0 /\ waiting_consumers > 0

NotifiesConsumerV3 == version = "V3" /\ size = 0 /\ waiting_consumers > 0

NotifiesConsumer == NotifiesConsumerV1 \/ NotifiesConsumerV2 \/ NotifiesConsumerV3

EmplaceWait(p, v) ==
  /\ HasMutex(p)
  /\ pc[p] = "wait" => v = arg[p]
  /\ size = Capacity
  /\ ~closed
  /\ not_full' = not_full \cup {p}
  /\ waiting_producers' = IF Counting /\ pc[p] = "idle" THEN waiting_producers + 1
                                                        ELSE waiting_producers
  /\ arg' = [arg EXCEPT ![p] = v]
  /\ Goto(p, "wait")
  /\ UNCHANGED <<config, ring, closed, waiting_consumers, not_empty>>

\* Mutant of UncountProducer: the decrement is forgotten.
UncountProducer_Never(p) == UNCHANGED waiting_producers

\* --waiting_producers_, by a caller that had to wait.
UncountProducer(p) ==
  waiting_producers' = IF Counting /\ pc[p] = "wait" THEN waiting_producers - 1
                                                     ELSE waiting_producers

EmplaceStore(p, v) ==
  /\ HasMutex(p)
  /\ pc[p] = "wait" => v = arg[p]
  /\ ~closed
  /\ StoreTail(v)
  /\ UncountProducer(p)
  /\ arg' = [arg EXCEPT ![p] = Blank]
  /\ Goto(p, IF NotifiesConsumer THEN "wake_consumer" ELSE "idle")
  /\ UNCHANGED <<config, closed, waiting_consumers, waits>>

\* T(args...) or its assignment to buffer_[tail_] throws in a call that was
\* woken for a free slot.  (Otherwise a throw changes nothing.)
EmplaceThrows(p) ==
  /\ ~disciplined
  /\ pc[p] = "wait" /\ HasMutex(p)
  /\ ~closed /\ size < Capacity
  /\ UncountProducer(p)
  /\ arg' = [arg EXCEPT ![p] = Blank]
  /\ Goto(p, "idle")
  /\ UNCHANGED <<config, ring, closed, waiting_consumers, waits>>

\* A blocked emplace returns false.
EmplaceClosed(p) ==
  /\ pc[p] = "wait" /\ HasMutex(p)
  /\ closed
  /\ UncountProducer(p)
  /\ arg' = [arg EXCEPT ![p] = Blank]
  /\ Goto(p, "idle")
  /\ UNCHANGED <<config, ring, closed, waiting_consumers, waits>>

\* Mutant of NotifyEitherSide: one waiter is notified, of whichever kind.
NotifyEitherSide_One ==
  \E asleep \in NotifyOne(not_empty \cup not_full) :
    not_empty' = not_empty \cap asleep /\ not_full' = not_full \cap asleep

\* V1: cv_.notify_all() wakes producers and consumers alike.
NotifyEitherSide ==
  not_empty' = NotifyAll(not_empty) /\ not_full' = NotifyAll(not_full)

\* try_emplace: V1 and V2 notify with the mutex held, V3 after unlocking.
TryEmplaceV1(p, v) ==
  /\ version = "V1"
  /\ NotifyEitherSide
  /\ UNCHANGED pc

TryEmplaceV2(p, v) ==
  /\ version = "V2"
  /\ not_empty' \in IF size = 0 THEN NotifyOne(not_empty) ELSE {not_empty}
  /\ UNCHANGED <<not_full, pc>>

TryEmplaceV3(p, v) ==
  /\ version = "V3"
  /\ Goto(p, IF NotifiesConsumerV3 THEN "wake_consumer" ELSE "idle")
  /\ UNCHANGED waits

TryEmplace(p, v) ==
  /\ pc[p] = "idle"
  /\ ~closed
  /\ StoreTail(v)
  /\ TryEmplaceV1(p, v) \/ TryEmplaceV2(p, v) \/ TryEmplaceV3(p, v)
  /\ UNCHANGED <<config, closed, counts, arg>>

\* The notification after an emplace or try_emplace has unlocked.
WakeConsumer(p) ==
  /\ pc[p] = "wake_consumer"
  /\ IF version = "V1"
       THEN NotifyEitherSide
       ELSE not_empty' \in NotifyOne(not_empty) /\ UNCHANGED not_full
  /\ Goto(p, "idle")
  /\ UNCHANGED <<config, ring, closed, counts, arg>>

-----------------------------------------------------------------------------
(* wait_pop and try_pop                                                    *)

NotifiesProducerV1 == version = "V1"
\* Mutant of NotifiesProducerV2: V3's test for a full ring.
NotifiesProducerV2_OnlyWhenFull == version = "V2" /\ size = Capacity

NotifiesProducerV2 == version = "V2"
\* Mutant of NotifiesProducerV3: fullness is looked at after the pop.
NotifiesProducerV3_TestAfterPop == version = "V3" /\ size - 1 = Capacity /\ waiting_producers > 0

NotifiesProducerV3 == version = "V3" /\ size = Capacity /\ waiting_producers > 0

NotifiesProducer == NotifiesProducerV1 \/ NotifiesProducerV2 \/ NotifiesProducerV3

WaitPopWait(c) ==
  /\ HasMutex(c)
  /\ size = 0
  /\ ~closed
  /\ not_empty' = not_empty \cup {c}
  /\ waiting_consumers' = IF Counting /\ pc[c] = "idle" THEN waiting_consumers + 1
                                                        ELSE waiting_consumers
  /\ Goto(c, "wait")
  /\ UNCHANGED <<config, ring, closed, waiting_producers, not_full, arg>>

\* --waiting_consumers_, by a caller that had to wait.
UncountConsumer(c) ==
  waiting_consumers' = IF Counting /\ pc[c] = "wait" THEN waiting_consumers - 1
                                                     ELSE waiting_consumers

WaitPopTake(c) ==
  /\ HasMutex(c)
  /\ RemoveHead
  /\ UncountConsumer(c)
  /\ Goto(c, IF NotifiesProducer THEN "wake_producer" ELSE "idle")
  /\ UNCHANGED <<config, closed, waiting_producers, waits, arg>>

\* The assignment to out throws in a call that was woken for an item.
WaitPopThrows(c) ==
  /\ ~disciplined
  /\ pc[c] = "wait" /\ HasMutex(c)
  /\ size > 0
  /\ UncountConsumer(c)
  /\ Goto(c, "idle")
  /\ UNCHANGED <<config, ring, closed, waiting_producers, waits, arg>>

\* Mutant of WaitPopClosed: gives up on closed_ alone.
WaitPopClosed_Undrained(c) ==
  /\ HasMutex(c)
  /\ closed
  /\ UncountConsumer(c)
  /\ Goto(c, "idle")
  /\ UNCHANGED <<config, ring, closed, waiting_producers, waits, arg>>

\* wait_pop returns false.
WaitPopClosed(c) ==
  /\ HasMutex(c)
  /\ closed
  /\ size = 0
  /\ UncountConsumer(c)
  /\ Goto(c, "idle")
  /\ UNCHANGED <<config, ring, closed, waiting_producers, waits, arg>>

\* try_pop notifies nobody, in any version.
TryPop(c) ==
  /\ pc[c] = "idle"
  /\ RemoveHead
  /\ UNCHANGED <<config, closed, counts, waits, pc, arg>>

WakeProducer(c) ==
  /\ pc[c] = "wake_producer"
  /\ IF version = "V1"
       THEN NotifyEitherSide
       ELSE not_full' \in NotifyOne(not_full) /\ UNCHANGED not_empty
  /\ Goto(c, "idle")
  /\ UNCHANGED <<config, ring, closed, counts, arg>>

-----------------------------------------------------------------------------
Close(t) ==
  /\ pc[t] = "idle"
  /\ closed' = TRUE
  /\ Goto(t, "wake_all")
  /\ UNCHANGED <<config, ring, counts, waits, arg>>

\* Mutant of CloseWakesConsumers: blocked producers are forgotten.
CloseWakesConsumers_Only(t) ==
  /\ pc[t] = "wake_all"
  /\ not_empty' = NotifyAll(not_empty)
  /\ Goto(t, "idle")
  /\ UNCHANGED <<config, ring, closed, counts, not_full, arg>>

\* cv_.notify_all() in V1; not_empty_cv_.notify_all(), the first of two, else.
CloseWakesConsumers(t) ==
  /\ pc[t] = "wake_all"
  /\ not_empty' = NotifyAll(not_empty)
  /\ IF version = "V1"
       THEN not_full' = NotifyAll(not_full) /\ Goto(t, "idle")
       ELSE UNCHANGED not_full /\ Goto(t, "wake_all_producers")
  /\ UNCHANGED <<config, ring, closed, counts, arg>>

CloseWakesProducers(t) ==
  /\ pc[t] = "wake_all_producers"
  /\ not_full' = NotifyAll(not_full)
  /\ Goto(t, "idle")
  /\ UNCHANGED <<config, ring, closed, counts, not_empty, arg>>

\* wait() may return without a notification.
SpuriousWakeup(t) ==
  /\ t \in not_empty \cup not_full
  /\ not_empty' = not_empty \ {t}
  /\ not_full' = not_full \ {t}
  /\ UNCHANGED <<config, ring, closed, counts, pc, arg>>

-----------------------------------------------------------------------------
Emplace(p, v) == EmplaceWait(p, v) \/ EmplaceStore(p, v)
WaitPop(c) == WaitPopWait(c) \/ WaitPopTake(c) \/ WaitPopClosed(c)

\* Any client: every thread makes any of its calls at any time.  Disciplined
\* clients keep to the uses a version serves whoever stops calling: V1 any
\* pushes, V2 the blocking operations, V3 one producer and one consumer; and
\* no polling, since try_pop frees a slot without a word.  Nor do their payloads
\* throw: a call that ends so takes its wake-up with it.
LonePair == disciplined /\ version = "V3"
ProducersInUse == {p \in Producers : LonePair => p = LoneProducer}
ConsumersInUse == {c \in Consumers : LonePair => c = LoneConsumer}
TryPushersInUse ==
  {p \in TryPushers : disciplined => version # "V2" /\ (LonePair => p = LoneProducer)}
PollersInUse == {c \in Pollers : ~disciplined}

Next ==
  \/ \E p \in ProducersInUse : (\E v \in Values : Emplace(p, v)) \/ EmplaceClosed(p)
                               \/ EmplaceThrows(p)
  \/ \E p \in TryPushersInUse, v \in Values : TryEmplace(p, v)
  \/ \E p \in Producers \cup TryPushers : WakeConsumer(p)
  \/ \E c \in ConsumersInUse : WaitPop(c) \/ WaitPopThrows(c) \/ WakeProducer(c)
  \/ \E c \in PollersInUse : TryPop(c)
  \/ \E t \in Closers : Close(t) \/ CloseWakesConsumers(t) \/ CloseWakesProducers(t)
  \/ \E t \in Threads : SpuriousWakeup(t)

\* A call that has begun is carried on; nobody has to make a call.
CarriesOn(t) ==
  \/ WakeConsumer(t) \/ WakeProducer(t)
  \/ CloseWakesConsumers(t) \/ CloseWakesProducers(t)
  \/ /\ pc[t] = "wait"
     /\ \/ t \in Producers /\ (Emplace(t, arg[t]) \/ EmplaceClosed(t))
        \/ t \in Consumers /\ WaitPop(t)

SafeSpec == Init /\ [][Next]_vars

Spec == SafeSpec /\ \A t \in Threads : WF_vars(CarriesOn(t))

-----------------------------------------------------------------------------
(* Properties.                                                             *)

At(location) == {t \in Threads : pc[t] = location}

\* What the notifications on their way and the woken threads leave unattended
\* of the items, while a consumer sleeps, and of the free slots, while a producer
\* does (until close, which sends the producers away).
Unattended(number, notifiers, woken) ==
  LET agents == Cardinality(notifiers) + Cardinality(woken)
  IN  IF number > agents THEN number - agents ELSE 0

UnattendedItems ==
  IF not_empty = {} THEN 0
  ELSE Unattended(size, At("wake_consumer"), WaitingConsumers \ not_empty)

UnattendedSlots ==
  IF not_full = {} \/ closed THEN 0
  ELSE Unattended(Capacity - size, At("wake_producer"), WaitingProducers \ not_full)

\* Nothing is left unattended by disciplined clients of V1 and V2.  (V3 tells
\* one waiter of many items.)
EachSlotHasAnAgent ==
  disciplined /\ version # "V3" => UnattendedItems = 0 /\ UnattendedSlots = 0

\* In any use of V1 and V2 whatever, with any number of items and slots already
\* neglected, the only calls that neglect one more are a try_pop (a slot), V2's
\* try_emplace onto a non-empty ring (an item) and those a payload throws out of.
OnlySilentCallsNeglect ==
  [][version # "V3" =>
       /\ UnattendedItems' > UnattendedItems =>
            \/ version = "V2" /\ size > 0 /\ \E p \in TryPushers, v \in Values : TryEmplace(p, v)
            \/ \E c \in Consumers : WaitPopThrows(c)
       /\ UnattendedSlots' > UnattendedSlots =>
            \/ \E c \in Pollers : TryPop(c)
            \/ \E p \in Producers : EmplaceThrows(p)]_vars

\* close() strands nobody, on either side.
CloseWakesSleepers ==
  closed =>
    /\ not_empty # {} => At("wake_all") # {}
    /\ not_full # {} => At("wake_all") \cup At("wake_all_producers") # {}

\* waiting_consumers_ and waiting_producers_ count the threads inside wait(),
\* the woken ones that do not have the mutex yet included.
WaiterCountsExact ==
  Counting => /\ waiting_consumers = Cardinality(WaitingConsumers)
              /\ waiting_producers = Cardinality(WaitingProducers)

Content == [i \in 1..size |-> buffer[(head + i - 1) % Capacity]]

Fifo == INSTANCE ClosableFifo WITH
  Producers <- Producers \cup TryPushers,
  Consumers <- Consumers \cup Pollers,
  MaxLen <- Capacity,
  items <- Content,
  waiting <- WaitingConsumers,
  blocked <- WaitingProducers,
  faulty <- ~disciplined

\* The ring is a bounded FIFO that blocks both ways, and with disciplined clients
\* keeps nobody waiting who could be served.
ImplementsFifo == Fifo!SafeSpec /\ (disciplined => Fifo!Progress)
=============================================================================
