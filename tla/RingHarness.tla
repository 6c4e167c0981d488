---------------------------- MODULE RingHarness ----------------------------
(***************************************************************************)
(* test_mpmc_correctness of tests/ring_mutex_mpmc_queue_versions_test.cpp: *)
(* producers push their items with the blocking push, main joins them and  *)
(* closes the queue, consumers loop on wait_pop until it returns false.    *)
(***************************************************************************)
EXTENDS Naturals, Sequences, FiniteSets

CONSTANTS Producers, Consumers,
          Main,              \* the thread that joins and closes
          ItemsPerProducer,  \* kItemsPerProducer
          Capacity, Blank, Versions

VARIABLES version, disciplined, buffer, head, tail, size, closed, waiting_consumers, waiting_producers,
          not_empty, not_full, pc, arg,
          sent,      \* items each producer has pushed
          received,  \* items received by all consumers together
          looping    \* consumers whose wait_pop has not returned false

Items == Producers \X (1..ItemsPerProducer)

ASSUME RingHarnessAssumption ==
  /\ IsFiniteSet(Producers) /\ Producers # {}
  /\ IsFiniteSet(Consumers) /\ Consumers # {}
  /\ Producers \cap Consumers = {}
  /\ Main \notin Producers \cup Consumers
  /\ ItemsPerProducer \in Nat
  /\ Capacity \in Nat \ {0}
  /\ Versions \subseteq {"V1", "V2", "V3"}
  /\ Blank \notin Items

Q == INSTANCE RingMutexMpmcQueue
       WITH Values <- Items, Closers <- {Main}, TryPushers <- {}, Pollers <- {},
            LoneProducer <- CHOOSE p \in Producers : TRUE,
            LoneConsumer <- CHOOSE c \in Consumers : TRUE

qvars == <<version, disciplined, buffer, head, tail, size, closed,
           waiting_consumers, waiting_producers, not_empty, not_full, pc, arg>>
client == <<sent, received, looping>>
hvars == <<qvars, client>>

HTypeOK ==
  /\ Q!TypeOK
  /\ sent \in [Producers -> 0..ItemsPerProducer]
  /\ received \subseteq Items
  /\ looping \subseteq Consumers

HInit ==
  /\ Q!Init /\ disciplined = FALSE  \* all threads take part, whatever the version
  /\ sent = [p \in Producers |-> 0]
  /\ received = {}
  /\ looping = Consumers

-----------------------------------------------------------------------------
NextItem(p) == <<p, sent[p] + 1>>

Produce(p) ==
  /\ sent[p] < ItemsPerProducer
  /\ Q!EmplaceStore(p, NextItem(p))
  /\ sent' = [sent EXCEPT ![p] = @ + 1]
  /\ UNCHANGED <<received, looping>>

ProducerBlocks(p) ==
  /\ sent[p] < ItemsPerProducer
  /\ Q!EmplaceWait(p, NextItem(p))
  /\ UNCHANGED client

Receive(c) ==
  /\ c \in looping
  /\ Q!WaitPopTake(c)
  /\ received' = received \cup {buffer[head]}
  /\ UNCHANGED <<sent, looping>>

ConsumerBlocks(c) ==
  /\ c \in looping
  /\ Q!WaitPopWait(c)
  /\ UNCHANGED client

LeaveLoop(c) ==
  /\ c \in looping
  /\ Q!WaitPopClosed(c)
  /\ looping' = looping \ {c}
  /\ UNCHANGED <<sent, received>>

CloseWhenJoined ==
  /\ \A p \in Producers : sent[p] = ItemsPerProducer /\ pc[p] = "idle"
  /\ ~closed
  /\ Q!Close(Main)
  /\ UNCHANGED client

ProducerNotifies(p) == Q!WakeConsumer(p) /\ UNCHANGED client
ConsumerNotifies(c) == Q!WakeProducer(c) /\ UNCHANGED client
CloseNotifies == (Q!CloseWakesConsumers(Main) \/ Q!CloseWakesProducers(Main)) /\ UNCHANGED client
Spurious(t) == Q!SpuriousWakeup(t) /\ UNCHANGED client

ProducerStep(p) == Produce(p) \/ ProducerBlocks(p) \/ ProducerNotifies(p)
ConsumerStep(c) == Receive(c) \/ ConsumerBlocks(c) \/ LeaveLoop(c) \/ ConsumerNotifies(c)
MainStep == CloseWhenJoined \/ CloseNotifies

\* Spurious wake-ups may happen; nobody may count on them.
HNext ==
  \/ \E p \in Producers : ProducerStep(p) \/ Spurious(p)
  \/ \E c \in Consumers : ConsumerStep(c) \/ Spurious(c)
  \/ MainStep

HSafeSpec == HInit /\ [][HNext]_hvars

\* Every thread is scheduled and gets the mutex when it asks for it.
HSpec ==
  /\ HSafeSpec
  /\ \A p \in Producers : WF_hvars(ProducerStep(p))
  /\ \A c \in Consumers : WF_hvars(ConsumerStep(c))
  /\ WF_hvars(MainStep)

-----------------------------------------------------------------------------
(* Properties.                                                             *)

\* Somebody can always go on: never do all producers that still have items
\* and all consumers sleep.
NotAllAsleep ==
  \/ looping = {}
  \/ \E c \in looping : c \notin not_empty
  \/ \E p \in Producers : p \notin not_full /\ (sent[p] < ItemsPerProducer \/ pc[p] # "idle")
  \/ pc[Main] # "idle"
  \/ ~closed /\ \A p \in Producers : sent[p] = ItemsPerProducer

\* Every item pushed is in the ring or was received, none twice, and nobody
\* leaves while items are left.
ConservedItems ==
  LET inRing == {Q!Content[i] : i \in 1..size}
  IN  /\ inRing \cap received = {}
      /\ Cardinality(inRing) = size
      /\ inRing \cup received = {item \in Items : item[2] <= sent[item[1]]}
      /\ looping # Consumers => inRing = {}

\* tests/ring_mutex_mpmc_queue_versions_test.cpp:93 asserts that all items
\* have been consumed once producers and consumers are joined; before that
\* they have to be joined.
AllConsumed == <>(received = Items /\ looping = {})
=============================================================================
