------------------------ MODULE BoundedAtomicHarness ------------------------
(***************************************************************************)
(* test_mpmc_correctness of                                                *)
(* tests/bounded_atomic_mpmc_queue_versions_test.cpp: producers push their *)
(* items, trying again while the queue is full, and count themselves done; *)
(* consumers poll, and when they find nothing after all producers are done *)
(* they try once more before they leave.  Main joins everybody, closes the *)
(* queue and destroys it.  run_try_payload_test of                         *)
(* tests/mpmc_queue_payload_test.cpp and the polling benchmarks are the    *)
(* same program.                                                           *)
(*                                                                         *)
(* Item i of producer p is the pair <<p, i>>.  Loads return the current    *)
(* value: the test relies on the acquire load of done_producers to make    *)
(* everything the producers did visible to the consumer.                   *)
(***************************************************************************)
EXTENDS Integers, Sequences, FiniteSets

CONSTANTS Producers, Consumers, Main,
          Empty, Capacity,
          ItemsPerProducer   \* kItemsPerProducer

VARIABLES enqueue_pos, dequeue_pos, sequence, storage, closed,
          pc, pos, held, lifetime,  \* the queue
          sent,       \* items each producer has pushed
          done,       \* producers counted in done_producers
          received,   \* what each consumer has popped, in order
          phase       \* where each consumer is in its loop

Items == Producers \X (1..ItemsPerProducer)

ASSUME AtomicHarnessAssumption ==
  /\ IsFiniteSet(Producers)
  /\ IsFiniteSet(Consumers)
  /\ Consumers # {}
  /\ Producers \cap Consumers = {}
  /\ Main \notin Producers \cup Consumers
  /\ Empty \notin Items
  /\ Capacity \in Nat /\ Capacity >= 2
  /\ ItemsPerProducer \in Nat

\* All items are pushed once, so MaxPos bounds nothing here.
Q == INSTANCE BoundedAtomicMpmcQueue
       WITH Values <- Items, StaleLoads <- FALSE, MayThrow <- FALSE,
            MaxPos <- Cardinality(Producers) * ItemsPerProducer

qvars == <<enqueue_pos, dequeue_pos, sequence, storage, closed, pc, pos, held, lifetime>>
client == <<sent, done, received, phase>>
hvars == <<qvars, client>>

(***************************************************************************)
(* "poll"   about to call, or inside, the first try_pop of the loop body   *)
(* "check"  it returned false; about to load done_producers                *)
(* "last"   all producers were done; the second try_pop                    *)
(* "left"   out of the loop                                                *)
(***************************************************************************)
HInit ==
  /\ Q!Init
  /\ sent = [p \in Producers |-> 0]
  /\ done = {}
  /\ received = [c \in Consumers |-> <<>>]
  /\ phase = [c \in Consumers |-> "poll"]

-----------------------------------------------------------------------------
(* Producers.                                                              *)

Push(p) ==
  /\ sent[p] < ItemsPerProducer
  /\ Q!BeginEmplace(p, <<p, sent[p] + 1>>)
  /\ UNCHANGED client

\* try_push returns false where the queue is seen full; the loop calls it again.
Pushing(p) ==
  /\ \/ Q!LoadEnqueuePos(p)
     \/ Q!EmplaceSeesFree(p) \/ Q!EmplaceSeesFull(p) \/ Q!EmplaceSeesTaken(p)
     \/ Q!ClaimEnqueue(p) \/ Q!RetryEnqueue(p)
     \/ Q!Construct(p)
  /\ UNCHANGED client

Pushed(p) ==
  /\ Q!Publish(p)
  /\ sent' = [sent EXCEPT ![p] = @ + 1]
  /\ UNCHANGED <<done, received, phase>>

CountDone(p) ==
  /\ sent[p] = ItemsPerProducer
  /\ p \notin done
  /\ done' = done \cup {p}
  /\ UNCHANGED <<qvars, sent, received, phase>>

ProducerStep(p) == Push(p) \/ Pushing(p) \/ Pushed(p) \/ CountDone(p)

-----------------------------------------------------------------------------
(* Consumers.                                                              *)

Poll(c) ==
  /\ phase[c] \in {"poll", "last"}
  /\ Q!BeginTryPop(c)
  /\ UNCHANGED client

Polling(c) ==
  /\ \/ Q!LoadDequeuePos(c)
     \/ Q!TryPopSeesItem(c) \/ Q!TryPopSeesTaken(c)
     \/ Q!ClaimDequeue(c) \/ Q!RetryDequeue(c)
     \/ Q!MoveOut(c)
  /\ UNCHANGED client

Popped(c) ==
  /\ Q!Release(c)
  /\ received' = [received EXCEPT ![c] = Append(@, held[c])]
  /\ phase' = [phase EXCEPT ![c] = "poll"]
  /\ UNCHANGED <<sent, done>>

FoundNothing(c) ==
  /\ Q!TryPopSeesEmpty(c)
  /\ phase' = [phase EXCEPT ![c] = IF @ = "poll" THEN "check" ELSE "left"]
  /\ UNCHANGED <<sent, done, received>>

\* Mutant of CheckDone: no second try_pop.
CheckDone_LeavesAtOnce(c) ==
  /\ phase[c] = "check"
  /\ phase' = [phase EXCEPT ![c] = IF done = Producers THEN "left" ELSE "poll"]
  /\ UNCHANGED <<qvars, sent, done, received>>

CheckDone(c) ==
  /\ phase[c] = "check"
  /\ phase' = [phase EXCEPT ![c] = IF done = Producers THEN "last" ELSE "poll"]
  /\ UNCHANGED <<qvars, sent, done, received>>

ConsumerStep(c) == Poll(c) \/ Polling(c) \/ Popped(c) \/ FoundNothing(c) \/ CheckDone(c)

-----------------------------------------------------------------------------
(* Main.                                                                   *)

AllJoined == done = Producers /\ \A c \in Consumers : phase[c] = "left"

CloseAndDestroy ==
  /\ AllJoined
  /\ \/ ~closed /\ Q!Close
     \/ closed /\ Q!BeginDestructor
  /\ UNCHANGED client

\* The destructor's drain_remaining: one try_pop that finds nothing, by
\* NoneLeftBehind.
Drain ==
  /\ \/ Q!BeginTryPop(Main) \/ Q!LoadDequeuePos(Main) \/ Q!TryPopSeesEmpty(Main)
  /\ UNCHANGED client

MainStep == CloseAndDestroy \/ Drain

HNext ==
  \/ \E p \in Producers : ProducerStep(p)
  \/ \E c \in Consumers : ConsumerStep(c)
  \/ MainStep

HSafeSpec == HInit /\ [][HNext]_hvars

\* Every thread is scheduled, and compare_exchange_weak does not fail for ever
\* where it could succeed.
HSpec ==
  /\ HSafeSpec
  /\ \A p \in Producers : WF_hvars(ProducerStep(p)) /\ SF_hvars(Q!ClaimEnqueue(p) /\ UNCHANGED client)
  /\ \A c \in Consumers : WF_hvars(ConsumerStep(c)) /\ SF_hvars(Q!ClaimDequeue(c) /\ UNCHANGED client)
  /\ WF_hvars(MainStep)

-----------------------------------------------------------------------------
(* Properties.                                                             *)

\* A consumer that leaves leaves nothing behind: all items have been claimed
\* by somebody, although "queue empty" by itself would not mean that.
NoneLeftBehind ==
  \A c \in Consumers : phase[c] = "left" =>
    enqueue_pos = Cardinality(Items) /\ dequeue_pos = enqueue_pos

\* Every item popped was pushed before, none is popped twice, and each consumer
\* sees the items of one producer in the order in which they were pushed.
ReceivedOnceInOrder ==
  /\ \A c \in Consumers : \A i \in DOMAIN received[c] :
       \E p \in Producers : \E k \in 1..sent[p] : received[c][i] = <<p, k>>
  /\ \A c \in Consumers : \A i, j \in DOMAIN received[c] :
       LET a == received[c][i]
           b == received[c][j]
       IN  i < j /\ a[1] = b[1] => a[2] < b[2]
  /\ \A c, d \in Consumers : \A i \in DOMAIN received[c], j \in DOMAIN received[d] :
       received[c][i] = received[d][j] => c = d /\ i = j

\* The test ends, all items have been received
\* (tests/bounded_atomic_mpmc_queue_versions_test.cpp:94) and the queue is
\* destroyed.
AllConsumed ==
  <>(/\ lifetime = "gone"
     /\ \A item \in Items : \E c \in Consumers : \E i \in DOMAIN received[c] : received[c][i] = item)
=============================================================================
