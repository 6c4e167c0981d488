------------------------- MODULE MutexDequeHarness -------------------------
(***************************************************************************)
(* The client the tests and benchmarks put around an unbounded queue:      *)
(* producers push their items, main joins them and closes the queue,       *)
(* consumers loop on wait_pop until it returns false, main joins them.     *)
(*                                                                         *)
(* Item i of producer p is the pair <<p, i>>.  In the one-producer test    *)
(* the producer closes the queue itself after its last push; Main then     *)
(* stands for the rest of the producer's thread.                           *)
(***************************************************************************)
EXTENDS Naturals, Sequences, FiniteSets

CONSTANTS Producers, Consumers,
          Main,              \* the thread that joins and closes
          ItemsPerProducer,  \* kItemsPerProducer
          Versions           \* queue classes to put under test, see MutexDequeQueue

ASSUME HarnessAssumption ==
  /\ IsFiniteSet(Producers)
  /\ IsFiniteSet(Consumers)
  /\ Consumers # {}
  /\ Producers \cap Consumers = {}
  /\ Main \notin Producers \cup Consumers
  /\ ItemsPerProducer \in Nat

VARIABLES version, disciplined, queue, closed, waiting_consumers, sleeping, pc,  \* the queue
          sent,      \* items each producer has pushed
          received,  \* what each consumer has popped, in order
          looping    \* consumers whose wait_pop has not returned false

Items == Producers \X (1..ItemsPerProducer)

\* The deque never holds more than all items, so MaxLen bounds nothing here.
Q == INSTANCE MutexDequeQueue
       WITH Closers <- {Main}, Values <- Items,
            LoneConsumer <- CHOOSE c \in Consumers : TRUE,
            MaxLen <- Cardinality(Producers) * ItemsPerProducer

qvars == <<version, disciplined, queue, closed, waiting_consumers, sleeping, pc>>
client == <<sent, received, looping>>
hvars == <<qvars, client>>

HInit ==
  /\ Q!Init /\ disciplined = FALSE  \* all consumers take part, whatever the version
  /\ sent = [p \in Producers |-> 0]
  /\ received = [c \in Consumers |-> <<>>]
  /\ looping = Consumers

-----------------------------------------------------------------------------
Produce(p) ==
  /\ sent[p] < ItemsPerProducer
  /\ Q!Emplace(p, <<p, sent[p] + 1>>)
  /\ sent' = [sent EXCEPT ![p] = @ + 1]
  /\ UNCHANGED <<received, looping>>

\* wait_pop returns true: the body of the loop runs and the loop goes on.
Receive(c) ==
  /\ c \in looping
  /\ Q!WaitPopTake(c)
  /\ received' = [received EXCEPT ![c] = Append(@, Head(queue))]
  /\ UNCHANGED <<sent, looping>>

Block(c) ==
  /\ c \in looping
  /\ Q!WaitPopSleep(c)
  /\ UNCHANGED client

LeaveLoop(c) ==
  /\ c \in looping
  /\ Q!WaitPopClosed(c)
  /\ looping' = looping \ {c}
  /\ UNCHANGED <<sent, received>>

ProducersJoined ==
  \A p \in Producers : sent[p] = ItemsPerProducer /\ pc[p] = "idle"

CloseWhenJoined ==
  /\ ProducersJoined
  /\ ~closed
  /\ Q!Close(Main)
  /\ UNCHANGED client

ProducerNotify(p) == Q!NotifyAfterEmplace(p) /\ UNCHANGED client

CloseNotify == Q!NotifyAfterClose(Main) /\ UNCHANGED client

Spurious(c) ==
  /\ Q!SpuriousWakeup(c)
  /\ UNCHANGED client

\* All threads joined: main returns, and nothing happens any more.
Finished == closed /\ pc[Main] = "idle" /\ looping = {}

HNext ==
  \/ \E p \in Producers : Produce(p) \/ ProducerNotify(p)
  \/ \E c \in Consumers : Receive(c) \/ Block(c) \/ LeaveLoop(c) \/ Spurious(c)
  \/ CloseWhenJoined \/ CloseNotify

\* Every thread is scheduled and gets the mutex when it asks for it; nobody
\* may count on a spurious wake-up.
HFairness ==
  /\ \A p \in Producers : WF_hvars(Produce(p) \/ ProducerNotify(p))
  /\ \A c \in Consumers : WF_hvars(Receive(c) \/ Block(c) \/ LeaveLoop(c))
  /\ WF_hvars(CloseWhenJoined \/ CloseNotify)

HSafeSpec == HInit /\ [][HNext]_hvars
HSpec == HSafeSpec /\ HFairness

-----------------------------------------------------------------------------
(* Properties.                                                             *)

HTypeOK ==
  /\ Q!TypeOK
  /\ sent \in [Producers -> 0..ItemsPerProducer]
  /\ received \in [Consumers -> Seq(Items)]
  /\ looping \subseteq Consumers

AwakeConsumers == looping \ sleeping

\* While the queue holds an item, not every consumer sleeps, unless a
\* notification is on its way.  (In V2 and V3 single consumers do sleep on a
\* non-empty queue; that the loop of the others picks the items up is what
\* makes "notify only when it was empty" enough.)
NotAllAsleep ==
  queue # <<>> => AwakeConsumers # {} \/ Q!Notifying # {}

\* How often an item is in the queue or in somebody's hands.
Copies(item) ==
  Cardinality({i \in DOMAIN queue : queue[i] = item})
  + Cardinality({at \in Consumers \X (1..Cardinality(Items)) :
                   at[2] \in DOMAIN received[at[1]] /\ received[at[1]][at[2]] = item})

\* No item is lost or delivered twice: total_count and total_sum of the tests
\* (tests/mpmc_mutex_queue_versions_test.cpp:97) come out right at the end
\* because this holds at every moment.
ConservedItems ==
  /\ \A p \in Producers, i \in 1..ItemsPerProducer :
       Copies(<<p, i>>) = IF i <= sent[p] THEN 1 ELSE 0
  /\ looping # Consumers => queue = <<>>

\* Every consumer sees the items of one producer in the order they were
\* pushed, and items still queued come after the ones it has seen
\* (tests/mutex_queue_versions_test.cpp:63 asserts it for one of each).
PerProducerOrder ==
  \A c \in Consumers :
    LET seen == received[c] \o queue
    IN  \A i, j \in DOMAIN seen :
          i < j /\ seen[i][1] = seen[j][1] => seen[i][2] < seen[j][2]

\* The test ends: close() reaches every consumer, however it is interleaved
\* with their going to sleep.
Termination == <>Finished
=============================================================================
