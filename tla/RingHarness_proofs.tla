------------------------- MODULE RingHarness_proofs -------------------------
(***************************************************************************)
(* Safety of the client of the ring queues, for any number of producers,   *)
(* consumers and items, any capacity and every version.                    *)
(*                                                                         *)
(* The client makes some of the calls any client may make, so what         *)
(* RingMutexMpmcQueue_proofs shows of every client holds of this one; its  *)
(* module is instantiated, and its lemmas cited, as QP.                    *)
(***************************************************************************)
EXTENDS RingHarness, FiniteSetTheorems, SequenceTheorems, TLAPS

QP == INSTANCE RingMutexMpmcQueue_proofs
        WITH Values <- Items, Closers <- {Main}, TryPushers <- {}, Pollers <- {},
             LoneProducer <- CHOOSE p \in Producers : TRUE,
             LoneConsumer <- CHOOSE c \in Consumers : TRUE

USE DEF qvars, client

\* What RingMutexMpmcQueue assumes of its constants holds of this client's.
LEMMA Instance ==
  /\ Versions \subseteq {"V1", "V2", "V3"}
  /\ Capacity \in Nat \ {0}
  /\ QP!IsFiniteSet(QP!Threads)
  /\ Producers \cap Consumers = {}
  /\ (CHOOSE p \in Producers : TRUE) \in Producers
  /\ (CHOOSE c \in Consumers : TRUE) \in Consumers
  /\ Blank \notin Items
<1>1. IsFiniteSet({Main}) /\ IsFiniteSet({})
  BY FS_Singleton, FS_EmptySet
<1>2. IsFiniteSet(QP!Threads)
  BY <1>1, RingHarnessAssumption, FS_Union DEF QP!Threads
<1>3. QP!IsFiniteSet(QP!Threads)
  BY <1>2 DEF QP!IsFiniteSet, IsFiniteSet
<1> QED
  BY <1>3, RingHarnessAssumption

\* The queue of the client and the queue of the lemmas are the same.
LEMMA SameCalls ==
  ASSUME NEW t, NEW v
  PROVE  /\ Q!EmplaceStore(t, v) => QP!EmplaceStore(t, v)
         /\ Q!EmplaceWait(t, v) => QP!EmplaceWait(t, v)
         /\ Q!WaitPopTake(t) => QP!WaitPopTake(t)
         /\ Q!WaitPopWait(t) => QP!WaitPopWait(t)
         /\ Q!WaitPopClosed(t) => QP!WaitPopClosed(t)
<1> USE DEF Q!HasMutex, QP!HasMutex, Q!Goto, QP!Goto, Q!RingNext, QP!RingNext,
            Q!Counting, QP!Counting, Q!config, QP!config, Q!ring, QP!ring, Q!waits, QP!waits
<1>1. Q!EmplaceStore(t, v) => QP!EmplaceStore(t, v)
  BY DEF Q!EmplaceStore, QP!EmplaceStore, Q!StoreTail, QP!StoreTail,
    Q!UncountProducer, QP!UncountProducer, Q!NotifiesConsumer, QP!NotifiesConsumer,
    Q!NotifiesConsumerV1, QP!NotifiesConsumerV1, Q!NotifiesConsumerV2, QP!NotifiesConsumerV2,
    Q!NotifiesConsumerV3, QP!NotifiesConsumerV3
<1>2. Q!EmplaceWait(t, v) => QP!EmplaceWait(t, v)
  BY DEF Q!EmplaceWait, QP!EmplaceWait
<1>3. Q!WaitPopTake(t) => QP!WaitPopTake(t)
  BY DEF Q!WaitPopTake, QP!WaitPopTake, Q!RemoveHead, QP!RemoveHead,
    Q!UncountConsumer, QP!UncountConsumer, Q!NotifiesProducer, QP!NotifiesProducer,
    Q!NotifiesProducerV1, QP!NotifiesProducerV1, Q!NotifiesProducerV2, QP!NotifiesProducerV2,
    Q!NotifiesProducerV3, QP!NotifiesProducerV3
<1>4. Q!WaitPopWait(t) => QP!WaitPopWait(t)
  BY DEF Q!WaitPopWait, QP!WaitPopWait
<1>5. Q!WaitPopClosed(t) => QP!WaitPopClosed(t)
  BY DEF Q!WaitPopClosed, QP!WaitPopClosed, Q!UncountConsumer, QP!UncountConsumer
<1> QED
  BY <1>1, <1>2, <1>3, <1>4, <1>5

LEMMA SameSignals ==
  ASSUME NEW t
  PROVE  /\ Q!WakeConsumer(t) => QP!WakeConsumer(t)
         /\ Q!WakeProducer(t) => QP!WakeProducer(t)
         /\ Q!Close(t) => QP!Close(t)
         /\ Q!CloseWakesConsumers(t) => QP!CloseWakesConsumers(t)
         /\ Q!CloseWakesProducers(t) => QP!CloseWakesProducers(t)
         /\ Q!SpuriousWakeup(t) => QP!SpuriousWakeup(t)
BY DEF Q!WakeConsumer, QP!WakeConsumer, Q!WakeProducer, QP!WakeProducer, Q!Close, QP!Close,
  Q!CloseWakesConsumers, QP!CloseWakesConsumers, Q!CloseWakesProducers, QP!CloseWakesProducers,
  Q!SpuriousWakeup, QP!SpuriousWakeup, Q!NotifyEitherSide, QP!NotifyEitherSide,
  Q!NotifyAll, QP!NotifyAll, Q!NotifyOne, QP!NotifyOne, Q!Goto, QP!Goto,
  Q!config, QP!config, Q!ring, QP!ring, Q!counts, QP!counts, Q!waits, QP!waits

\* The client's own variables, and who can be where: nobody pushes or polls in any
\* other way, and who has left the loop or is done makes no call.
Places ==
  /\ disciplined = FALSE
  /\ sent \in [Producers -> 0..ItemsPerProducer]
  /\ looping \subseteq Consumers
  /\ \A p \in Producers :
       /\ pc[p] \in {"idle", "wait", "wake_consumer"}
       /\ pc[p] = "wait" => sent[p] < ItemsPerProducer
  /\ \A c \in Consumers :
       /\ pc[c] \in {"idle", "wait", "wake_producer"}
       /\ pc[c] # "idle" => c \in looping
  /\ pc[Main] \in {"idle", "wake_all", "wake_all_producers"}
  /\ closed => \A p \in Producers : sent[p] = ItemsPerProducer /\ pc[p] = "idle"
  /\ looping # Consumers => closed /\ size = 0

\* A step of the client is one of these.
LEMMA HNextCases ==
  ASSUME HNext
  PROVE  \/ \E p \in Producers : Produce(p)
         \/ \E p \in Producers : ProducerBlocks(p)
         \/ \E p \in Producers : ProducerNotifies(p)
         \/ \E c \in Consumers : Receive(c)
         \/ \E c \in Consumers : ConsumerBlocks(c)
         \/ \E c \in Consumers : LeaveLoop(c)
         \/ \E c \in Consumers : ConsumerNotifies(c)
         \/ CloseWhenJoined
         \/ CloseNotifies
         \/ \E t \in Producers \cup Consumers : Spurious(t)
BY DEF HNext, ProducerStep, ConsumerStep, MainStep

\* An item is a pair of its producer and its number.
LEMMA NextItemIsItem ==
  ASSUME Places, NEW p \in Producers, sent[p] < ItemsPerProducer
  PROVE  /\ NextItem(p) \in Items
         /\ sent[p] \in Nat /\ sent[p] + 1 \in 0..ItemsPerProducer
BY RingHarnessAssumption DEF Places, Items, NextItem

\* Each step of the client is a step some client may take.
LEMMA ClientSteps ==
  ASSUME Places, [HNext]_hvars
  PROVE  [QP!Next]_(QP!vars)
<1>0. /\ QP!ProducersInUse = Producers /\ QP!ConsumersInUse = Consumers
      /\ Producers \cup Consumers \subseteq QP!Threads
  BY DEF Places, QP!ProducersInUse, QP!ConsumersInUse, QP!LonePair, QP!Threads
<1>1. ASSUME NEW p \in Producers, Produce(p) \/ ProducerBlocks(p)
      PROVE  QP!Next
  <2>1. NextItem(p) \in Items
    BY <1>1, NextItemIsItem DEF Produce, ProducerBlocks
  <2>2. QP!EmplaceStore(p, NextItem(p)) \/ QP!EmplaceWait(p, NextItem(p))
    BY <1>1, SameCalls DEF Produce, ProducerBlocks
  <2> QED
    BY <1>0, <2>1, <2>2 DEF QP!Next, QP!Emplace
<1>2. ASSUME NEW c \in Consumers, Receive(c) \/ ConsumerBlocks(c) \/ LeaveLoop(c)
      PROVE  QP!Next
  <2>1. QP!WaitPopTake(c) \/ QP!WaitPopWait(c) \/ QP!WaitPopClosed(c)
    BY <1>2, SameCalls DEF Receive, ConsumerBlocks, LeaveLoop
  <2> QED
    BY <1>0, <2>1 DEF QP!Next, QP!WaitPop
<1>3. ASSUME NEW p \in Producers, ProducerNotifies(p)
      PROVE  QP!Next
  BY <1>3, SameSignals DEF ProducerNotifies, QP!Next
<1>4. ASSUME NEW c \in Consumers, ConsumerNotifies(c)
      PROVE  QP!Next
  BY <1>0, <1>4, SameSignals DEF ConsumerNotifies, QP!Next
<1>5. ASSUME CloseWhenJoined \/ CloseNotifies
      PROVE  QP!Next
  BY <1>5, SameSignals DEF CloseWhenJoined, CloseNotifies, QP!Next
<1>6. ASSUME NEW t \in Producers \cup Consumers, Spurious(t)
      PROVE  QP!Next
  BY <1>0, <1>6, SameSignals DEF Spurious, QP!Next
<1>7. CASE UNCHANGED hvars
  BY <1>7 DEF hvars, QP!vars, QP!config, QP!ring, QP!counts, QP!waits
<1> QED
  BY <1>1, <1>2, <1>3, <1>4, <1>5, <1>6, <1>7, HNextCases

\* What a push and a pop of the client do.
LEMMA ProduceEffect ==
  ASSUME Places, QP!Shape, NEW p \in Producers, Produce(p)
  PROVE  /\ ~closed /\ NextItem(p) \in Items /\ QP!StoreTail(NextItem(p))
         /\ sent' = [sent EXCEPT ![p] = @ + 1]
         /\ \E l \in {"idle", "wake_consumer"} : pc' = [pc EXCEPT ![p] = l]
         /\ UNCHANGED <<version, disciplined, closed, received, looping>>
<1>1. QP!EmplaceStore(p, NextItem(p)) /\ NextItem(p) \in Items
  BY SameCalls, NextItemIsItem DEF Produce
<1> QED
  BY <1>1 DEF Produce, QP!EmplaceStore, QP!Goto, QP!config

LEMMA ReceiveEffect ==
  ASSUME Places, QP!Shape, NEW c \in Consumers, Receive(c)
  PROVE  /\ c \in looping /\ QP!RemoveHead /\ size > 0
         /\ received' = received \cup {buffer[head]}
         /\ \E l \in {"idle", "wake_producer"} : pc' = [pc EXCEPT ![c] = l]
         /\ UNCHANGED <<version, disciplined, closed, sent, looping>>
<1>1. QP!WaitPopTake(c)
  BY SameCalls DEF Receive
<1> QED
  BY <1>1 DEF Receive, QP!WaitPopTake, QP!RemoveHead, QP!Goto, QP!config

\* Every other step leaves the ring and the items alone.
LEMMA OtherEffect ==
  ASSUME Places, QP!Shape, [HNext]_hvars,
         ~ \E p \in Producers : Produce(p), ~ \E c \in Consumers : Receive(c)
  PROVE  /\ UNCHANGED <<version, disciplined, buffer, head, tail, size, sent, received>>
         /\ \/ \E p \in Producers : /\ sent[p] < ItemsPerProducer /\ ~closed
                                    /\ pc' = [pc EXCEPT ![p] = "wait"]
                                    /\ UNCHANGED <<looping, closed>>
            \/ \E p \in Producers : /\ pc[p] = "wake_consumer" /\ pc' = [pc EXCEPT ![p] = "idle"]
                                    /\ UNCHANGED <<looping, closed>>
            \/ \E c \in Consumers : /\ c \in looping /\ pc' = [pc EXCEPT ![c] = "wait"]
                                    /\ UNCHANGED <<looping, closed>>
            \/ \E c \in Consumers : /\ closed /\ size = 0 /\ pc' = [pc EXCEPT ![c] = "idle"]
                                    /\ looping' = looping \ {c} /\ UNCHANGED closed
            \/ \E c \in Consumers : /\ pc[c] = "wake_producer" /\ pc' = [pc EXCEPT ![c] = "idle"]
                                    /\ UNCHANGED <<looping, closed>>
            \/ /\ \A p \in Producers : sent[p] = ItemsPerProducer /\ pc[p] = "idle"
               /\ closed' = TRUE /\ pc' = [pc EXCEPT ![Main] = "wake_all"] /\ UNCHANGED looping
            \/ \E l \in {"idle", "wake_all_producers"} :
                 pc' = [pc EXCEPT ![Main] = l] /\ UNCHANGED <<looping, closed>>
            \/ UNCHANGED <<pc, looping, closed>>
<1> USE DEF Q!Goto, Q!config, Q!ring
<1>1. ASSUME NEW p \in Producers, ProducerBlocks(p)
      PROVE  /\ UNCHANGED <<version, disciplined, buffer, head, tail, size, sent, received>>
             /\ sent[p] < ItemsPerProducer /\ ~closed
             /\ pc' = [pc EXCEPT ![p] = "wait"] /\ UNCHANGED <<looping, closed>>
  BY <1>1 DEF ProducerBlocks, Q!EmplaceWait
<1>2. ASSUME NEW p \in Producers, ProducerNotifies(p)
      PROVE  /\ UNCHANGED <<version, disciplined, buffer, head, tail, size, sent, received>>
             /\ pc[p] = "wake_consumer" /\ pc' = [pc EXCEPT ![p] = "idle"]
             /\ UNCHANGED <<looping, closed>>
  BY <1>2 DEF ProducerNotifies, Q!WakeConsumer
<1>3. ASSUME NEW c \in Consumers, ConsumerBlocks(c)
      PROVE  /\ UNCHANGED <<version, disciplined, buffer, head, tail, size, sent, received>>
             /\ c \in looping /\ pc' = [pc EXCEPT ![c] = "wait"] /\ UNCHANGED <<looping, closed>>
  BY <1>3 DEF ConsumerBlocks, Q!WaitPopWait
<1>4. ASSUME NEW c \in Consumers, LeaveLoop(c)
      PROVE  /\ UNCHANGED <<version, disciplined, buffer, head, tail, size, sent, received>>
             /\ closed /\ size = 0 /\ pc' = [pc EXCEPT ![c] = "idle"]
             /\ looping' = looping \ {c} /\ UNCHANGED closed
  BY <1>4 DEF LeaveLoop, Q!WaitPopClosed
<1>5. ASSUME NEW c \in Consumers, ConsumerNotifies(c)
      PROVE  /\ UNCHANGED <<version, disciplined, buffer, head, tail, size, sent, received>>
             /\ pc[c] = "wake_producer" /\ pc' = [pc EXCEPT ![c] = "idle"]
             /\ UNCHANGED <<looping, closed>>
  BY <1>5 DEF ConsumerNotifies, Q!WakeProducer
<1>6. ASSUME CloseWhenJoined
      PROVE  /\ UNCHANGED <<version, disciplined, buffer, head, tail, size, sent, received>>
             /\ \A p \in Producers : sent[p] = ItemsPerProducer /\ pc[p] = "idle"
             /\ closed' = TRUE /\ pc' = [pc EXCEPT ![Main] = "wake_all"] /\ UNCHANGED looping
  BY <1>6 DEF CloseWhenJoined, Q!Close
<1>7. ASSUME CloseNotifies
      PROVE  /\ UNCHANGED <<version, disciplined, buffer, head, tail, size, sent, received>>
             /\ \E l \in {"idle", "wake_all_producers"} :
                  pc' = [pc EXCEPT ![Main] = l] /\ UNCHANGED <<looping, closed>>
  BY <1>7 DEF CloseNotifies, Q!CloseWakesConsumers, Q!CloseWakesProducers
<1>8. ASSUME (\E t \in Producers \cup Consumers : Spurious(t)) \/ UNCHANGED hvars
      PROVE  /\ UNCHANGED <<version, disciplined, buffer, head, tail, size, sent, received>>
             /\ UNCHANGED <<pc, looping, closed>>
  BY <1>8 DEF Spurious, Q!SpuriousWakeup, hvars
<1> QED
  BY <1>1, <1>2, <1>3, <1>4, <1>5, <1>6, <1>7, <1>8, HNextCases

-----------------------------------------------------------------------------
(* Where everybody is.                                                     *)

LEMMA PlacesStep ==
  ASSUME Places, QP!Shape, [HNext]_hvars
  PROVE  Places'
<1>0. /\ Producers \cup Consumers \cup {Main} \subseteq QP!Threads
      /\ Producers \cap Consumers = {} /\ Main \notin Producers \cup Consumers
      /\ DOMAIN pc = QP!Threads
  BY RingHarnessAssumption DEF QP!Threads, QP!Shape
<1>1. ASSUME NEW p \in Producers, Produce(p)
      PROVE  Places'
  <2>1. PICK l \in {"idle", "wake_consumer"} : pc' = [pc EXCEPT ![p] = l]
    BY <1>1, ProduceEffect
  <2>2. \A t \in QP!Threads : pc'[t] = IF t = p THEN l ELSE pc[t]
    BY <1>0, <2>1
  <2>3. sent' \in [Producers -> 0..ItemsPerProducer] /\ \A q \in Producers \ {p} : sent'[q] = sent[q]
    BY <1>1, ProduceEffect, NextItemIsItem DEF Places, Produce
  <2> QED
    BY <1>0, <1>1, <2>2, <2>3, ProduceEffect DEF Places
<1>2. ASSUME NEW c \in Consumers, Receive(c)
      PROVE  Places'
  <2>1. PICK l \in {"idle", "wake_producer"} : pc' = [pc EXCEPT ![c] = l]
    BY <1>2, ReceiveEffect
  <2>2. \A t \in QP!Threads : pc'[t] = IF t = c THEN l ELSE pc[t]
    BY <1>0, <2>1
  <2>3. size # 0
    BY <1>2, ReceiveEffect
  <2>4. looping = Consumers
    BY <2>3 DEF Places
  <2>5. c \in looping /\ UNCHANGED <<disciplined, closed, sent, looping>>
    BY <1>2, ReceiveEffect
  <2> QED
    BY <1>0, <2>2, <2>4, <2>5 DEF Places
<1>3. CASE /\ ~ \E p \in Producers : Produce(p)
           /\ ~ \E c \in Consumers : Receive(c)
  <2>0. UNCHANGED <<disciplined, size, sent>>
    BY <1>3, OtherEffect
  <2>1. ASSUME NEW p \in Producers, sent[p] < ItemsPerProducer, ~closed,
               pc' = [pc EXCEPT ![p] = "wait"], UNCHANGED <<looping, closed>>
        PROVE  Places'
    <3>1. \A t \in QP!Threads : pc'[t] = IF t = p THEN "wait" ELSE pc[t]
      BY <1>0, <2>1
    <3> QED
      BY <1>0, <2>0, <2>1, <3>1 DEF Places
  <2>2. ASSUME NEW t \in Producers \cup Consumers,
               pc' = [pc EXCEPT ![t] = "idle"], UNCHANGED <<looping, closed>>
        PROVE  Places'
    <3>1. \A u \in QP!Threads : pc'[u] = IF u = t THEN "idle" ELSE pc[u]
      BY <1>0, <2>2
    <3> QED
      BY <1>0, <2>0, <2>2, <3>1 DEF Places
  <2>3. ASSUME NEW c \in Consumers, c \in looping,
               pc' = [pc EXCEPT ![c] = "wait"], UNCHANGED <<looping, closed>>
        PROVE  Places'
    <3>1. \A u \in QP!Threads : pc'[u] = IF u = c THEN "wait" ELSE pc[u]
      BY <1>0, <2>3
    <3> QED
      BY <1>0, <2>0, <2>3, <3>1 DEF Places
  <2>4. ASSUME NEW c \in Consumers, closed, size = 0, pc' = [pc EXCEPT ![c] = "idle"],
               looping' = looping \ {c}, UNCHANGED closed
        PROVE  Places'
    <3>1. \A u \in QP!Threads : pc'[u] = IF u = c THEN "idle" ELSE pc[u]
      BY <1>0, <2>4
    <3> QED
      BY <1>0, <2>0, <2>4, <3>1 DEF Places
  <2>5. ASSUME NEW l \in {"idle", "wake_all_producers"},
               pc' = [pc EXCEPT ![Main] = l], UNCHANGED <<looping, closed>>
        PROVE  Places'
    <3>1. \A u \in QP!Threads : pc'[u] = IF u = Main THEN l ELSE pc[u]
      BY <1>0, <2>5
    <3> QED
      BY <1>0, <2>0, <2>5, <3>1 DEF Places
  <2>6. ASSUME \A p \in Producers : sent[p] = ItemsPerProducer /\ pc[p] = "idle",
               closed' = TRUE, pc' = [pc EXCEPT ![Main] = "wake_all"], UNCHANGED looping
        PROVE  Places'
    <3>1. \A u \in QP!Threads : pc'[u] = IF u = Main THEN "wake_all" ELSE pc[u]
      BY <1>0, <2>6
    <3> QED
      BY <1>0, <2>0, <2>6, <3>1 DEF Places
  <2>7. ASSUME UNCHANGED <<pc, looping, closed>>
        PROVE  Places'
    BY <2>0, <2>7 DEF Places
  <2> QED
    BY <1>3, <2>1, <2>2, <2>3, <2>4, <2>5, <2>6, <2>7, OtherEffect
<1> QED
  BY <1>1, <1>2, <1>3

LEMMA PlacesInvariant == HSafeSpec => [](Places /\ QP!Shape)
<1>1. ASSUME HInit
      PROVE  Places /\ QP!Shape
  <2>1. QP!Init
    BY <1>1 DEF HInit, Q!Init, QP!Init, Q!Threads, QP!Threads
  <2>2. QP!Shape
    BY <2>1, QP!InitShape, Instance
  <2>3. pc = [t \in QP!Threads |-> "idle"] /\ closed = FALSE
    BY <2>1 DEF QP!Init
  <2>4. sent \in [Producers -> 0..ItemsPerProducer]
    BY <1>1, RingHarnessAssumption DEF HInit
  <2> QED
    BY <1>1, <2>2, <2>3, <2>4 DEF HInit, Places, QP!Threads
<1>2. ASSUME Places, QP!Shape, [HNext]_hvars
      PROVE  Places' /\ QP!Shape'
  BY <1>2, PlacesStep, ClientSteps, QP!ShapeStep, Instance
<1> QED
  BY <1>1, <1>2, PTL DEF HSafeSpec

\* So every behaviour of the client is one of the queue with some client.
LEMMA ClientOfQueue == HSafeSpec => QP!SafeSpec
<1>1. HInit => QP!Init
  BY DEF HInit, Q!Init, QP!Init, Q!Threads, QP!Threads
<1>2. Places /\ [HNext]_hvars => [QP!Next]_(QP!vars)
  BY ClientSteps
<1>3. QP!SafeSpec <=> QP!Init /\ [][QP!Next]_(QP!vars)
  BY DEF QP!SafeSpec
<1> QED
  BY <1>1, <1>2, <1>3, PlacesInvariant, PTL DEF HSafeSpec

-----------------------------------------------------------------------------
(* The items.                                                              *)

InRing == {QP!Content[i] : i \in 1..size}
Pushed == {item \in Items : item[2] <= sent[item[1]]}

\* An item that has been pushed is in the ring, at one place, or was received.
Accounts ==
  /\ \A i, j \in 1..size : QP!Content[i] = QP!Content[j] => i = j
  /\ \A i \in 1..size : QP!Content[i] \notin received
  /\ InRing \cup received = Pushed

\* The ring as a sequence, before and after a step.
LEMMA RingIsSeq ==
  ASSUME QP!Shape
  PROVE  /\ QP!Content \in Seq(Items \cup {Blank}) /\ Len(QP!Content) = size /\ size \in Nat
         /\ size > 0 => QP!Content[1] = buffer[head]
<1>1. QP!ContentShape
  BY QP!ContentIsSeq, Instance
<1>2. QP!Slot(1) = head
  <2>1. 1 \in 1..(Capacity + 1) /\ head \in Nat /\ head < Capacity
    BY RingHarnessAssumption DEF QP!Shape
  <2> QED
    BY <2>1, QP!Slots, Instance
<1> QED
  BY <1>1, <1>2 DEF QP!ContentShape

LEMMA ProduceAccounts ==
  ASSUME Places, QP!Shape, QP!Shape', QP!TailAt, Accounts, NEW p \in Producers, Produce(p)
  PROVE  Accounts'
<1> DEFINE v == NextItem(p)
<1>1. v \in Items /\ QP!Content' = Append(QP!Content, v) /\ size' = size + 1
  <2>1. v \in Items /\ QP!StoreTail(v)
    BY ProduceEffect
  <2> QED
    BY <2>1, QP!StoreAppends, Instance DEF QP!StoreTail
<1>2. /\ \A i \in 1..size : QP!Content'[i] = QP!Content[i]
      /\ QP!Content'[size + 1] = v /\ size \in Nat
  BY <1>1, RingIsSeq
<1>3. v \notin Pushed
  BY NextItemIsItem DEF Pushed, NextItem, Produce
<1>4. Pushed' = Pushed \cup {v}
  <2>1. /\ sent \in [Producers -> 0..ItemsPerProducer]
        /\ sent' = [sent EXCEPT ![p] = sent[p] + 1]
        /\ sent[p] \in Nat /\ ItemsPerProducer \in Nat
    BY NextItemIsItem, ProduceEffect, RingHarnessAssumption DEF Places, Produce
  <2>2. ASSUME NEW q \in Producers, NEW n \in 1..ItemsPerProducer
        PROVE  n <= sent'[q] <=> n <= sent[q] \/ (q = p /\ n = sent[p] + 1)
    BY <2>1
  <2>3. ASSUME NEW item \in Items
        PROVE  item[2] <= sent'[item[1]] <=> item[2] <= sent[item[1]] \/ item = v
    BY <2>2 DEF Items, NextItem
  <2> QED
    BY <1>1, <2>3 DEF Pushed
<1>5. \A i \in 1..size : QP!Content[i] \in Pushed
  BY DEF Accounts, InRing
<1>6. InRing' = InRing \cup {v}
  <2>1. \A i \in 1..(size + 1) : i \in 1..size \/ i = size + 1
    BY <1>2
  <2>2. InRing' = {QP!Content'[i] : i \in 1..(size + 1)}
    BY <1>1 DEF InRing
  <2>3. \A i \in 1..size : i \in 1..(size + 1)
    BY <1>2
  <2>4. size + 1 \in 1..(size + 1)
    BY <1>2
  <2>5. InRing \cup {v} \subseteq InRing'
    BY <1>2, <2>2, <2>3, <2>4 DEF InRing
  <2>6. InRing' \subseteq InRing \cup {v}
    BY <1>2, <2>1, <2>2 DEF InRing
  <2> QED
    BY <2>5, <2>6
<1>7. \A i \in 1..size' : i \in 1..size \/ i = size + 1
  BY <1>1, <1>2
<1>8. received' = received /\ received \subseteq Pushed
  BY ProduceEffect DEF Accounts
<1>9. \A i, j \in 1..size' : QP!Content'[i] = QP!Content'[j] => i = j
  BY <1>2, <1>3, <1>5, <1>7 DEF Accounts
<1>10. \A i \in 1..size' : QP!Content'[i] \notin received'
  BY <1>2, <1>3, <1>7, <1>8 DEF Accounts
<1>11. InRing' \cup received' = Pushed'
  BY <1>4, <1>6, <1>8 DEF Accounts
<1> QED
  BY <1>9, <1>10, <1>11 DEF Accounts

LEMMA ReceiveAccounts ==
  ASSUME Places, QP!Shape, QP!Shape', QP!TailAt, Accounts, NEW c \in Consumers, Receive(c)
  PROVE  Accounts'
<1>1. /\ QP!Content' = Tail(QP!Content) /\ size > 0 /\ size' = size - 1
      /\ received' = received \cup {QP!Content[1]} /\ sent' = sent
  <2>1. QP!RemoveHead /\ size > 0 /\ received' = received \cup {buffer[head]} /\ sent' = sent
    BY ReceiveEffect
  <2>2. QP!Content' = Tail(QP!Content)
    BY <2>1, QP!RemoveTakes, Instance
  <2> QED
    BY <2>1, <2>2, RingIsSeq DEF QP!RemoveHead
<1>2. /\ size \in Nat
      /\ \A i \in 1..(size - 1) : QP!Content'[i] = QP!Content[i + 1] /\ i + 1 \in 1..size
  BY <1>1, RingIsSeq
<1>3. 1 \in 1..size /\ \A i \in 1..size : i = 1 \/ (i - 1 \in 1..(size - 1) /\ i = (i - 1) + 1)
  BY <1>1, <1>2
<1>4. InRing = InRing' \cup {QP!Content[1]}
  <2>1. InRing' = {QP!Content'[i] : i \in 1..(size - 1)}
    BY <1>1 DEF InRing
  <2>2. InRing' = {QP!Content[i + 1] : i \in 1..(size - 1)}
    BY <1>2, <2>1
  <2>3. InRing' \cup {QP!Content[1]} \subseteq InRing
    BY <1>2, <1>3, <2>2 DEF InRing
  <2>4. InRing \subseteq InRing' \cup {QP!Content[1]}
    BY <1>3, <2>2 DEF InRing
  <2> QED
    BY <2>3, <2>4
<1>5. \A i, j \in 1..size' : QP!Content'[i] = QP!Content'[j] => i = j
  <2>1. ASSUME NEW i \in 1..(size - 1), NEW j \in 1..(size - 1), QP!Content'[i] = QP!Content'[j]
        PROVE  i = j
    <3>1. i + 1 = j + 1
      BY <1>2, <2>1 DEF Accounts
    <3> QED
      BY <3>1
  <2> QED
    BY <1>1, <2>1
<1>6. \A i \in 1..size' : QP!Content'[i] \notin received'
  <2>1. ASSUME NEW i \in 1..(size - 1)
        PROVE  QP!Content'[i] \notin received /\ QP!Content'[i] # QP!Content[1]
    <3>1. i + 1 # 1
      BY <1>2
    <3> QED
      BY <1>2, <1>3, <3>1 DEF Accounts
  <2> QED
    BY <1>1, <2>1
<1>7. InRing' \cup received' = Pushed'
  BY <1>1, <1>4 DEF Accounts, Pushed
<1> QED
  BY <1>5, <1>6, <1>7 DEF Accounts

LEMMA AccountsInvariant == HSafeSpec => []Accounts
<1>1. ASSUME HInit
      PROVE  Accounts
  <2>1. size = 0 /\ received = {} /\ sent = [p \in Producers |-> 0]
    BY <1>1 DEF HInit, Q!Init
  <2>2. Pushed = {}
    BY <2>1, RingHarnessAssumption DEF Pushed, Items
  <2>3. 1..size = {}
    BY <2>1
  <2> QED
    BY <2>1, <2>2, <2>3 DEF Accounts, InRing
<1>2. ASSUME Places, QP!Shape, QP!Shape', QP!TailAt, Accounts, [HNext]_hvars
      PROVE  Accounts'
  <2>1. CASE \/ \E p \in Producers : Produce(p)
             \/ \E c \in Consumers : Receive(c)
    BY <1>2, <2>1, ProduceAccounts, ReceiveAccounts
  <2>2. CASE /\ ~ \E p \in Producers : Produce(p)
             /\ ~ \E c \in Consumers : Receive(c)
    <3>1. UNCHANGED <<buffer, head, tail, size, sent, received>>
      BY <1>2, <2>2, OtherEffect
    <3>2. QP!Content' = QP!Content
      BY <3>1, QP!SameContent, Instance DEF QP!ring
    <3> QED
      BY <1>2, <3>1, <3>2 DEF Accounts, InRing, Pushed
  <2> QED
    BY <2>1, <2>2
<1>3. QP!SafeSpec => []QP!TailAt
  BY QP!TailAtInvariant, Instance
<1> QED
  BY <1>1, <1>2, <1>3, PlacesInvariant, ClientOfQueue, PTL DEF HSafeSpec

\* The client's variables and the ring's keep their types.
THEOREM TypeCorrect == HSafeSpec => []HTypeOK
<1>1. QP!TypeOK => Q!TypeOK
  BY DEF QP!TypeOK, Q!TypeOK, QP!Threads, Q!Threads, QP!Locations, Q!Locations
<1>2. Places /\ Accounts /\ QP!TypeOK => HTypeOK
  BY <1>1 DEF Places, Accounts, Pushed, HTypeOK
<1>3. QP!SafeSpec => []QP!TypeOK
  BY QP!TypeCorrect, Instance
<1> QED
  BY <1>2, <1>3, PlacesInvariant, AccountsInvariant, ClientOfQueue, PTL

\* Every item that a producer has pushed is in the ring or was received, at no moment
\* two of both, whatever the version and however small the ring; and no consumer
\* leaves its loop while an item is left.  So the test's counts and sums come out.
THEOREM ItemsConserved == HSafeSpec => []ConservedItems
<1>1. ASSUME Places, QP!Shape, Accounts
      PROVE  ConservedItems
  <2>0. Q!Content = QP!Content /\ size \in Nat
    BY <1>1, RingIsSeq DEF Q!Content, QP!Content
  <2>1. Cardinality(InRing) = size
    <3> DEFINE f == [i \in 1..size |-> QP!Content[i]]
    <3>1. IsFiniteSet(1..size) /\ Cardinality(1..size) = size
      BY <2>0, FS_Interval
    <3>2. f \in Bijection(1..size, InRing)
      BY <1>1 DEF Accounts, InRing, Bijection, Injection, Surjection, IsInjective
    <3>3. ExistsBijection(1..size, InRing)
      BY <3>2 DEF ExistsBijection
    <3> QED
      BY <3>1, <3>3, FS_Bijection
  <2>2. InRing \cap received = {}
    BY <1>1 DEF Accounts, InRing
  <2>3. looping # Consumers => InRing = {}
    <3>1. looping # Consumers => 1..size = {}
      BY <1>1, <2>0 DEF Places
    <3> QED
      BY <3>1 DEF InRing
  <2> QED
    BY <1>1, <2>0, <2>1, <2>2, <2>3 DEF ConservedItems, Accounts, InRing, Pushed
<1> QED
  BY <1>1, PlacesInvariant, AccountsInvariant, PTL

-----------------------------------------------------------------------------
(* Nobody is forgotten.                                                    *)

\* Where a ring notifies for each item and each slot, this client, which makes only
\* blocking calls that do not throw, leaves none neglected.
Attended ==
  QP!NotifiesForEach => QP!UnattendedItems = 0 /\ QP!UnattendedSlots = 0

\* No step of the client is a call that a payload throws out of.
LEMMA NobodyThrows ==
  ASSUME Places, QP!Shape, [HNext]_hvars
  PROVE  /\ \A c \in Consumers : ~ QP!WaitPopThrows(c)
         /\ \A p \in Producers : ~ QP!EmplaceThrows(p)
<1>0. /\ Producers \cup Consumers \cup {Main} \subseteq QP!Threads /\ DOMAIN pc = QP!Threads
      /\ Main \notin Producers \cup Consumers /\ Producers \cap Consumers = {}
      /\ size \in Nat
  BY RingHarnessAssumption DEF QP!Threads, QP!Shape
<1>1. SUFFICES ASSUME NEW t \in Producers \cup Consumers,
                      pc[t] = "wait", pc'[t] = "idle", UNCHANGED <<size, closed>>,
                      t \in Producers => ~closed, t \in Consumers => size > 0
               PROVE  FALSE
  BY <1>0 DEF QP!WaitPopThrows, QP!EmplaceThrows, QP!Goto, QP!ring
<1>2. ~ (\E p \in Producers : Produce(p)) /\ ~ (\E c \in Consumers : Receive(c))
  <2>1. \A p \in Producers : Produce(p) => size' = size + 1
    BY ProduceEffect DEF QP!StoreTail
  <2>2. \A c \in Consumers : Receive(c) => size' = size - 1
    BY ReceiveEffect DEF QP!RemoveHead
  <2> QED
    BY <1>0, <1>1, <2>1, <2>2
<1>3. \A u \in QP!Threads : \A l : pc' = [pc EXCEPT ![u] = l] => (t = u /\ l = "idle")
  BY <1>0, <1>1
<1>4. pc' # pc /\ t # Main /\ (t \in Consumers => t \notin Producers /\ size # 0)
  BY <1>0, <1>1
<1> QED
  BY <1>0, <1>1, <1>2, <1>3, <1>4, OtherEffect

LEMMA AttendedInvariant == HSafeSpec => []Attended
<1>1. ASSUME HInit
      PROVE  Attended
  <2>1. not_empty = {} /\ not_full = {}
    BY <1>1 DEF HInit, Q!Init
  <2> QED
    BY <2>1 DEF Attended, QP!UnattendedItems, QP!UnattendedSlots
<1>2. ASSUME Places, QP!Shape, QP!Shape', QP!Counter, Attended, [HNext]_hvars
      PROVE  Attended'
  <2>1. [QP!Next]_(QP!vars)
    BY <1>2, ClientSteps
  <2>2. QP!NotifiesForEach' <=> QP!NotifiesForEach
    BY <2>1, QP!Fixed, Instance DEF QP!NotifiesForEach
  <2> SUFFICES ASSUME QP!NotifiesForEach
               PROVE  QP!UnattendedItems' = 0 /\ QP!UnattendedSlots' = 0
    BY <2>2 DEF Attended
  <2>3. ~(QP!UnattendedItems' > 0)
    BY <1>2, <2>1, QP!ItemNeglectHasACause, NobodyThrows, Instance
    DEF Attended, QP!TryPushersInUse
  <2>4. ~(QP!UnattendedSlots' > 0)
    BY <1>2, <2>1, QP!SlotNeglectHasACause, NobodyThrows, Instance
    DEF Attended, QP!PollersInUse
  <2>5. QP!UnattendedItems' \in Nat /\ QP!UnattendedSlots' \in Nat
    BY <1>2, QP!NeglectCountsNext, Instance DEF QP!NeglectIsNat
  <2> QED
    BY <2>3, <2>4, <2>5
<1>3. QP!SafeSpec => []QP!Counter
  BY QP!CounterInvariant, Instance
<1> QED
  BY <1>1, <1>2, <1>3, PlacesInvariant, ClientOfQueue, PTL DEF HSafeSpec

\* V3 notifies for the first item and for the first free slot only.  The first item is
\* enough for consumers that come back: while they are all asleep beside an item, a
\* producer is about to wake one.
ItemAnnounced ==
  size > 0 /\ looping # {} /\ looping \subseteq not_empty =>
    \E p \in Producers : pc[p] = "wake_consumer"

\* The first slot is enough for one producer: asleep, it waits beside a full ring, or a
\* consumer is about to wake it.
SlotAnnounced ==
  \A p \in Producers :
    Producers = {p} /\ p \in not_full =>
      size = Capacity \/ \E c \in Consumers : pc[c] = "wake_producer"

Announced == version = "V3" => ItemAnnounced /\ SlotAnnounced

\* Who has the mutex is not asleep.
LEMMA Awake ==
  ASSUME Places, QP!Shape, NEW t \in Producers \cup Consumers
  PROVE  /\ Q!HasMutex(t) => /\ t \notin not_empty /\ t \notin not_full
                             /\ pc[t] # "wake_consumer" /\ pc[t] # "wake_producer"
         /\ pc[t] = "wake_consumer" => t \notin not_full
         /\ t \in QP!Threads
BY RingHarnessAssumption
DEF Q!HasMutex, QP!Shape, QP!WaitingConsumers, QP!WaitingProducers, QP!Threads

\* Steps after which no more threads sleep, and those about to notify still are.
LEMMA NobodyAnnouncedLess ==
  ASSUME Announced, UNCHANGED <<version, size, looping>>,
         not_empty' \subseteq not_empty, not_full' \subseteq not_full,
         \A p \in Producers : pc[p] = "wake_consumer" => pc'[p] = "wake_consumer",
         \A c \in Consumers : pc[c] = "wake_producer" => pc'[c] = "wake_producer"
  PROVE  Announced'
BY DEF Announced, ItemAnnounced, SlotAnnounced

LEMMA ProduceAnnounces ==
  ASSUME Places, QP!Shape, QP!Counter, Announced, version = "V3",
         NEW p \in Producers, Produce(p)
  PROVE  ItemAnnounced' /\ SlotAnnounced'
<1>1. /\ Q!HasMutex(p) /\ size < Capacity /\ size' = size + 1 /\ looping' = looping
      /\ UNCHANGED <<not_empty, not_full>>
      /\ pc' = [pc EXCEPT ![p] = IF Q!NotifiesConsumer THEN "wake_consumer" ELSE "idle"]
  BY DEF Produce, Q!EmplaceStore, Q!StoreTail, Q!Goto, Q!waits
<1>2. /\ p \notin not_full /\ pc[p] # "wake_consumer"
      /\ DOMAIN pc = QP!Threads /\ p \in QP!Threads /\ size \in Nat
  BY <1>1, Awake, RingHarnessAssumption DEF QP!Shape
<1>3. SlotAnnounced'
  BY <1>1, <1>2 DEF SlotAnnounced
<1>4. ASSUME looping # {}, looping \subseteq not_empty
      PROVE  \E q \in Producers : pc'[q] = "wake_consumer"
  <2>1. CASE size = 0
    <3>1. QP!NotifiesConsumer
      BY <1>1, <1>4, <2>1, QP!SilentPush, Instance
    <3>2. Q!NotifiesConsumer
      BY <3>1
      DEF QP!NotifiesConsumer, QP!NotifiesConsumerV1, QP!NotifiesConsumerV2, QP!NotifiesConsumerV3,
        Q!NotifiesConsumer, Q!NotifiesConsumerV1, Q!NotifiesConsumerV2, Q!NotifiesConsumerV3
    <3> QED
      BY <1>1, <1>2, <3>2
  <2>2. CASE size > 0
    <3>1. PICK q \in Producers : pc[q] = "wake_consumer"
      BY <1>4, <2>2 DEF Announced, ItemAnnounced
    <3> QED
      BY <1>1, <1>2, <3>1
  <2> QED
    BY <1>2, <2>1, <2>2
<1> QED
  BY <1>1, <1>3, <1>4 DEF ItemAnnounced

LEMMA ReceiveAnnounces ==
  ASSUME Places, QP!Shape, QP!Counter, Announced, version = "V3",
         NEW c \in Consumers, Receive(c)
  PROVE  ItemAnnounced' /\ SlotAnnounced'
<1>1. /\ Q!HasMutex(c) /\ size > 0 /\ c \in looping /\ looping' = looping
      /\ UNCHANGED <<not_empty, not_full>>
      /\ pc' = [pc EXCEPT ![c] = IF Q!NotifiesProducer THEN "wake_producer" ELSE "idle"]
  BY DEF Receive, Q!WaitPopTake, Q!RemoveHead, Q!Goto, Q!waits
<1>2. /\ c \notin not_empty /\ pc[c] # "wake_producer"
      /\ DOMAIN pc = QP!Threads /\ c \in QP!Threads
  BY <1>1, Awake DEF QP!Shape
<1>3. ItemAnnounced'
  BY <1>1, <1>2 DEF ItemAnnounced
<1>4. ASSUME NEW p \in Producers, Producers = {p}, p \in not_full
      PROVE  \E d \in Consumers : pc'[d] = "wake_producer"
  <2>1. CASE size = Capacity
    <3>1. QP!NotifiesProducer
      BY <1>1, <1>4, <2>1, QP!SilentRemoval, Instance
    <3>2. Q!NotifiesProducer
      BY <3>1
      DEF QP!NotifiesProducer, QP!NotifiesProducerV1, QP!NotifiesProducerV2, QP!NotifiesProducerV3,
        Q!NotifiesProducer, Q!NotifiesProducerV1, Q!NotifiesProducerV2, Q!NotifiesProducerV3
    <3> QED
      BY <1>1, <1>2, <3>2
  <2>2. CASE size # Capacity
    <3>1. PICK d \in Consumers : pc[d] = "wake_producer"
      BY <1>4, <2>2 DEF Announced, SlotAnnounced
    <3> QED
      BY <1>1, <1>2, <3>1
  <2> QED
    BY <2>1, <2>2
<1> QED
  BY <1>1, <1>3, <1>4 DEF SlotAnnounced

LEMMA BlockingAnnounces ==
  ASSUME Places, QP!Shape, Announced, version = "V3"
  PROVE  /\ \A p \in Producers : ProducerBlocks(p) => ItemAnnounced' /\ SlotAnnounced'
         /\ \A c \in Consumers : ConsumerBlocks(c) \/ LeaveLoop(c) =>
              ItemAnnounced' /\ SlotAnnounced'
<1>0. Producers \cap Consumers = {} /\ DOMAIN pc = QP!Threads
  BY RingHarnessAssumption DEF QP!Shape
<1>1. ASSUME NEW p \in Producers, ProducerBlocks(p)
      PROVE  ItemAnnounced' /\ SlotAnnounced'
  <2>1. /\ Q!HasMutex(p) /\ size = Capacity /\ UNCHANGED <<size, looping, not_empty>>
        /\ pc' = [pc EXCEPT ![p] = "wait"]
    BY <1>1 DEF ProducerBlocks, Q!EmplaceWait, Q!Goto, Q!ring
  <2>2. \A q \in Producers : pc[q] = "wake_consumer" => pc'[q] = "wake_consumer"
    BY <1>0, <2>1, Awake
  <2> QED
    BY <2>1, <2>2 DEF Announced, ItemAnnounced, SlotAnnounced
<1>2. ASSUME NEW c \in Consumers, ConsumerBlocks(c) \/ LeaveLoop(c)
      PROVE  ItemAnnounced' /\ SlotAnnounced'
  <2>1. /\ Q!HasMutex(c) /\ size = 0 /\ UNCHANGED <<size, not_full>>
        /\ \E l \in {"wait", "idle"} : pc' = [pc EXCEPT ![c] = l]
    BY <1>2 DEF ConsumerBlocks, LeaveLoop, Q!WaitPopWait, Q!WaitPopClosed, Q!Goto, Q!ring, Q!waits
  <2>2. \A d \in Consumers : pc[d] = "wake_producer" => pc'[d] = "wake_producer"
    BY <1>0, <2>1, Awake
  <2>3. ItemAnnounced'
    BY <2>1 DEF ItemAnnounced
  <2> QED
    BY <2>1, <2>2, <2>3 DEF Announced, SlotAnnounced
<1> QED
  BY <1>1, <1>2

LEMMA NotifyingAnnounces ==
  ASSUME Places, QP!Shape, Announced, version = "V3"
  PROVE  /\ \A p \in Producers : ProducerNotifies(p) => ItemAnnounced' /\ SlotAnnounced'
         /\ \A c \in Consumers : ConsumerNotifies(c) => ItemAnnounced' /\ SlotAnnounced'
<1>0. /\ Producers \cap Consumers = {} /\ DOMAIN pc = QP!Threads
      /\ not_empty \subseteq looping
  BY RingHarnessAssumption DEF Places, QP!Shape, QP!WaitingConsumers
<1>1. ASSUME NEW p \in Producers, ProducerNotifies(p)
      PROVE  ItemAnnounced' /\ SlotAnnounced'
  <2>1. /\ not_empty' \in Q!NotifyOne(not_empty) /\ UNCHANGED <<size, looping, not_full>>
        /\ pc[p] = "wake_consumer" /\ pc' = [pc EXCEPT ![p] = "idle"]
    BY <1>1 DEF ProducerNotifies, Q!WakeConsumer, Q!Goto, Q!ring
  <2>2. looping # {} => ~(looping \subseteq not_empty')
    BY <1>0, <2>1 DEF Q!NotifyOne
  <2>3. \A d \in Consumers : pc'[d] = pc[d]
    BY <1>0, <2>1
  <2> QED
    BY <2>1, <2>2, <2>3 DEF Announced, ItemAnnounced, SlotAnnounced
<1>2. ASSUME NEW c \in Consumers, ConsumerNotifies(c)
      PROVE  ItemAnnounced' /\ SlotAnnounced'
  <2>1. /\ not_full' \in Q!NotifyOne(not_full) /\ UNCHANGED <<size, looping, not_empty>>
        /\ pc' = [pc EXCEPT ![c] = "idle"]
    BY <1>2 DEF ConsumerNotifies, Q!WakeProducer, Q!Goto, Q!ring
  <2>2. \A q \in Producers : pc'[q] = pc[q]
    BY <1>0, <2>1
  <2>3. ASSUME NEW p \in Producers, Producers = {p}
        PROVE  p \notin not_full'
    <3>1. not_full \subseteq {p}
      BY <2>3 DEF QP!Shape, QP!WaitingProducers
    <3> QED
      BY <2>1, <3>1 DEF Q!NotifyOne
  <2>4. SlotAnnounced'
    BY <2>3 DEF SlotAnnounced
  <2> QED
    BY <2>1, <2>2, <2>4 DEF Announced, ItemAnnounced
<1> QED
  BY <1>1, <1>2

LEMMA AnnouncedStep ==
  ASSUME Places, QP!Shape, QP!Counter, Announced, [HNext]_hvars
  PROVE  Announced'
<1>0. version' = version
  BY ClientSteps, QP!Fixed, Instance
<1> SUFFICES ASSUME version = "V3"
             PROVE  Announced'
  BY <1>0 DEF Announced
<1>1. CASE CloseWhenJoined \/ CloseNotifies
  <2>1. /\ UNCHANGED <<size, looping>>
        /\ not_empty' \subseteq not_empty /\ not_full' \subseteq not_full
        /\ \E l \in {"wake_all", "wake_all_producers", "idle"} : pc' = [pc EXCEPT ![Main] = l]
    BY <1>1 DEF CloseWhenJoined, CloseNotifies, Q!Close, Q!CloseWakesConsumers,
      Q!CloseWakesProducers, Q!NotifyAll, Q!Goto, Q!ring, Q!waits
  <2>2. \A t \in Producers \cup Consumers : pc'[t] = pc[t]
    BY <2>1, Awake, RingHarnessAssumption DEF QP!Shape
  <2> QED
    BY <1>0, <2>1, <2>2, NobodyAnnouncedLess
<1>2. CASE (\E t \in Producers \cup Consumers : Spurious(t)) \/ UNCHANGED hvars
  <2>1. /\ UNCHANGED <<size, looping, pc>>
        /\ not_empty' \subseteq not_empty /\ not_full' \subseteq not_full
    BY <1>2 DEF Spurious, Q!SpuriousWakeup, Q!ring, hvars
  <2> QED
    BY <1>0, <2>1, NobodyAnnouncedLess
<1>3. ASSUME ItemAnnounced', SlotAnnounced'
      PROVE  Announced'
  BY <1>3 DEF Announced
<1> QED
  BY <1>1, <1>2, <1>3, HNextCases, ProduceAnnounces, ReceiveAnnounces, BlockingAnnounces,
     NotifyingAnnounces

LEMMA AnnouncedInvariant == HSafeSpec => []Announced
<1>1. HInit => Announced
  BY DEF HInit, Q!Init, Announced, ItemAnnounced, SlotAnnounced
<1>2. Places /\ QP!Shape /\ QP!Counter /\ Announced /\ [HNext]_hvars => Announced'
  BY AnnouncedStep
<1>3. QP!SafeSpec => []QP!Counter
  BY QP!CounterInvariant, Instance
<1> QED
  BY <1>1, <1>2, <1>3, PlacesInvariant, ClientOfQueue, PTL DEF HSafeSpec

\* However producers and consumers block and wake each other, never do they all sleep
\* while one of them could go on: in V1 and V2, which notify for each item and each
\* slot; in V3 on a ring of one slot, where this comes to the same; and in V3 with one
\* producer.  (Two producers and two slots are enough for V3 to stop: see the run
\* ring_harness_v3_deadlock.)
THEOREM SomebodyAwake ==
  HSafeSpec =>
    [](version # "V3" \/ Capacity = 1 \/ (\E p \in Producers : Producers = {p}) => NotAllAsleep)
<1>1. ASSUME Places, QP!Shape, Attended, Announced, QP!CloseWakesSleepers,
             version # "V3" \/ Capacity = 1 \/ (\E p \in Producers : Producers = {p}),
             ~NotAllAsleep
      PROVE  FALSE
  <2>1. /\ looping # {} /\ looping \subseteq not_empty
        /\ \A p \in Producers : p \in not_full \/ (sent[p] >= ItemsPerProducer /\ pc[p] = "idle")
        /\ pc[Main] = "idle"
    BY <1>1, RingHarnessAssumption DEF NotAllAsleep, Places
  <2>2. /\ not_empty \subseteq QP!WaitingConsumers /\ not_full \subseteq QP!WaitingProducers
        /\ size \in Nat /\ Capacity \in Nat \ {0} /\ size <= Capacity
    BY <1>1, RingHarnessAssumption DEF QP!Shape
  <2>3. ~closed
    <3>1. QP!At("wake_all") = {}
      BY <1>1, <2>1 DEF Places, QP!At, QP!Threads
    <3>2. not_empty # {}
      BY <2>1
    <3> QED
      BY <1>1, <3>1, <3>2 DEF QP!CloseWakesSleepers
  <2>4. PICK p \in Producers : p \in not_full
    <3>1. \E p \in Producers : sent[p] # ItemsPerProducer
      BY <1>1, <2>1, <2>3 DEF NotAllAsleep
    <3> QED
      BY <1>1, <2>1, <3>1, RingHarnessAssumption DEF Places
  <2>5. /\ \A q \in Producers : pc[q] # "wake_consumer" /\ (pc[q] = "wait" => q \in not_full)
        /\ \A c \in Consumers : pc[c] # "wake_producer" /\ (pc[c] = "wait" => c \in not_empty)
    BY <1>1, <2>1, <2>2 DEF Places, QP!WaitingConsumers, QP!WaitingProducers
  <2>6. CASE QP!NotifiesForEach
    <3>1. /\ QP!At("wake_consumer") = {} /\ QP!At("wake_producer") = {}
          /\ QP!WaitingConsumers \ not_empty = {} /\ QP!WaitingProducers \ not_full = {}
      BY <1>1, <2>1, <2>5, RingHarnessAssumption
      DEF Places, QP!At, QP!Threads, QP!WaitingConsumers, QP!WaitingProducers
    <3>2. QP!Cardinality({}) = 0
      BY QP!FS_EmptySet, Instance
    <3>3. not_empty # {} /\ not_full # {}
      BY <2>1, <2>4
    <3>4. \A n \in Nat : QP!Unattended(n, {}, {}) = n
      BY <3>2 DEF QP!Unattended
    <3>5. QP!UnattendedItems = size /\ QP!UnattendedSlots = Capacity - size
      <4>1. QP!UnattendedItems = QP!Unattended(size, {}, {})
        BY <3>1, <3>3 DEF QP!UnattendedItems
      <4>2. QP!UnattendedSlots = QP!Unattended(Capacity - size, {}, {})
        BY <2>3, <3>1, <3>3 DEF QP!UnattendedSlots
      <4>3. size \in Nat /\ Capacity - size \in Nat
        BY <2>2
      <4> QED
        BY <3>4, <4>1, <4>2, <4>3
    <3> QED
      BY <1>1, <2>2, <2>6, <3>5 DEF Attended
  <2>7. CASE version = "V3" /\ Producers = {p}
    <3>1. size = Capacity
      BY <1>1, <2>4, <2>5, <2>7 DEF Announced, SlotAnnounced
    <3>2. size = 0
      BY <1>1, <2>1, <2>2, <2>5, <2>7 DEF Announced, ItemAnnounced
    <3> QED
      BY <2>2, <3>1, <3>2
  <2> QED
    BY <1>1, <2>4, <2>6, <2>7 DEF QP!NotifiesForEach
<1>2. QP!SafeSpec => []QP!CloseWakesSleepers
  BY QP!CloseStrandsNobody, Instance
<1> QED
  BY <1>1, <1>2, PlacesInvariant, AttendedInvariant, AnnouncedInvariant, ClientOfQueue, PTL
=============================================================================
