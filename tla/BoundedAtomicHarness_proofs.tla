--------------------- MODULE BoundedAtomicHarness_proofs ---------------------
(***************************************************************************)
(* Safety of the client of the atomic queues, for any number of producers, *)
(* consumers and items and any capacity >= 2.                              *)
(*                                                                         *)
(* The client makes some of the calls any client may make, with current    *)
(* loads and items that do not throw, so what BoundedAtomicMpmcQueue_proofs*)
(* shows of every client holds of this one; its module is instantiated,    *)
(* and its lemmas cited, as QP.                                            *)
(*                                                                         *)
(* A push takes effect when it claims its position and a pop likewise.     *)
(* Counting items from there (Claimed, Seen), the claimed positions are a  *)
(* queue of items as the unbounded queue is one, and what                  *)
(* MutexDequeHarness_proofs shows of such a queue is cited as D.           *)
(***************************************************************************)
EXTENDS BoundedAtomicHarness, FiniteSetTheorems, SequenceTheorems, TLAPS

QP == INSTANCE BoundedAtomicMpmcQueue_proofs
        WITH Values <- Items, StaleLoads <- FALSE, MayThrow <- FALSE,
             MaxPos <- Cardinality(Producers) * ItemsPerProducer

\* What a producer has claimed positions for, and a consumer claimed.
Claimed == [p \in Producers |-> IF QP!Producing(p) THEN sent[p] + 1 ELSE sent[p]]
Seen ==
  [c \in Consumers |-> IF QP!Consuming(c) THEN Append(received[c], QP!Got[c]) ELSE received[c]]

\* Of the unbounded queue's client only its items are used.
D == INSTANCE MutexDequeHarness_proofs
       WITH queue <- QP!Content, sent <- Claimed, received <- Seen, looping <- Consumers,
            version <- "V1", Versions <- {"V1"}, disciplined <- FALSE,
            waiting_consumers <- 0, sleeping <- {}

USE DEF qvars, client

\* What the two modules assume of their constants holds of this client's.
LEMMA Product == \A m, n \in Nat : m * n \in Nat
OBVIOUS

LEMMA Instance ==
  /\ Producers \cap QP!Poppers = {} /\ Main \notin Consumers
  /\ Empty \notin Items
  /\ Capacity \in Nat /\ Capacity >= 2
  /\ FALSE \in BOOLEAN
  /\ Cardinality(Producers) * ItemsPerProducer \in Nat
<1>1. Cardinality(Producers) \in Nat
  BY AtomicHarnessAssumption, FS_CardinalityType
<1>2. Cardinality(Producers) * ItemsPerProducer \in Nat
  BY <1>1, Product, AtomicHarnessAssumption
<1> QED
  BY <1>2, AtomicHarnessAssumption DEF QP!Poppers

LEMMA DequeInstance ==
  /\ D!IsFiniteSet(Producers) /\ D!IsFiniteSet(Consumers)
  /\ Consumers # {} /\ Producers \cap Consumers = {}
  /\ Main \notin Producers \cup Consumers
  /\ ItemsPerProducer \in Nat
  /\ D!Items = Items
BY AtomicHarnessAssumption DEF D!IsFiniteSet, IsFiniteSet, D!Items, Items

\* The queue of the client and the queue of the lemmas are the same.
LEMMA SamePushes ==
  ASSUME NEW t, NEW v
  PROVE  /\ Q!BeginEmplace(t, v) => QP!BeginEmplace(t, v)
         /\ Q!LoadEnqueuePos(t) => QP!LoadEnqueuePos(t)
         /\ Q!EmplaceSeesFree(t) => QP!EmplaceSeesFree(t)
         /\ Q!EmplaceSeesFull(t) => QP!EmplaceSeesFull(t)
         /\ Q!EmplaceSeesTaken(t) => QP!EmplaceSeesTaken(t)
         /\ Q!ClaimEnqueue(t) => QP!ClaimEnqueue(t)
         /\ Q!RetryEnqueue(t) => QP!RetryEnqueue(t)
         /\ Q!Construct(t) => QP!Construct(t)
         /\ Q!Publish(t) => QP!Publish(t)
BY DEF Q!BeginEmplace, QP!BeginEmplace, Q!MayLookOpen, QP!MayLookOpen, Q!LoadEnqueuePos, QP!LoadEnqueuePos,
  Q!EmplaceSeesFree, QP!EmplaceSeesFree, Q!EmplaceSeesFull, QP!EmplaceSeesFull,
  Q!EmplaceSeesTaken, QP!EmplaceSeesTaken, Q!ClaimEnqueue, QP!ClaimEnqueue,
  Q!RetryEnqueue, QP!RetryEnqueue, Q!Construct, QP!Construct, Q!Publish, QP!Publish,
  Q!Goto, QP!Goto, Q!Leave, QP!Leave, Q!shared, QP!shared, Q!SeesOld, QP!SeesOld,
  Q!LoadsOfPos, QP!LoadsOfPos, Q!LoadsOfSequence, QP!LoadsOfSequence, Q!Cell, QP!Cell

LEMMA SamePops ==
  ASSUME NEW t
  PROVE  /\ Q!BeginTryPop(t) => QP!BeginTryPop(t)
         /\ Q!LoadDequeuePos(t) => QP!LoadDequeuePos(t)
         /\ Q!TryPopSeesItem(t) => QP!TryPopSeesItem(t)
         /\ Q!TryPopSeesEmpty(t) => QP!TryPopSeesEmpty(t)
         /\ Q!TryPopSeesTaken(t) => QP!TryPopSeesTaken(t)
         /\ Q!ClaimDequeue(t) => QP!ClaimDequeue(t)
         /\ Q!RetryDequeue(t) => QP!RetryDequeue(t)
         /\ Q!MoveOut(t) => QP!MoveOut(t)
         /\ Q!Release(t) => QP!Release(t)
BY DEF Q!BeginTryPop, QP!BeginTryPop, Q!LoadDequeuePos, QP!LoadDequeuePos,
  Q!TryPopSeesItem, QP!TryPopSeesItem, Q!TryPopSeesEmpty, QP!TryPopSeesEmpty,
  Q!TryPopSeesTaken, QP!TryPopSeesTaken, Q!ClaimDequeue, QP!ClaimDequeue,
  Q!RetryDequeue, QP!RetryDequeue, Q!MoveOut, QP!MoveOut, Q!Release, QP!Release,
  Q!Goto, QP!Goto, Q!Leave, QP!Leave, Q!shared, QP!shared, Q!SeesOld, QP!SeesOld,
  Q!LoadsOfPos, QP!LoadsOfPos, Q!LoadsOfSequence, QP!LoadsOfSequence, Q!Cell, QP!Cell

LEMMA SameLifetime ==
  /\ Q!Close => QP!Close
  /\ Q!BeginDestructor => QP!BeginDestructor
BY DEF Q!Close, QP!Close, Q!BeginDestructor, QP!BeginDestructor, Q!Threads, QP!Threads,
  Q!Poppers, QP!Poppers

-----------------------------------------------------------------------------
(* What the steps of the client do.                                        *)

\* A step of thread t alone.
OnlyMoves(t) ==
  \A u \in QP!Threads \ {t} : pc'[u] = pc[u] /\ pos'[u] = pos[u] /\ held'[u] = held[u]

Asking == {"e_pos", "e_seq", "e_cas"}
Looking == {"p_pos", "p_seq", "p_cas"}

LEMMA Threads ==
  /\ Producers \subseteq QP!Threads /\ Consumers \subseteq QP!Threads /\ Main \in QP!Threads
  /\ Consumers \subseteq QP!Poppers /\ Main \in QP!Poppers
  /\ \A p \in Producers : p # Main /\ p \notin Consumers
  /\ Main \notin Consumers
BY AtomicHarnessAssumption DEF QP!Threads, QP!Poppers

LEMMA Types ==
  ASSUME QP!RInv
  PROVE  /\ QP!IInv /\ QP!Roles
         /\ pc \in [QP!Threads -> QP!Locations] /\ pos \in [QP!Threads -> Nat]
         /\ held \in [QP!Threads -> Items \cup {Empty}]
         /\ storage \in [QP!Cells -> Items \cup {Empty}]
         /\ enqueue_pos \in Nat /\ dequeue_pos \in Nat /\ dequeue_pos <= enqueue_pos
BY DEF QP!RInv, QP!IInv, QP!TypeOK, QP!WithinOneLap

LEMMA ProducerEffect ==
  ASSUME QP!RInv, NEW p \in Producers, ProducerStep(p)
  PROVE  /\ OnlyMoves(p)
         /\ UNCHANGED <<dequeue_pos, received, phase>>
         /\ \/ /\ pc[p] = "idle" /\ pc'[p] = "e_pos"
               /\ sent[p] < ItemsPerProducer /\ held'[p] = <<p, sent[p] + 1>>
               /\ UNCHANGED <<enqueue_pos, storage, sent, done>>
            \/ /\ pc[p] \in Asking /\ pc'[p] \in Asking /\ held'[p] = held[p]
               /\ UNCHANGED <<enqueue_pos, storage, sent, done>>
            \/ /\ pc[p] = "e_seq" /\ pc'[p] = "idle"
               /\ UNCHANGED <<enqueue_pos, storage, sent, done>>
            \/ /\ QP!ClaimEnqueue(p) /\ pc[p] = "e_cas" /\ pc'[p] = "construct"
               /\ held'[p] = held[p] /\ enqueue_pos' = enqueue_pos + 1
               /\ UNCHANGED <<storage, sent, done>>
            \/ /\ QP!Construct(p) /\ pc[p] = "construct" /\ pc'[p] = "publish"
               /\ pos'[p] = pos[p] /\ held'[p] = held[p]
               /\ storage' = [storage EXCEPT ![QP!Cell(pos[p])] = held[p]]
               /\ UNCHANGED <<enqueue_pos, sent, done>>
            \/ /\ QP!Publish(p) /\ pc[p] = "publish" /\ pc'[p] = "idle"
               /\ sent' = [sent EXCEPT ![p] = sent[p] + 1]
               /\ UNCHANGED <<enqueue_pos, storage, done>>
            \/ /\ sent[p] = ItemsPerProducer /\ done' = done \cup {p}
               /\ UNCHANGED <<qvars, sent>>
<1> USE Types, Threads DEF QP!Goto, QP!Leave, QP!shared, OnlyMoves, Asking
<1>1. CASE Push(p)
  <2>1. QP!BeginEmplace(p, <<p, sent[p] + 1>>)
    BY <1>1, SamePushes DEF Push
  <2> QED
    BY <1>1, <2>1 DEF Push, QP!BeginEmplace
<1>2. CASE QP!LoadEnqueuePos(p) /\ UNCHANGED client
  BY <1>2 DEF QP!LoadEnqueuePos
<1>3. CASE (QP!EmplaceSeesFree(p) \/ QP!EmplaceSeesTaken(p)) /\ UNCHANGED client
  BY <1>3 DEF QP!EmplaceSeesFree, QP!EmplaceSeesTaken
<1>4. CASE QP!EmplaceSeesFull(p) /\ UNCHANGED client
  BY <1>4 DEF QP!EmplaceSeesFull
<1>5. CASE QP!ClaimEnqueue(p) /\ UNCHANGED client
  BY <1>5 DEF QP!ClaimEnqueue
<1>6. CASE QP!RetryEnqueue(p) /\ UNCHANGED client
  BY <1>6 DEF QP!RetryEnqueue
<1>7. CASE QP!Construct(p) /\ UNCHANGED client
  BY <1>7 DEF QP!Construct
<1>8. CASE Pushed(p)
  <2>1. QP!Publish(p)
    BY <1>8, SamePushes DEF Pushed
  <2> QED
    BY <1>8, <2>1 DEF Pushed, QP!Publish
<1>9. CASE CountDone(p)
  BY <1>9 DEF CountDone
<1>10. CASE Pushing(p)
  BY <1>2, <1>3, <1>4, <1>5, <1>6, <1>7, <1>10, SamePushes DEF Pushing
<1> QED
  BY <1>1, <1>8, <1>9, <1>10 DEF ProducerStep

LEMMA ConsumerEffect ==
  ASSUME QP!RInv, NEW c \in Consumers, ConsumerStep(c)
  PROVE  /\ OnlyMoves(c)
         /\ UNCHANGED <<enqueue_pos, sent, done>>
         /\ \/ /\ pc[c] = "idle" /\ pc'[c] \in Looking /\ phase[c] \in {"poll", "last"}
               /\ UNCHANGED <<dequeue_pos, storage, received, phase>>
            \/ /\ pc[c] \in Looking /\ pc'[c] \in Looking
               /\ UNCHANGED <<dequeue_pos, storage, received, phase>>
            \/ /\ QP!ClaimDequeue(c) /\ pc[c] = "p_cas" /\ pc'[c] = "move_out"
               /\ pos'[c] = pos[c] /\ dequeue_pos' = dequeue_pos + 1
               /\ UNCHANGED <<storage, received, phase>>
            \/ /\ QP!MoveOut(c) /\ pc[c] = "move_out" /\ pc'[c] = "release"
               /\ storage' = [storage EXCEPT ![QP!Cell(pos[c])] = Empty]
               /\ UNCHANGED <<dequeue_pos, received, phase>>
            \/ /\ pc[c] = "release" /\ pc'[c] = "idle"
               /\ received' = [received EXCEPT ![c] = Append(received[c], held[c])]
               /\ phase' = [phase EXCEPT ![c] = "poll"]
               /\ UNCHANGED <<dequeue_pos, storage>>
            \/ /\ QP!TryPopSeesEmpty(c) /\ pc[c] = "p_seq" /\ pc'[c] = "idle"
               /\ phase' = [phase EXCEPT ![c] = IF phase[c] = "poll" THEN "check" ELSE "left"]
               /\ UNCHANGED <<dequeue_pos, storage, received>>
            \/ /\ phase[c] = "check"
               /\ phase' = [phase EXCEPT ![c] = IF done = Producers THEN "last" ELSE "poll"]
               /\ UNCHANGED <<qvars, received>>
<1> USE Types, Threads DEF QP!Goto, QP!Leave, QP!shared, OnlyMoves, Looking
<1>1. CASE Poll(c)
  <2>1. QP!BeginTryPop(c)
    BY <1>1, SamePops DEF Poll
  <2> QED
    BY <1>1, <2>1 DEF Poll, QP!BeginTryPop
<1>2. CASE QP!LoadDequeuePos(c) /\ UNCHANGED client
  BY <1>2 DEF QP!LoadDequeuePos
<1>3. CASE (QP!TryPopSeesItem(c) \/ QP!TryPopSeesTaken(c)) /\ UNCHANGED client
  BY <1>3 DEF QP!TryPopSeesItem, QP!TryPopSeesTaken
<1>4. CASE QP!ClaimDequeue(c) /\ UNCHANGED client
  BY <1>4 DEF QP!ClaimDequeue
<1>5. CASE QP!RetryDequeue(c) /\ UNCHANGED client
  BY <1>5 DEF QP!RetryDequeue
<1>6. CASE QP!MoveOut(c) /\ UNCHANGED client
  BY <1>6 DEF QP!MoveOut
<1>7. CASE Popped(c)
  <2>1. QP!Release(c)
    BY <1>7, SamePops DEF Popped
  <2> QED
    BY <1>7, <2>1 DEF Popped, QP!Release
<1>8. CASE FoundNothing(c)
  <2>1. QP!TryPopSeesEmpty(c)
    BY <1>8, SamePops DEF FoundNothing
  <2> QED
    BY <1>8, <2>1 DEF FoundNothing, QP!TryPopSeesEmpty
<1>9. CASE CheckDone(c)
  BY <1>9 DEF CheckDone
<1>10. CASE Polling(c)
  BY <1>2, <1>3, <1>4, <1>5, <1>6, <1>10, SamePops DEF Polling
<1> QED
  BY <1>1, <1>7, <1>8, <1>9, <1>10 DEF ConsumerStep

\* Main, and nobody: what concerns the items is left alone.
LEMMA MainEffect ==
  ASSUME QP!RInv, MainStep \/ UNCHANGED hvars
  PROVE  /\ OnlyMoves(Main)
         /\ UNCHANGED <<enqueue_pos, dequeue_pos, storage, client>>
<1> USE Types, Threads DEF QP!Goto, QP!Leave, QP!shared, OnlyMoves
<1>1. CASE CloseAndDestroy
  BY <1>1, SameLifetime DEF CloseAndDestroy, QP!Close, QP!BeginDestructor
<1>2. CASE Drain
  BY <1>2, SamePops DEF Drain, QP!BeginTryPop, QP!LoadDequeuePos, QP!TryPopSeesEmpty
<1>3. CASE UNCHANGED hvars
  BY <1>3 DEF hvars
<1> QED
  BY <1>1, <1>2, <1>3 DEF MainStep

LEMMA HNextCases ==
  ASSUME [HNext]_hvars
  PROVE  \/ \E p \in Producers : ProducerStep(p)
         \/ \E c \in Consumers : ConsumerStep(c)
         \/ MainStep \/ UNCHANGED hvars
BY DEF HNext

-----------------------------------------------------------------------------
(* Where everybody is.                                                     *)

Places ==
  /\ sent \in [Producers -> 0..ItemsPerProducer]
  /\ done \subseteq Producers
  /\ received \in [Consumers -> Seq(Items)]
  /\ phase \in [Consumers -> {"poll", "check", "last", "left"}]
  /\ \A p \in Producers :
       pc[p] # "idle" => sent[p] < ItemsPerProducer /\ held[p] = <<p, sent[p] + 1>>
  /\ \A p \in done : sent[p] = ItemsPerProducer
  /\ \A c \in Consumers :
       /\ phase[c] \in {"last", "left"} => done = Producers
       /\ phase[c] \in {"check", "left"} => pc[c] = "idle"

LEMMA NextItemIsItem ==
  ASSUME Places, NEW p \in Producers, sent[p] < ItemsPerProducer
  PROVE  /\ <<p, sent[p] + 1>> \in Items
         /\ sent[p] \in Nat /\ sent[p] + 1 \in 0..ItemsPerProducer
BY AtomicHarnessAssumption DEF Places, Items

\* Each step of the client is a step some client may take.
LEMMA ClientSteps ==
  ASSUME Places, [HNext]_hvars
  PROVE  [QP!Next]_(QP!vars)
<1>1. ASSUME NEW p \in Producers, ProducerStep(p)
      PROVE  [QP!Next]_(QP!vars)
  <2>1. CASE Push(p)
    <3>1. <<p, sent[p] + 1>> \in Items
      BY <2>1, NextItemIsItem DEF Push
    <3>2. QP!BeginEmplace(p, <<p, sent[p] + 1>>)
      BY <2>1, SamePushes DEF Push
    <3> QED
      BY <3>1, <3>2 DEF QP!Next, QP!Emplace
  <2>2. CASE Pushing(p) \/ Pushed(p)
    BY <2>2, SamePushes DEF Pushing, Pushed, QP!Next, QP!Emplace
  <2>3. CASE CountDone(p)
    BY <2>3 DEF CountDone, QP!vars, QP!shared
  <2> QED
    BY <1>1, <2>1, <2>2, <2>3 DEF ProducerStep
<1>2. ASSUME NEW c \in Consumers, ConsumerStep(c)
      PROVE  [QP!Next]_(QP!vars)
  <2>1. CASE Poll(c) \/ Polling(c) \/ Popped(c) \/ FoundNothing(c)
    <3>1. QP!TryPop(c)
      BY <2>1, SamePops DEF Poll, Polling, Popped, FoundNothing, QP!TryPop
    <3> QED
      BY <3>1, Threads DEF QP!Next
  <2>2. CASE CheckDone(c)
    BY <2>2 DEF CheckDone, QP!vars, QP!shared
  <2> QED
    BY <1>2, <2>1, <2>2 DEF ConsumerStep
<1>3. CASE CloseAndDestroy
  BY <1>3, SameLifetime DEF CloseAndDestroy, QP!Next
<1>4. CASE Drain
  <2>1. QP!TryPop(Main)
    BY <1>4, SamePops DEF Drain, QP!TryPop
  <2> QED
    BY <2>1, Threads DEF QP!Next
<1>5. CASE UNCHANGED hvars
  BY <1>5 DEF hvars, QP!vars, QP!shared
<1> QED
  BY <1>1, <1>2, <1>3, <1>4, <1>5, HNextCases DEF MainStep

LEMMA PlacesStep ==
  ASSUME QP!RInv, Places, [HNext]_hvars
  PROVE  Places'
<1> USE Types, Threads DEF OnlyMoves
<1>1. ASSUME NEW p \in Producers, ProducerStep(p)
      PROVE  Places'
  <2>1. /\ \A q \in Producers \ {p} : pc'[q] = pc[q] /\ held'[q] = held[q]
        /\ \A c \in Consumers : pc'[c] = pc[c]
        /\ received' = received /\ phase' = phase
    BY <1>1, ProducerEffect
  <2>2. sent' = sent \/ (pc'[p] = "idle" /\ sent' = [sent EXCEPT ![p] = sent[p] + 1]
                         /\ sent[p] < ItemsPerProducer /\ done' = done)
    BY <1>1, ProducerEffect DEF Places
  <2>3. /\ sent' \in [Producers -> 0..ItemsPerProducer]
        /\ \A q \in Producers \ {p} : sent'[q] = sent[q]
    BY <2>2, NextItemIsItem DEF Places
  <2>4. pc'[p] # "idle" => sent'[p] < ItemsPerProducer /\ held'[p] = <<p, sent'[p] + 1>>
    BY <1>1, ProducerEffect DEF Places, Asking
  <2>5. done' \subseteq Producers /\ \A q \in done' : sent'[q] = ItemsPerProducer
    <3>1. CASE done' = done /\ sent' = sent
      BY <3>1 DEF Places
    <3>2. CASE done' = done /\ sent[p] < ItemsPerProducer
      <4>1. p \notin done
        BY <3>2, NextItemIsItem DEF Places
      <4> QED
        BY <2>3, <3>2, <4>1 DEF Places
    <3>3. CASE sent[p] = ItemsPerProducer /\ done' = done \cup {p} /\ sent' = sent
      BY <3>3 DEF Places
    <3> QED
      BY <1>1, <2>2, <3>1, <3>2, <3>3, ProducerEffect
  <2>6. done \subseteq done'
    BY <1>1, ProducerEffect
  <2> QED
    BY <2>1, <2>3, <2>4, <2>5, <2>6 DEF Places
<1>2. ASSUME NEW c \in Consumers, ConsumerStep(c)
      PROVE  Places'
  <2>1. /\ \A p \in Producers : pc'[p] = pc[p] /\ held'[p] = held[p]
        /\ \A d \in Consumers \ {c} : pc'[d] = pc[d]
        /\ sent' = sent /\ done' = done
    BY <1>2, ConsumerEffect
  <2>2. received' \in [Consumers -> Seq(Items)]
    <3>1. \/ received' = received
          \/ /\ pc[c] = "release"
             /\ received' = [received EXCEPT ![c] = Append(received[c], held[c])]
      BY <1>2, ConsumerEffect
    <3>2. pc[c] = "release" => held[c] \in Items
      BY DEF QP!Roles
    <3>3. pc[c] = "release" => Append(received[c], held[c]) \in Seq(Items)
      BY <3>2 DEF Places
    <3> QED
      BY <3>1, <3>3 DEF Places
  <2>3. /\ phase' \in [Consumers -> {"poll", "check", "last", "left"}]
        /\ \A d \in Consumers \ {c} : phase'[d] = phase[d]
    <3>1. \E v \in {phase[c], "poll", "check", "last", "left"} :
            phase' = [phase EXCEPT ![c] = v]
      <4>1. phase = [phase EXCEPT ![c] = phase[c]]
        BY DEF Places
      <4> QED
        BY <1>2, <4>1, ConsumerEffect, Zenon
    <3>2. phase \in [Consumers -> {"poll", "check", "last", "left"}]
      BY DEF Places
    <3> QED
      BY <3>1, <3>2
  <2>4. /\ phase'[c] \in {"last", "left"} => done' = Producers
        /\ phase'[c] \in {"check", "left"} => pc'[c] = "idle"
    BY <1>2, ConsumerEffect DEF Places, Looking
  <2> QED
    BY <2>1, <2>2, <2>3, <2>4 DEF Places
<1>3. CASE MainStep \/ UNCHANGED hvars
  <2>1. \A u \in Producers \cup Consumers : pc'[u] = pc[u] /\ held'[u] = held[u]
    BY <1>3, MainEffect
  <2> QED
    BY <1>3, <2>1, MainEffect DEF Places
<1> QED
  BY <1>1, <1>2, <1>3, HNextCases

LEMMA InitPlaces ==
  ASSUME HInit
  PROVE  Places /\ QP!Init
<1>1. QP!Init
  BY DEF HInit, Q!Init, QP!Init, Q!Threads, QP!Threads, Q!Poppers, QP!Poppers,
     Q!Cells, QP!Cells
<1>2. 0 \in 0..ItemsPerProducer /\ <<>> \in Seq(Items)
  BY AtomicHarnessAssumption
<1>3. \A p \in Producers : pc[p] = "idle"
  BY <1>1, Threads DEF QP!Init
<1> QED
  BY <1>1, <1>2, <1>3 DEF HInit, Places

\* So every behaviour of the client is one of the queue with some client, and none of
\* its payloads throws.
LEMMA PlacesInvariant == HSafeSpec => [](Places /\ QP!RInv /\ QP!Tended)
<1>1. HInit => Places /\ QP!Init
  BY InitPlaces
<1>2. QP!RInv /\ Places /\ [HNext]_hvars => Places'
  BY PlacesStep
<1>3. Places /\ [HNext]_hvars => [QP!Next]_(QP!vars)
  BY ClientSteps
<1>4. QP!RInv /\ QP!Tended /\ [QP!Next]_(QP!vars) => QP!RInv' /\ (QP!Tended)'
  <2>1. QP!RInv /\ [QP!Next]_(QP!vars) => QP!RInv'
    BY QP!RInvStep, Instance
  <2>2. QP!RInv /\ QP!Tended /\ [QP!Next]_(QP!vars) => (QP!Tended)'
    BY QP!TendedStep, Instance, Types
  <2> QED
    BY <2>1, <2>2
<1>5. QP!Init => QP!RInv /\ QP!Tended
  BY QP!InitHasRInv, QP!InitIsTended, Instance
<1> QED
  BY <1>1, <1>2, <1>3, <1>4, <1>5, PTL DEF HSafeSpec

-----------------------------------------------------------------------------
(* A consumer that leaves leaves nothing behind.                           *)

\* The items that have a position.
ClaimedItems == {item \in Items : item[2] <= Claimed[item[1]]}

Count == enqueue_pos = Cardinality(ClaimedItems)

\* When all producers are done, all items have one.
AllClaimed ==
  done = Producers =>
    enqueue_pos = Cardinality(Items) /\ \A p \in Producers : pc[p] = "idle"

LEMMA ItemsAreFinite ==
  /\ IsFiniteSet(Items) /\ IsFiniteSet(ClaimedItems) /\ Cardinality(ClaimedItems) \in Nat
<1>1. IsFiniteSet(1..ItemsPerProducer)
  BY AtomicHarnessAssumption, FS_Interval
<1>2. IsFiniteSet(Items)
  BY <1>1, AtomicHarnessAssumption, FS_Product DEF Items
<1>3. IsFiniteSet(ClaimedItems)
  BY <1>2, FS_Subset DEF ClaimedItems
<1> QED
  BY <1>2, <1>3, FS_CardinalityType

LEMMA ClaimedType ==
  ASSUME Places
  PROVE  Claimed \in [Producers -> Nat]
BY AtomicHarnessAssumption DEF Places, Claimed

\* Only a successful compare-and-swap claims an item: the next one of its producer.
Claims(p) ==
  /\ QP!ClaimEnqueue(p)
  /\ sent[p] < ItemsPerProducer /\ sent' = sent
  /\ Claimed[p] \in Nat /\ held[p] = <<p, Claimed[p] + 1>>
  /\ Claimed' = [Claimed EXCEPT ![p] = Claimed[p] + 1]
  /\ enqueue_pos' = enqueue_pos + 1

ClaimsNothing == Claimed' = Claimed /\ enqueue_pos' = enqueue_pos

LEMMA ProducerClaims ==
  ASSUME QP!RInv, Places, NEW p \in Producers, ProducerStep(p)
  PROVE  IF QP!ClaimEnqueue(p) THEN Claims(p) ELSE ClaimsNothing
<1> USE Types, Threads DEF OnlyMoves, QP!Producing, Claimed, Claims, ClaimsNothing
<1>0. \A q \in Producers \ {p} : pc'[q] = pc[q]
  BY ProducerEffect
<1>1. sent[p] \in Nat /\ sent \in [Producers -> 0..ItemsPerProducer]
  BY AtomicHarnessAssumption DEF Places
<1>2. QP!ClaimEnqueue(p) => enqueue_pos' = enqueue_pos + 1
  BY DEF QP!ClaimEnqueue
<1>3. CASE sent' = sent /\ enqueue_pos' = enqueue_pos /\ (QP!Producing(p) <=> QP!Producing(p)')
  BY <1>0, <1>2, <1>3
<1>4. CASE /\ pc[p] = "publish" /\ pc'[p] = "idle"
           /\ sent' = [sent EXCEPT ![p] = sent[p] + 1] /\ enqueue_pos' = enqueue_pos
  BY <1>0, <1>1, <1>2, <1>4
<1>5. CASE /\ QP!ClaimEnqueue(p) /\ pc[p] = "e_cas" /\ pc'[p] = "construct"
           /\ enqueue_pos' = enqueue_pos + 1 /\ sent' = sent
  <2>1. sent[p] < ItemsPerProducer /\ held[p] = <<p, sent[p] + 1>> /\ Claimed[p] = sent[p]
    BY <1>5 DEF Places
  <2>2. Claimed' = [Claimed EXCEPT ![p] = sent[p] + 1]
    BY <1>0, <1>1, <1>5
  <2> QED
    BY <1>1, <1>5, <2>1, <2>2
<1> QED
  BY <1>3, <1>4, <1>5, ProducerEffect DEF Asking

LEMMA OthersClaimNothing ==
  ASSUME QP!RInv, (\E c \in Consumers : ConsumerStep(c)) \/ MainStep \/ UNCHANGED hvars
  PROVE  ClaimsNothing
<1>1. sent' = sent /\ enqueue_pos' = enqueue_pos /\ \A p \in Producers : pc'[p] = pc[p]
  BY Threads, ConsumerEffect, MainEffect DEF OnlyMoves
<1> QED
  BY <1>1 DEF ClaimsNothing, Claimed, QP!Producing

LEMMA CountStep ==
  ASSUME QP!RInv, Places, Count, [HNext]_hvars
  PROVE  Count'
<1>1. CASE ClaimsNothing
  BY <1>1 DEF ClaimsNothing, Count, ClaimedItems
<1>2. ASSUME NEW p \in Producers, Claims(p)
      PROVE  Count'
  <2> DEFINE e == <<p, Claimed[p] + 1>>
  <2>0. /\ Claimed[p] \in Nat /\ held[p] = e
        /\ Claimed' = [Claimed EXCEPT ![p] = Claimed[p] + 1] /\ enqueue_pos' = enqueue_pos + 1
    BY <1>2 DEF Claims
  <2>1. e \in Items /\ e \notin ClaimedItems
    <3>1. held[p] \in Items
      BY <1>2 DEF Claims, QP!RInv, QP!Roles, QP!ClaimEnqueue
    <3> QED
      BY <2>0, <3>1 DEF ClaimedItems
  <2>2. ASSUME NEW q \in Producers, NEW n \in 1..ItemsPerProducer
        PROVE  n <= Claimed'[q] <=> n <= Claimed[q] \/ (q = p /\ n = Claimed[p] + 1)
    BY <2>0, ClaimedType, AtomicHarnessAssumption
  <2>3. ASSUME NEW item \in Items
        PROVE  item[2] <= Claimed'[item[1]] <=> item[2] <= Claimed[item[1]] \/ item = e
    BY <2>2 DEF Items
  <2>4. ClaimedItems' = ClaimedItems \cup {e}
    BY <2>1, <2>3 DEF ClaimedItems
  <2>5. Cardinality(ClaimedItems \cup {e}) = Cardinality(ClaimedItems) + 1
    BY <2>1, ItemsAreFinite, FS_AddElement
  <2> QED
    BY <2>0, <2>4, <2>5 DEF Count
<1> QED
  BY <1>1, <1>2, HNextCases, ProducerClaims, OthersClaimNothing

LEMMA AllClaimedHolds ==
  ASSUME Places, Count
  PROVE  AllClaimed
<1> SUFFICES ASSUME done = Producers
             PROVE  enqueue_pos = Cardinality(Items) /\ \A p \in Producers : pc[p] = "idle"
  BY DEF AllClaimed
<1>1. \A p \in Producers : sent[p] = ItemsPerProducer /\ pc[p] = "idle"
  BY AtomicHarnessAssumption DEF Places
<1>2. \A p \in Producers : Claimed[p] = ItemsPerProducer
  BY <1>1 DEF Claimed, QP!Producing
<1>3. ClaimedItems = Items
  BY <1>2, AtomicHarnessAssumption DEF ClaimedItems, Items
<1> QED
  BY <1>1, <1>3 DEF Count

\* The second try_pop, after all producers are done, that finds nothing: nobody is
\* about to publish, so the queue is empty.
LEMMA LastLookIsRight ==
  ASSUME QP!RInv, QP!Tended, AllClaimed, done = Producers, NEW c \in Consumers,
         QP!TryPopSeesEmpty(c)
  PROVE  dequeue_pos = enqueue_pos
<1>1. QP!Content = <<>> \/ \E p \in Producers : QP!Settling[p] # Empty
  BY Threads, QP!EmptyHasAReason, Instance DEF QP!Tended
<1>2. \A p \in Producers : QP!Settling[p] = Empty
  BY DEF AllClaimed, QP!Settling, QP!Producing
<1>3. QP!Content \in Seq(Items) /\ Len(QP!Content) = enqueue_pos - dequeue_pos
  BY QP!ContentIs, QP!ContentOfValues, Instance DEF QP!Tended
<1>4. enqueue_pos - dequeue_pos = 0
  BY <1>1, <1>2, <1>3
<1> QED
  BY <1>4, Types

LEMMA NoneLeftBehindStep ==
  ASSUME QP!RInv, QP!RInv', QP!Tended, Places, Places', AllClaimed, AllClaimed',
         NoneLeftBehind, [HNext]_hvars
  PROVE  NoneLeftBehind'
<1> SUFFICES ASSUME NEW c \in Consumers, phase'[c] = "left"
             PROVE  enqueue_pos' = Cardinality(Items) /\ dequeue_pos' = enqueue_pos'
  BY DEF NoneLeftBehind
<1>1. done' = Producers /\ enqueue_pos' = Cardinality(Items)
  BY DEF Places, AllClaimed
<1>2. dequeue_pos' <= enqueue_pos' /\ dequeue_pos' \in Nat /\ enqueue_pos' \in Nat
  BY DEF QP!RInv, QP!IInv, QP!TypeOK, QP!WithinOneLap
<1>3. CASE phase[c] = "left"
  <2>1. enqueue_pos = Cardinality(Items) /\ dequeue_pos = enqueue_pos
    BY <1>3 DEF NoneLeftBehind
  <2>2. dequeue_pos' = dequeue_pos \/ dequeue_pos' = dequeue_pos + 1
    BY HNextCases, ProducerEffect, ConsumerEffect, MainEffect
  <2> QED
    BY <1>1, <1>2, <2>1, <2>2
<1>4. CASE phase[c] # "left"
  <2>1. ConsumerStep(c)
    <3>1. phase' # phase
      BY <1>4
    <3>2. PICK d \in Consumers : ConsumerStep(d)
      BY <3>1, HNextCases, ProducerEffect, MainEffect
    <3>3. d = c
      BY <1>4, <3>2, ConsumerEffect DEF Places
    <3> QED
      BY <3>2, <3>3
  <2>2. /\ QP!TryPopSeesEmpty(c) /\ pc[c] = "p_seq" /\ phase[c] # "poll"
        /\ UNCHANGED <<enqueue_pos, dequeue_pos, done>>
    BY <1>4, <2>1, ConsumerEffect DEF Places
  <2>3. dequeue_pos = enqueue_pos
    BY <1>1, <2>2, LastLookIsRight
  <2> QED
    BY <1>1, <2>2, <2>3
<1> QED
  BY <1>3, <1>4

LEMMA CountInvariant == HSafeSpec => [](Count /\ AllClaimed)
<1>1. ASSUME HInit
      PROVE  Count
  <2>1. enqueue_pos = 0 /\ \A p \in Producers : Claimed[p] = 0
    <3>1. enqueue_pos = 0 /\ \A p \in Producers : pc[p] = "idle" /\ sent[p] = 0
      BY <1>1, InitPlaces, Threads DEF HInit, QP!Init
    <3> QED
      BY <3>1 DEF Claimed, QP!Producing
  <2>2. ClaimedItems = {}
    BY <2>1 DEF ClaimedItems, Items
  <2> QED
    BY <2>1, <2>2, FS_EmptySet DEF Count
<1>2. QP!RInv /\ Places /\ Count /\ [HNext]_hvars => Count'
  BY CountStep
<1>3. Places /\ Count => AllClaimed
  BY AllClaimedHolds
<1> QED
  BY <1>1, <1>2, <1>3, PlacesInvariant, PTL DEF HSafeSpec

\* When a consumer has left its loop, every item has been claimed by a pop, whatever
\* the number of producers still between two steps when it first found nothing: the
\* second try_pop after done_producers is enough.
THEOREM NobodyLeavesEarly == HSafeSpec => []NoneLeftBehind
<1>1. HInit => NoneLeftBehind
  BY DEF HInit, NoneLeftBehind
<1>2. /\ QP!RInv /\ QP!RInv' /\ QP!Tended /\ Places /\ Places' /\ AllClaimed /\ AllClaimed'
      /\ NoneLeftBehind /\ [HNext]_hvars
      => NoneLeftBehind'
  BY NoneLeftBehindStep
<1> QED
  BY <1>1, <1>2, PlacesInvariant, CountInvariant, PTL DEF HSafeSpec

-----------------------------------------------------------------------------
(* Every item received was pushed, once, and in order.                     *)

\* The object a producer is about to publish is its own.
Stored ==
  \A p \in Producers : pc[p] = "publish" => storage[QP!Cell(pos[p])] = held[p]

\* What consumers have claimed has been published.
Delivered == \A c \in Consumers : D!WithinSent(Seen[c], sent)

LEMMA StoredStep ==
  ASSUME QP!RInv, QP!RInv', Stored, [HNext]_hvars
  PROVE  Stored'
<1> SUFFICES ASSUME NEW p \in Producers, pc'[p] = "publish"
             PROVE  storage'[QP!Cell(pos'[p])] = held'[p]
  BY DEF Stored, QP!Cell
<1> DEFINE i == QP!Cell(pos[p])
<1> USE Types, Threads
<1>0. \A t \in QP!Threads : pos[t] \in Nat /\ QP!Cell(pos[t]) \in QP!Cells
  BY QP!CellType, Instance
<1>1. CASE QP!Construct(p)
  <2>1. storage' = [storage EXCEPT ![i] = held[p]] /\ pos' = pos /\ held' = held
    BY <1>1 DEF QP!Construct
  <2> QED
    BY <1>0, <2>1
<1>2. CASE pc[p] = "publish" /\ pos'[p] = pos[p] /\ held'[p] = held[p]
  <2>1. storage[i] = held[p] /\ storage[i] # Empty /\ storage'[i] # Empty
    BY <1>2, Instance DEF Stored, QP!RInv, QP!IInv, QP!ClaimInvariant, QP!Producing, QP!Cell
  <2>2. CASE storage' = storage
    BY <1>2, <2>1, <2>2
  <2>3. ASSUME NEW q \in Producers, QP!Construct(q)
        PROVE  storage'[i] = storage[i]
    <3>1. /\ storage' = [storage EXCEPT ![QP!Cell(pos[q])] = held[q]]
          /\ storage[QP!Cell(pos[q])] = Empty
      BY <2>3 DEF QP!Construct, QP!RInv, QP!IInv, QP!ClaimInvariant, QP!Producing
    <3> QED
      BY <1>0, <2>1, <3>1
  <2>4. ASSUME NEW c \in Consumers, QP!MoveOut(c)
        PROVE  storage'[i] = storage[i]
    <3>1. storage' = [storage EXCEPT ![QP!Cell(pos[c])] = Empty]
      BY <2>4 DEF QP!MoveOut
    <3> QED
      BY <1>0, <2>1, <3>1
  <2>5. \/ storage' = storage
        \/ \E q \in Producers : QP!Construct(q)
        \/ \E c \in Consumers : QP!MoveOut(c)
    BY HNextCases, ProducerEffect, ConsumerEffect, MainEffect
  <2> QED
    BY <1>2, <2>1, <2>2, <2>3, <2>4, <2>5
<1>3. QP!Construct(p) \/ (pc[p] = "publish" /\ pos'[p] = pos[p] /\ held'[p] = held[p])
  <2>1. ASSUME NEW q \in Producers, ProducerStep(q)
        PROVE  \/ QP!Construct(p)
               \/ (pc[p] = "publish" /\ pos'[p] = pos[p] /\ held'[p] = held[p])
    BY <2>1, ProducerEffect DEF OnlyMoves, Asking
  <2>2. ASSUME NEW c \in Consumers, ConsumerStep(c)
        PROVE  pc[p] = "publish" /\ pos'[p] = pos[p] /\ held'[p] = held[p]
    BY <2>2, ConsumerEffect DEF OnlyMoves
  <2>3. ASSUME MainStep \/ UNCHANGED hvars
        PROVE  pc[p] = "publish" /\ pos'[p] = pos[p] /\ held'[p] = held[p]
    BY <2>3, MainEffect DEF OnlyMoves
  <2> QED
    BY <2>1, <2>2, <2>3, HNextCases
<1> QED
  BY <1>1, <1>2, <1>3

\* The queue of items, and how the steps of the client change it.
LEMMA ItemsHaveTypes ==
  ASSUME QP!RInv, QP!Tended, Places
  PROVE  D!ItemTypes
<1>1. QP!Content \in Seq(Items)
  BY QP!ContentOfValues, Instance DEF QP!Tended
<1>2. Claimed \in [Producers -> 0..ItemsPerProducer]
  BY AtomicHarnessAssumption DEF Places, Claimed, QP!Producing
<1>3. ASSUME NEW c \in Consumers
      PROVE  Seen[c] \in Seq(Items)
  <2>1. QP!Consuming(c) => QP!Got[c] \in Items
    <3>1. pc[c] = "release" => held[c] \in Items
      BY Threads DEF QP!RInv, QP!Roles
    <3>2. pc[c] = "move_out" => storage[QP!Cell(pos[c])] \in Items
      <4>1. pos[c] \in Nat /\ QP!Cell(pos[c]) \in QP!Cells
        BY Threads, Types, QP!CellType, Instance
      <4> QED
        BY <4>1, Threads, Types DEF QP!RInv, QP!IInv, QP!ClaimInvariant, QP!Consuming
    <3> QED
      BY <3>1, <3>2, Threads DEF QP!Consuming, QP!Got
  <2> QED
    BY <2>1 DEF Seen, Places
<1>4. Seen \in [Consumers -> Seq(Items)]
  BY <1>3 DEF Seen
<1> QED
  BY <1>1, <1>2, <1>4, DequeInstance DEF D!ItemTypes

\* What a thread has got is its own; other threads' steps do not touch it.
LEMMA QuietStep ==
  ASSUME QP!RInv, QP!RInv', QP!Tended, (QP!Tended)', NEW t \in QP!Threads, OnlyMoves(t),
         pc[t] # "construct", UNCHANGED <<enqueue_pos, dequeue_pos, storage>>
  PROVE  /\ QP!Content' = QP!Content
         /\ \A c \in QP!Poppers \ {t} : QP!Got'[c] = QP!Got[c]
<1>0. QP!NeglectKept
  BY DEF QP!Tended, QP!NeglectKept
<1>1. QP!Content' = QP!Content
  BY <1>0, QP!ContentUntouched, Instance DEF OnlyMoves
<1>2. \A c \in QP!Poppers \ {t} : c \in QP!Threads \ {t}
  BY DEF QP!Threads
<1> QED
  BY <1>1, <1>2 DEF OnlyMoves, QP!Got, QP!Cell

\* The steps of a producer: one of them sends.
LEMMA ProducerItems ==
  ASSUME QP!RInv, QP!RInv', QP!Tended, (QP!Tended)', Places, NEW p \in Producers, ProducerStep(p)
  PROVE  \/ D!Sends(p) /\ sent' = sent
         \/ UNCHANGED <<QP!Content, Claimed, Seen>>
<1> USE Types, Threads
<1>1. /\ received' = received
      /\ \A c \in Consumers : QP!Consuming(c) <=> QP!Consuming(c)'
  BY ProducerEffect DEF OnlyMoves, QP!Consuming
<1>2. ASSUME \A c \in Consumers : QP!Got'[c] = QP!Got[c]
      PROVE  Seen' = Seen
  BY <1>1, <1>2 DEF Seen
<1>3. CASE QP!ClaimEnqueue(p)
  <2>1. QP!Content' = Append(QP!Content, held[p])
    BY <1>3, QP!ContentAfterClaimEnqueue, Instance
  <2>2. Claims(p)
    BY <1>3, ProducerClaims
  <2>3. OnlyMoves(p) /\ storage' = storage
    BY <1>3, ProducerEffect DEF QP!ClaimEnqueue
  <2>4. \A c \in Consumers : QP!Got'[c] = QP!Got[c]
    BY <2>3 DEF OnlyMoves, QP!Got, QP!Cell
  <2>5. Claimed[p] < ItemsPerProducer
    BY <1>3 DEF Claimed, Places, QP!ClaimEnqueue, QP!Producing
  <2> QED
    BY <1>2, <2>1, <2>2, <2>4, <2>5 DEF Claims, D!Sends
<1>4. CASE QP!Construct(p)
  <2>1. QP!Content' = QP!Content /\ QP!Got' = QP!Got
    BY <1>4, QP!ConstructIsInvisible, Instance DEF QP!Fifo!vars
  <2>2. ~QP!ClaimEnqueue(p)
    BY <1>4 DEF QP!Construct, QP!ClaimEnqueue
  <2> QED
    BY <1>2, <2>1, <2>2, ProducerClaims DEF ClaimsNothing
<1>5. CASE ~QP!ClaimEnqueue(p) /\ ~QP!Construct(p)
  <2>1. sent[p] = ItemsPerProducer => pc[p] = "idle"
    BY AtomicHarnessAssumption DEF Places
  <2>2. /\ OnlyMoves(p) /\ pc[p] # "construct"
        /\ UNCHANGED <<enqueue_pos, dequeue_pos, storage>>
    BY <1>5, <2>1, ProducerEffect DEF Asking
  <2>3. QP!Content' = QP!Content /\ \A c \in Consumers : QP!Got'[c] = QP!Got[c]
    BY <2>2, QuietStep
  <2> QED
    BY <1>2, <1>5, <2>3, ProducerClaims DEF ClaimsNothing
<1> QED
  BY <1>3, <1>4, <1>5

\* The steps of a consumer: one of them delivers.
LEMMA ConsumerItems ==
  ASSUME QP!RInv, QP!RInv', QP!Tended, (QP!Tended)', Places, NEW c \in Consumers, ConsumerStep(c)
  PROVE  \/ D!Delivers(c) /\ QP!ClaimDequeue(c) /\ sent' = sent
         \/ UNCHANGED <<QP!Content, Claimed, Seen, sent>>
<1> USE Types, Threads
<1>1. Claimed' = Claimed /\ sent' = sent /\ OnlyMoves(c)
  BY OthersClaimNothing, ConsumerEffect DEF ClaimsNothing
<1>2. /\ \A d \in Consumers \ {c} : QP!Consuming(d) <=> QP!Consuming(d)'
      /\ pc[c] # "construct"
  BY <1>1 DEF OnlyMoves, QP!Consuming, QP!Roles
<1>3. CASE QP!ClaimDequeue(c)
  <2>1. /\ QP!Content # <<>> /\ QP!Content' = Tail(QP!Content)
        /\ Head(QP!Content) = storage[QP!Cell(pos[c])]
    BY <1>3, QP!ContentAfterClaimDequeue, Instance
  <2>2. /\ pc[c] = "p_cas" /\ pc'[c] = "move_out" /\ pos' = pos
        /\ UNCHANGED <<storage, received>>
    BY <1>3, ConsumerEffect DEF QP!ClaimDequeue, QP!Goto
  <2>3. \A d \in Consumers \ {c} : QP!Got'[d] = QP!Got[d]
    BY <1>1, <2>2 DEF OnlyMoves, QP!Got, QP!Cell
  <2>4. Seen[c] = received[c] /\ Seen'[c] = Append(received[c], storage[QP!Cell(pos[c])])
    BY <2>2 DEF Seen, QP!Consuming, QP!Got, QP!Cell
  <2>5. Seen' = [Seen EXCEPT ![c] = Append(Seen[c], Head(QP!Content))]
    BY <1>2, <2>1, <2>2, <2>3, <2>4 DEF Seen
  <2> QED
    BY <1>1, <1>3, <2>1, <2>5 DEF D!Delivers
<1>4. CASE QP!MoveOut(c)
  <2>1. QP!Content' = QP!Content /\ QP!Got' = QP!Got
    BY <1>4, QP!MoveOutIsInvisible, Instance DEF QP!Fifo!vars
  <2>2. received' = received /\ QP!Consuming(c) /\ QP!Consuming(c)'
    <3>1. QP!Consuming(c) /\ QP!Consuming(c)'
      BY <1>4 DEF QP!MoveOut, QP!Consuming, QP!Goto
    <3>2. pc'[c] = "release"
      BY <1>4 DEF QP!MoveOut, QP!Goto
    <3> QED
      BY <3>1, <3>2, ConsumerEffect DEF Looking
  <2>3. \A d \in Consumers : QP!Consuming(d) <=> QP!Consuming(d)'
    BY <1>2, <2>2
  <2>4. Seen' = Seen
    BY <2>1, <2>2, <2>3 DEF Seen
  <2> QED
    BY <1>1, <2>1, <2>4
<1>5. CASE ~QP!ClaimDequeue(c) /\ ~QP!MoveOut(c)
  <2>1. UNCHANGED <<enqueue_pos, dequeue_pos, storage>>
    BY <1>5, ConsumerEffect
  <2>2. QP!Content' = QP!Content /\ \A d \in Consumers \ {c} : QP!Got'[d] = QP!Got[d]
    BY <1>1, <1>2, <2>1, QuietStep
  <2>3. CASE received' = received /\ ~QP!Consuming(c) /\ ~QP!Consuming(c)'
    BY <1>1, <1>2, <2>2, <2>3 DEF Seen
  <2>4. CASE /\ pc[c] = "release" /\ pc'[c] = "idle"
             /\ received' = [received EXCEPT ![c] = Append(received[c], held[c])]
    <3>1. Seen[c] = Append(received[c], held[c])
      BY <2>4 DEF Seen, QP!Got, QP!Consuming
    <3>2. Seen'[c] = Append(received[c], held[c])
      BY <2>4 DEF Seen, QP!Consuming, Places
    <3> QED
      BY <1>1, <1>2, <2>2, <2>4, <3>1, <3>2 DEF Seen
  <2>5. CASE /\ received' = received
             /\ pc[c] \in Looking \cup {"idle"} /\ pc'[c] \in Looking \cup {"idle"}
    BY <2>3, <2>5 DEF QP!Consuming, Looking
  <2>6. CASE UNCHANGED <<qvars, received>>
    BY <1>1, <2>2, <2>6 DEF Seen, QP!Got, QP!Cell, QP!Consuming
  <2> QED
    BY <1>5, <2>4, <2>5, <2>6, ConsumerEffect DEF Looking
<1> QED
  BY <1>3, <1>4, <1>5

LEMMA MainItems ==
  ASSUME QP!RInv, QP!RInv', QP!Tended, (QP!Tended)', MainStep \/ UNCHANGED hvars
  PROVE  UNCHANGED <<QP!Content, Claimed, Seen, sent>>
<1> USE Types, Threads
<1>1. OnlyMoves(Main) /\ UNCHANGED <<enqueue_pos, dequeue_pos, storage, client>>
  BY MainEffect
<1>2. pc[Main] # "construct"
  BY DEF QP!Roles
<1>3. QP!Content' = QP!Content /\ \A c \in Consumers : QP!Got'[c] = QP!Got[c]
  BY <1>1, <1>2, QuietStep
<1>4. Claimed' = Claimed
  BY OthersClaimNothing DEF ClaimsNothing
<1>5. \A c \in Consumers : QP!Consuming(c) <=> QP!Consuming(c)'
  BY <1>1 DEF OnlyMoves, QP!Consuming
<1> QED
  BY <1>1, <1>3, <1>4, <1>5 DEF Seen

\* A pop gets an item that is published: the one its producer has claimed a position
\* for and not published comes later.
LEMMA HeadIsSent ==
  ASSUME QP!RInv, QP!Tended, Places, Stored, D!Accounts, NEW c \in Consumers,
         QP!ClaimDequeue(c)
  PROVE  Head(QP!Content)[2] <= sent[Head(QP!Content)[1]]
<1> DEFINE s == QP!Content
           h == Head(s)
           p == h[1]
<1>1. /\ s \in Seq(Items) /\ Len(s) = enqueue_pos - dequeue_pos
      /\ \A i \in 1..(enqueue_pos - dequeue_pos) : s[i] = QP!ValueOf[dequeue_pos + i - 1]
  BY QP!ContentIs, QP!ContentOfValues, Instance DEF QP!Tended
<1>2. /\ dequeue_pos < enqueue_pos /\ dequeue_pos \in Nat /\ enqueue_pos \in Nat
      /\ sequence[QP!Cell(dequeue_pos)] = dequeue_pos + 1
  BY QP!DequeueGetsObject, Instance, Types, Threads DEF QP!Window
<1>3. 1 \in 1..Len(s) /\ h = s[1] /\ s # <<>> /\ h \in Items
  BY <1>1, <1>2
<1>4. p \in Producers /\ h[2] \in Nat /\ h[2] <= Claimed[p]
  <2>1. D!WithinSent(s, Claimed)
    BY DEF D!Accounts
  <2>2. h[2] <= Claimed[h[1]]
    BY <1>3, <2>1 DEF D!WithinSent
  <2> QED
    BY <1>3, <2>2 DEF Items
<1>5. sent[p] \in Nat
  BY <1>4, AtomicHarnessAssumption DEF Places
<1>6. CASE ~QP!Producing(p)
  BY <1>4, <1>6 DEF Claimed
<1>7. CASE QP!Producing(p)
  <2> DEFINE k == pos[p] - dequeue_pos + 1
  <2>1. /\ pos[p] \in Nat /\ dequeue_pos <= pos[p] /\ pos[p] < enqueue_pos
        /\ sequence[QP!Cell(pos[p])] = pos[p]
        /\ storage[QP!Cell(pos[p])] = Empty <=> pc[p] = "construct"
    BY <1>4, <1>7, Types, Threads DEF QP!RInv, QP!IInv, QP!ClaimInvariant
  <2>2. pos[p] # dequeue_pos
    BY <1>2, <2>1
  <2>3. k \in 1..(enqueue_pos - dequeue_pos) /\ 1 < k /\ dequeue_pos + k - 1 = pos[p]
    BY <1>2, <2>1, <2>2
  <2>4. QP!ValueOf[pos[p]] = held[p]
    <3>1. CASE pc[p] = "construct"
      BY <1>4, <3>1, QP!ValueIsHeld, Instance, Types
    <3>2. CASE pc[p] = "publish"
      <4>1. storage[QP!Cell(pos[p])] = held[p] /\ storage[QP!Cell(pos[p])] # Empty
        BY <1>4, <2>1, <3>2 DEF Stored
      <4> QED
        BY <2>1, <4>1, QP!ValueIsStored, Instance DEF QP!Tended
    <3> QED
      BY <1>7, <3>1, <3>2 DEF QP!Producing
  <2>5. held[p] = <<p, sent[p] + 1>>
    BY <1>4, <1>7 DEF Places, QP!Producing
  <2>6. s[k] = <<p, sent[p] + 1>> /\ k \in 1..Len(s)
    BY <1>1, <2>3, <2>4, <2>5
  <2>7. D!Ordered(s)
    BY DEF D!Accounts
  <2> HIDE DEF k, s
  <2>8. s[1][1] = s[k][1] /\ s[k][2] = sent[p] + 1
    BY <1>3, <2>6
  <2>9. s[1][2] < s[k][2]
    BY <1>3, <2>3, <2>6, <2>7, <2>8 DEF D!Ordered
  <2> QED
    BY <1>3, <1>4, <1>5, <2>8, <2>9 DEF s
<1> QED
  BY <1>6, <1>7

LEMMA SentGrows ==
  ASSUME QP!RInv, Places, [HNext]_hvars, NEW p \in Producers
  PROVE  sent[p] \in Nat /\ sent'[p] \in Nat /\ sent[p] <= sent'[p]
<1>1. sent[p] \in Nat
  BY AtomicHarnessAssumption DEF Places
<1>2. \/ sent' = sent
      \/ \E q \in Producers : sent' = [sent EXCEPT ![q] = sent[q] + 1]
  BY HNextCases, ProducerEffect, ConsumerEffect, MainEffect
<1> QED
  BY <1>1, <1>2 DEF Places

LEMMA AccountsStep ==
  ASSUME QP!RInv, QP!RInv', QP!Tended, (QP!Tended)', Places, Stored, D!Accounts, Delivered,
         [HNext]_hvars
  PROVE  D!Accounts' /\ Delivered'
<1>0. D!ItemTypes
  BY ItemsHaveTypes
<1>1. ASSUME NEW s \in Seq(Items), D!WithinSent(s, sent)
      PROVE  D!WithinSent(s, sent')
  <2> SUFFICES ASSUME NEW i \in 1..Len(s)
               PROVE  s[i][2] <= sent'[s[i][1]]
    BY DEF D!WithinSent
  <2>1. s[i] \in Items
    BY ElementOfSeq
  <2>2. s[i][1] \in Producers /\ s[i][2] \in Nat /\ s[i][2] <= sent[s[i][1]]
    BY <1>1, <2>1 DEF Items, D!WithinSent
  <2> QED
    BY <2>2, SentGrows
<1>2. /\ QP!Content \in Seq(Items) /\ Seen \in [Consumers -> Seq(Items)]
      /\ \A c \in Consumers : Seen[c] \in Seq(Items)
  BY <1>0, DequeInstance DEF D!ItemTypes
<1>3. CASE UNCHANGED <<QP!Content, Claimed, Seen>>
  <2>1. D!Accounts'
    BY <1>3 DEF D!Accounts
  <2>2. Delivered'
    BY <1>1, <1>2, <1>3 DEF Delivered
  <2> QED
    BY <2>1, <2>2
<1>4. ASSUME NEW p \in Producers, D!Sends(p), sent' = sent
      PROVE  D!Accounts' /\ Delivered'
  <2>1. D!Accounts'
    BY <1>0, <1>4, D!SendAccounts, DequeInstance
  <2>2. Seen' = Seen
    BY <1>4 DEF D!Sends
  <2> QED
    BY <1>4, <2>1, <2>2 DEF Delivered
<1>5. ASSUME NEW c \in Consumers, D!Delivers(c), QP!ClaimDequeue(c), sent' = sent
      PROVE  D!Accounts' /\ Delivered'
  <2> DEFINE h == Head(QP!Content)
  <2>1. D!Accounts'
    BY <1>0, <1>5, D!DeliverAccounts, DequeInstance
  <2>2. /\ Seen' = [Seen EXCEPT ![c] = Append(Seen[c], h)] /\ QP!Content # <<>>
    BY <1>5 DEF D!Delivers
  <2>3. h \in Items /\ h[2] <= sent[h[1]]
    BY <1>2, <1>5, <2>2, HeadIsSent
  <2> HIDE DEF h
  <2>4. D!WithinSent(Append(Seen[c], h), sent)
    <3>0. Seen[c] \in Seq(Items) /\ Len(Seen[c]) \in Nat
      BY <1>2, LenProperties
    <3>1. /\ Len(Append(Seen[c], h)) = Len(Seen[c]) + 1
          /\ \A i \in 1..Len(Seen[c]) : Append(Seen[c], h)[i] = Seen[c][i]
          /\ Append(Seen[c], h)[Len(Seen[c]) + 1] = h
      BY <2>3, <3>0, AppendProperties
    <3>2. \A i \in 1..(Len(Seen[c]) + 1) : i \in 1..Len(Seen[c]) \/ i = Len(Seen[c]) + 1
      BY <3>0
    <3> QED
      BY <2>3, <3>1, <3>2 DEF Delivered, D!WithinSent
  <2>5. Delivered'
    BY <1>2, <1>5, <2>2, <2>4 DEF Delivered
  <2> QED
    BY <2>1, <2>5
<1> QED
  BY <1>3, <1>4, <1>5, HNextCases, ProducerItems, ConsumerItems, MainItems

LEMMA AccountsInvariant == HSafeSpec => [](D!Accounts /\ Delivered)
<1>1. ASSUME HInit
      PROVE  Stored /\ D!Accounts /\ Delivered
  <2>1. /\ \A t \in QP!Threads : pc[t] = "idle"
        /\ QP!Content = <<>>
    <3>1. QP!Init
      BY <1>1, InitPlaces
    <3>2. QP!Content \in Seq(QP!Objects) /\ Len(QP!Content) = enqueue_pos - dequeue_pos
      BY <3>1, QP!InitHasRInv, QP!ContentIs, Instance
    <3>3. Len(QP!Content) = 0
      BY <3>1, <3>2 DEF QP!Init
    <3> QED
      BY <3>1, <3>2, <3>3, EmptySeq DEF QP!Init
  <2>2. \A p \in Producers : Claimed[p] = 0
    BY <1>1, <2>1, Threads DEF HInit, Claimed, QP!Producing
  <2>3. \A c \in Consumers : Seen[c] = <<>>
    BY <1>1, <2>1, Threads DEF HInit, Seen, QP!Consuming
  <2>4. D!Accounts
    BY <2>1, <2>2, <2>3, D!NoAccounts, DequeInstance
  <2>5. \A i \in 1..Len(<<>>) : FALSE
    OBVIOUS
  <2>6. Stored
    BY <2>1, Threads DEF Stored
  <2> QED
    BY <2>3, <2>4, <2>5, <2>6 DEF Delivered, D!WithinSent
<1>2. QP!RInv /\ QP!RInv' /\ Stored /\ [HNext]_hvars => Stored'
  BY StoredStep
<1>3. /\ QP!RInv /\ QP!RInv' /\ QP!Tended /\ (QP!Tended)'
      /\ Places /\ Stored /\ D!Accounts /\ Delivered /\ [HNext]_hvars
      => (D!Accounts)' /\ Delivered'
  BY AccountsStep
<1> QED
  BY <1>1, <1>2, <1>3, PlacesInvariant, PTL DEF HSafeSpec

\* What consumers have received was pushed before, each item went to one of them
\* once, and each of them sees the items of one producer in order: for any number of
\* threads and items and any capacity, wherever the threads are in their calls.
THEOREM ReceivedOnce == HSafeSpec => []ReceivedOnceInOrder
<1>1. ASSUME QP!RInv, QP!Tended, Places, D!Accounts, Delivered
      PROVE  ReceivedOnceInOrder
  <2>1. ASSUME NEW c \in Consumers
        PROVE  /\ Seen[c] \in Seq(Items) /\ received[c] \in Seq(Items)
               /\ DOMAIN received[c] = 1..Len(received[c])
               /\ 1..Len(received[c]) \subseteq 1..Len(Seen[c])
               /\ \A i \in 1..Len(received[c]) : Seen[c][i] = received[c][i]
    <3>1. Seen[c] \in Seq(Items) /\ received[c] \in Seq(Items)
      BY <1>1, ItemsHaveTypes, DequeInstance DEF D!ItemTypes, Places
    <3>2. DOMAIN received[c] = 1..Len(received[c]) /\ Len(received[c]) \in Nat
      BY <3>1, LenProperties
    <3>3. CASE QP!Consuming(c)
      <4>1. Seen[c] = Append(received[c], QP!Got[c])
        BY <3>3 DEF Seen
      <4> QED
        BY <3>1, <3>2, <4>1
    <3>4. CASE ~QP!Consuming(c)
      BY <3>1, <3>2, <3>4 DEF Seen
    <3> QED
      BY <3>3, <3>4
  <2>2. ASSUME NEW c \in Consumers, NEW i \in DOMAIN received[c]
        PROVE  \E p \in Producers : \E k \in 1..sent[p] : received[c][i] = <<p, k>>
    <3>1. i \in 1..Len(Seen[c]) /\ Seen[c][i] = received[c][i] /\ Seen[c][i] \in Items
      BY <2>1, ElementOfSeq
    <3>2. Seen[c][i][2] <= sent[Seen[c][i][1]]
      BY <1>1, <3>1 DEF Delivered, D!WithinSent
    <3>3. PICK p \in Producers, k \in 1..ItemsPerProducer : received[c][i] = <<p, k>>
      BY <3>1 DEF Items
    <3>4. k <= sent[p] /\ sent[p] \in Nat /\ k \in Nat /\ k >= 1
      BY <1>1, <3>1, <3>2, <3>3, AtomicHarnessAssumption DEF Places
    <3> QED
      BY <3>3, <3>4
  <2>3. ASSUME NEW c \in Consumers, NEW i \in DOMAIN received[c], NEW j \in DOMAIN received[c],
               i < j, received[c][i][1] = received[c][j][1]
        PROVE  received[c][i][2] < received[c][j][2]
    BY <1>1, <2>1, <2>3 DEF D!Accounts, D!Ordered
  <2>4. ASSUME NEW c \in Consumers, NEW d \in Consumers,
               NEW i \in DOMAIN received[c], NEW j \in DOMAIN received[d],
               received[c][i] = received[d][j]
        PROVE  c = d /\ i = j
    <3>1. c = d
      <4> SUFFICES ASSUME c # d PROVE FALSE
        OBVIOUS
      <4>1. ~D!Occurs(Seen[c][i], Seen[d])
        BY <1>1, <2>1 DEF D!Accounts
      <4> QED
        BY <2>1, <2>4, <4>1 DEF D!Occurs
    <3>2. received[c][i][2] \in Nat
      <4>1. received[c][i] \in Items
        BY <2>1, ElementOfSeq
      <4> QED
        BY <4>1 DEF Items
    <3>3. i \in 1..Len(received[c]) /\ j \in 1..Len(received[c])
      BY <2>1, <3>1
    <3>4. ~(i < j) /\ ~(j < i)
      BY <2>3, <2>4, <3>1, <3>2
    <3> QED
      BY <3>1, <3>3, <3>4
  <2> QED
    BY <2>2, <2>3, <2>4 DEF ReceivedOnceInOrder
<1> QED
  BY <1>1, PlacesInvariant, AccountsInvariant, PTL
=============================================================================
