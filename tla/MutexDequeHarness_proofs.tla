---------------------- MODULE MutexDequeHarness_proofs ----------------------
(***************************************************************************)
(* Safety of the clients of the unbounded queues, for any number of        *)
(* producers, consumers and items, and every version of the queue.         *)
(*                                                                         *)
(* Two arguments.  That the consumers are never all asleep beside an item  *)
(* is about pc, sleeping and the waiter count (Places, Counter, Drained).  *)
(* That every item arrives once and in order is about queue and received   *)
(* alone (Accounts); the steps that concern it are Produce and Receive.    *)
(***************************************************************************)
EXTENDS MutexDequeHarness, FiniteSetTheorems, SequenceTheorems, TLAPS

WaitingConsumers == {c \in Consumers : pc[c] = "wait"}

\* Types, and where each thread can be.
Places ==
  /\ version \in Versions /\ disciplined = FALSE
  /\ queue \in Seq(Items)
  /\ closed \in BOOLEAN
  /\ pc \in [Q!Threads -> Q!Locations]
  /\ \A c \in Consumers : pc[c] \in {"idle", "wait"}
  /\ \A t \in Q!Threads \ Consumers : pc[t] # "wait"
  /\ looping \subseteq Consumers
  /\ WaitingConsumers \subseteq looping
  /\ sleeping \subseteq WaitingConsumers
  /\ sent \in [Producers -> 0..ItemsPerProducer]
  /\ received \in [Consumers -> Seq(Items)]

\* The waiter count of the versions that have one.
Counter ==
  waiting_consumers = IF Q!CountsWaiters THEN Cardinality(WaitingConsumers) ELSE 0

\* Consumers stop when there is nothing left to come.
Drained == looping # Consumers => closed /\ queue = <<>>

\* A push, whatever the version: what it decides about the notification matters
\* only on an empty queue.
LEMMA ProduceEffect ==
  ASSUME Places, NEW p \in Producers, Produce(p)
  PROVE  /\ pc[p] = "idle" /\ ~closed /\ sent[p] < ItemsPerProducer
         /\ queue' = Append(queue, <<p, sent[p] + 1>>)
         /\ sent' = [sent EXCEPT ![p] = sent[p] + 1]
         /\ \E b \in BOOLEAN :
              /\ pc' = [pc EXCEPT ![p] = IF b THEN "notify_one" ELSE "idle"]
              /\ queue = <<>> /\ ~b => Q!CountsWaiters /\ ~(waiting_consumers > 0)
         /\ UNCHANGED <<version, disciplined, closed, waiting_consumers, sleeping, received, looping>>
<1> DEFINE item == <<p, sent[p] + 1>>
<1>1. Produce(p) => Q!Emplace(p, item) /\ sent' = [sent EXCEPT ![p] = sent[p] + 1]
                    /\ sent[p] < ItemsPerProducer /\ UNCHANGED <<received, looping>>
  BY DEF Produce
<1>2. PICK b \in BOOLEAN :
        /\ Q!PushUnderLock(p, item, b)
        /\ queue = <<>> /\ ~b => Q!CountsWaiters /\ ~(waiting_consumers > 0)
  <2>1. /\ TRUE \in BOOLEAN
        /\ (queue = <<>>) \in BOOLEAN
        /\ (queue = <<>> /\ waiting_consumers > 0) \in BOOLEAN
        /\ (waiting_consumers > 0) \in BOOLEAN
    OBVIOUS
  <2> QED
    BY <1>1, <2>1 DEF Q!Emplace, Q!EmplaceV1, Q!EmplaceV2, Q!EmplaceV3, Q!EmplaceMpmcV3,
       Q!CountsWaiters
<1> QED
  BY <1>1, <1>2 DEF Q!PushUnderLock, Q!Goto, Q!config

\* wait_pop returns, with an item or with false.
LEMMA ReturnEffect ==
  ASSUME Places, NEW c \in Consumers, Receive(c) \/ LeaveLoop(c)
  PROVE  /\ c \in looping /\ c \notin sleeping
         /\ pc' = [pc EXCEPT ![c] = "idle"]
         /\ waiting_consumers' = IF Q!CountsWaiters /\ pc[c] = "wait" THEN waiting_consumers - 1
                                                                      ELSE waiting_consumers
         /\ WaitingConsumers' = WaitingConsumers \ {c}
         /\ UNCHANGED <<version, disciplined, closed, sleeping, sent>>
<1>1. /\ c \in looping /\ Q!HasMutex(c)
      /\ pc' = [pc EXCEPT ![c] = "idle"]
      /\ waiting_consumers' = IF Q!CountsWaiters /\ pc[c] = "wait" THEN waiting_consumers - 1
                                                                   ELSE waiting_consumers
      /\ UNCHANGED <<version, disciplined, closed, sleeping, sent>>
  BY DEF Receive, LeaveLoop, Q!WaitPopTake, Q!WaitPopClosed, Q!CountOut, Q!Goto, Q!config
<1>2. c \notin sleeping
  BY <1>1 DEF Q!HasMutex, Q!Woken, Q!Waiting, Places, WaitingConsumers
<1>3. WaitingConsumers' = WaitingConsumers \ {c}
  BY <1>1 DEF WaitingConsumers, Places, Q!Threads
<1> QED
  BY <1>1, <1>2, <1>3

\* wait_pop goes to sleep.
LEMMA BlockEffect ==
  ASSUME Places, NEW c \in Consumers, Block(c)
  PROVE  /\ c \in looping /\ queue = <<>> /\ ~closed
         /\ sleeping' = sleeping \cup {c}
         /\ pc' = [pc EXCEPT ![c] = "wait"]
         /\ waiting_consumers' = IF Q!CountsWaiters /\ pc[c] = "idle" THEN waiting_consumers + 1
                                                                      ELSE waiting_consumers
         /\ WaitingConsumers' = WaitingConsumers \cup {c}
         /\ UNCHANGED <<version, disciplined, queue, closed, sent, received, looping>>
<1>1. /\ pc' = [pc EXCEPT ![c] = "wait"] /\ c \in looping
  BY DEF Block, Q!WaitPopSleep, Q!Goto
<1>2. WaitingConsumers' = WaitingConsumers \cup {c}
  BY <1>1 DEF WaitingConsumers, Places, Q!Threads
<1> QED
  BY <1>1, <1>2 DEF Block, Q!WaitPopSleep, Q!CountIn, Q!Goto, Q!config, client

\* Notifications, spurious wake-ups and close leave items and counts alone, and put
\* nobody to sleep.
Signals ==
  \/ \E p \in Producers : ProducerNotify(p)
  \/ \E c \in Consumers : Spurious(c)
  \/ CloseWhenJoined \/ CloseNotify

LEMMA SignalEffect ==
  ASSUME Places, Signals
  PROVE  /\ sleeping' \subseteq sleeping
         /\ closed' \in BOOLEAN /\ (closed => closed')
         /\ pc' \in [Q!Threads -> Q!Locations]
         /\ \A c \in Consumers : pc'[c] = pc[c]
         /\ \A t \in Q!Threads \ Consumers : pc'[t] # "wait"
         /\ WaitingConsumers' = WaitingConsumers
         /\ UNCHANGED <<version, disciplined, queue, waiting_consumers, sent, received, looping>>
<1> USE HarnessAssumption DEF Q!config, client, Q!Goto
<1>1. /\ closed' \in BOOLEAN /\ (closed => closed')
      /\ UNCHANGED <<version, disciplined, queue, waiting_consumers, sent, received, looping>>
  BY DEF Places, Signals, ProducerNotify, Spurious, CloseWhenJoined, CloseNotify,
     Q!NotifyAfterEmplace, Q!SpuriousWakeup, Q!Close, Q!NotifyAfterClose
<1>2. sleeping' \subseteq sleeping
  BY DEF Places, Signals, ProducerNotify, Spurious, CloseWhenJoined, CloseNotify,
     Q!NotifyAfterEmplace, Q!SpuriousWakeup, Q!Close, Q!NotifyAfterClose,
     Q!NotifyOne, Q!NotifyAll
<1>3. \E t \in (Producers \cup {Main}), l \in {"idle", "notify_all"} :
         pc' = [pc EXCEPT ![t] = l] \/ pc' = pc
  BY DEF Signals, ProducerNotify, Spurious, CloseWhenJoined, CloseNotify,
     Q!NotifyAfterEmplace, Q!SpuriousWakeup, Q!Close, Q!NotifyAfterClose
<1>4. /\ pc' \in [Q!Threads -> Q!Locations]
      /\ \A c \in Consumers : pc'[c] = pc[c]
      /\ \A t \in Q!Threads \ Consumers : pc'[t] # "wait"
  BY <1>3 DEF Places, Q!Threads, Q!Locations
<1>5. WaitingConsumers' = WaitingConsumers
  BY <1>4 DEF WaitingConsumers
<1> QED
  BY <1>1, <1>2, <1>4, <1>5

\* A step of the client is one of these.
LEMMA HNextCases ==
  ASSUME HNext
  PROVE  \/ \E p \in Producers : Produce(p)
         \/ \E c \in Consumers : Receive(c)
         \/ \E c \in Consumers : Block(c)
         \/ \E c \in Consumers : LeaveLoop(c)
         \/ Signals
BY DEF HNext, Signals

-----------------------------------------------------------------------------
(* Nobody is forgotten.                                                    *)

\* An item is a pair of its producer and its number.
LEMMA NextItem ==
  ASSUME Places, NEW p \in Producers, sent[p] < ItemsPerProducer
  PROVE  /\ <<p, sent[p] + 1>> \in Items
         /\ sent[p] \in Nat /\ sent[p] + 1 \in 0..ItemsPerProducer
BY HarnessAssumption DEF Places, Items

LEMMA PlacesStep ==
  ASSUME Places, [HNext]_hvars
  PROVE  Places'
<1>1. ASSUME NEW p \in Producers, Produce(p) PROVE Places'
  <2>1. p \in Q!Threads \ Consumers
    BY HarnessAssumption DEF Q!Threads
  <2>2. PICK b \in BOOLEAN : pc' = [pc EXCEPT ![p] = IF b THEN "notify_one" ELSE "idle"]
    BY <1>1, ProduceEffect
  <2>3. /\ pc' \in [Q!Threads -> Q!Locations]
        /\ \A c \in Consumers : pc'[c] = pc[c]
        /\ \A t \in Q!Threads \ Consumers : pc'[t] # "wait"
    BY <2>1, <2>2 DEF Places, Q!Threads, Q!Locations
  <2>4. WaitingConsumers' = WaitingConsumers
    BY <2>3 DEF WaitingConsumers
  <2>5. queue' \in Seq(Items) /\ sent' \in [Producers -> 0..ItemsPerProducer]
    <3>1. PICK item \in Items : queue' = Append(queue, item)
      BY <1>1, ProduceEffect, NextItem
    <3>2. queue' \in Seq(Items)
      BY <3>1 DEF Places
    <3>3. sent' \in [Producers -> 0..ItemsPerProducer]
      BY <1>1, ProduceEffect, NextItem DEF Places
    <3> QED
      BY <3>2, <3>3
  <2> QED
    BY <1>1, <2>3, <2>4, <2>5, ProduceEffect DEF Places
<1>2. ASSUME NEW c \in Consumers, Receive(c) \/ LeaveLoop(c) PROVE Places'
  <2>1. queue' \in Seq(Items) /\ received' \in [Consumers -> Seq(Items)]
    <3>1. CASE Receive(c)
      <4>1. queue # <<>> /\ queue' = Tail(queue)
            /\ received' = [received EXCEPT ![c] = Append(received[c], Head(queue))]
        BY <3>1 DEF Receive, Q!WaitPopTake
      <4> QED
        BY <4>1, HeadTailProperties DEF Places
    <3>2. CASE LeaveLoop(c)
      BY <3>2 DEF LeaveLoop, Q!WaitPopClosed, Places
    <3> QED
      BY <1>2, <3>1, <3>2
  <2>2. /\ pc' \in [Q!Threads -> Q!Locations]
        /\ \A d \in Consumers : pc'[d] \in {"idle", "wait"}
        /\ \A t \in Q!Threads \ Consumers : pc'[t] # "wait"
    BY <1>2, ReturnEffect DEF Places, Q!Threads, Q!Locations
  <2>3. looping' \in {looping, looping \ {c}}
    BY <1>2 DEF Receive, LeaveLoop
  <2> QED
    BY <1>2, <2>1, <2>2, <2>3, ReturnEffect DEF Places
<1>3. ASSUME NEW c \in Consumers, Block(c) PROVE Places'
  <2>1. /\ pc' \in [Q!Threads -> Q!Locations]
        /\ \A d \in Consumers : pc'[d] \in {"idle", "wait"}
        /\ \A t \in Q!Threads \ Consumers : pc'[t] # "wait"
    BY <1>3, BlockEffect DEF Places, Q!Threads, Q!Locations
  <2> QED
    BY <1>3, <2>1, BlockEffect DEF Places
<1>4. CASE Signals
  BY <1>4, SignalEffect DEF Places
<1>5. CASE UNCHANGED hvars
  BY <1>5 DEF Places, WaitingConsumers, hvars, qvars, client
<1> QED
  BY <1>1, <1>2, <1>3, <1>4, <1>5, HNextCases

LEMMA PlacesInvariant == HSafeSpec => []Places
<1>1. HInit => Places
  <2> SUFFICES ASSUME HInit PROVE Places
    OBVIOUS
  <2>1. pc \in [Q!Threads -> {"idle"}]
    BY DEF HInit, Q!Init
  <2>2. queue \in Seq(Items) /\ received \in [Consumers -> Seq(Items)]
    BY DEF HInit, Q!Init
  <2>3. sent \in [Producers -> 0..ItemsPerProducer]
    BY HarnessAssumption DEF HInit
  <2> QED
    BY <2>1, <2>2, <2>3 DEF HInit, Q!Init, Places, WaitingConsumers, Q!Threads, Q!Locations
<1>2. Places /\ [HNext]_hvars => Places'
  BY PlacesStep
<1> QED
  BY <1>1, <1>2, PTL DEF HSafeSpec

LEMMA Countable ==
  IsFiniteSet(WaitingConsumers) /\ Cardinality(WaitingConsumers) \in Nat
<1>1. WaitingConsumers \in SUBSET Consumers
  BY DEF WaitingConsumers
<1> QED
  BY <1>1, HarnessAssumption, FS_Subset, FS_CardinalityType

LEMMA CounterStep ==
  ASSUME Places, Counter, [HNext]_hvars
  PROVE  Counter'
<1> USE DEF Counter, Q!CountsWaiters
<1>1. ASSUME NEW p \in Producers, Produce(p) PROVE Counter'
  <2>1. WaitingConsumers' = WaitingConsumers
    BY <1>1, ProduceEffect, HarnessAssumption DEF WaitingConsumers, Places, Q!Threads
  <2> QED
    BY <1>1, <2>1, ProduceEffect
<1>2. ASSUME NEW c \in Consumers, Receive(c) \/ LeaveLoop(c) PROVE Counter'
  <2>1. Cardinality(WaitingConsumers \ {c}) =
          IF c \in WaitingConsumers THEN Cardinality(WaitingConsumers) - 1
                                    ELSE Cardinality(WaitingConsumers)
    BY Countable, FS_RemoveElement
  <2> QED
    BY <1>2, <2>1, ReturnEffect, Countable DEF WaitingConsumers
<1>3. ASSUME NEW c \in Consumers, Block(c) PROVE Counter'
  <2>1. Cardinality(WaitingConsumers \cup {c}) =
          IF c \in WaitingConsumers THEN Cardinality(WaitingConsumers)
                                    ELSE Cardinality(WaitingConsumers) + 1
    BY Countable, FS_AddElement
  <2>2. pc[c] = "idle" <=> c \notin WaitingConsumers
    BY DEF Places, WaitingConsumers
  <2> QED
    BY <1>3, <2>1, <2>2, BlockEffect, Countable
<1>4. CASE Signals
  BY <1>4, SignalEffect
<1>5. CASE UNCHANGED hvars
  BY <1>5 DEF WaitingConsumers, hvars, qvars, client
<1> QED
  BY <1>1, <1>2, <1>3, <1>4, <1>5, HNextCases

LEMMA CounterInvariant == HSafeSpec => []Counter
<1>1. HInit => Counter
  <2> SUFFICES ASSUME HInit PROVE Counter
    OBVIOUS
  <2>1. WaitingConsumers = {} /\ waiting_consumers = 0
    BY DEF HInit, Q!Init, WaitingConsumers, Q!Threads
  <2> QED
    BY <2>1, FS_EmptySet DEF Counter
<1>2. Places /\ Counter /\ [HNext]_hvars => Counter'
  BY CounterStep
<1> QED
  BY <1>1, <1>2, PlacesInvariant, PTL DEF HSafeSpec

\* A step that no consumer takes part in leaves the consumers in the loop.
LEMMA DrainedStep ==
  ASSUME Places, Drained, [HNext]_hvars
  PROVE  Drained'
<1>1. ASSUME NEW p \in Producers, Produce(p) PROVE Drained'
  BY <1>1, ProduceEffect DEF Drained
<1>2. ASSUME NEW c \in Consumers, Receive(c) PROVE Drained'
  BY <1>2 DEF Drained, Receive, Q!WaitPopTake
<1>3. ASSUME NEW c \in Consumers, Block(c) PROVE Drained'
  BY <1>3, BlockEffect DEF Drained
<1>4. ASSUME NEW c \in Consumers, LeaveLoop(c) PROVE Drained'
  BY <1>4 DEF Drained, LeaveLoop, Q!WaitPopClosed
<1>5. CASE Signals
  BY <1>5, SignalEffect DEF Drained
<1>6. CASE UNCHANGED hvars
  BY <1>6 DEF Drained, hvars, qvars, client
<1> QED
  BY <1>1, <1>2, <1>3, <1>4, <1>5, <1>6, HNextCases

\* No consumer leaves the loop before the queue is closed and empty.
LEMMA DrainedInvariant == HSafeSpec => []Drained
<1>1. HInit => Drained
  BY DEF HInit, Drained
<1>2. Places /\ Drained /\ [HNext]_hvars => Drained'
  BY DrainedStep
<1> QED
  BY <1>1, <1>2, PlacesInvariant, PTL DEF HSafeSpec

\* The client's variables and the queue's keep their types.
THEOREM TypeCorrect == HSafeSpec => []HTypeOK
<1>1. Places /\ Counter => HTypeOK
  <2> SUFFICES ASSUME Places, Counter PROVE HTypeOK
    OBVIOUS
  <2>1. waiting_consumers \in Nat
    BY Countable DEF Counter
  <2>2. disciplined \in BOOLEAN /\ sleeping \subseteq Q!Threads
    BY DEF Places, WaitingConsumers, Q!Threads
  <2> QED
    BY <2>1, <2>2 DEF Places, HTypeOK, Q!TypeOK
<1> QED
  BY <1>1, PlacesInvariant, CounterInvariant, PTL

\* Consumers that loop may share a queue that notifies on empty -> non-empty only,
\* as V2 and V3 do: however many producers, consumers and items there are, while an
\* item is in the queue some consumer is awake or a notification is on its way.
THEOREM NeverAllAsleep == HSafeSpec => []NotAllAsleep
<1>1. HInit => NotAllAsleep
  BY DEF HInit, Q!Init, NotAllAsleep
<1>2. ASSUME Places, Counter, Drained, NotAllAsleep, [HNext]_hvars
      PROVE  NotAllAsleep'
  <2> USE <1>2 DEF NotAllAsleep, AwakeConsumers
  <2>1. ASSUME NEW p \in Producers, Produce(p) PROVE NotAllAsleep'
    <3>1. PICK b \in BOOLEAN :
            /\ pc' = [pc EXCEPT ![p] = IF b THEN "notify_one" ELSE "idle"]
            /\ queue = <<>> /\ ~b => Q!CountsWaiters /\ ~(waiting_consumers > 0)
      BY <2>1, ProduceEffect
    <3>2. pc[p] = "idle" /\ p \in Q!Threads
      BY <2>1, ProduceEffect DEF Q!Threads
    <3>3. CASE b
      BY <3>1, <3>2, <3>3 DEF Q!Notifying, Places
    <3>4. CASE ~b /\ queue = <<>>
      <4>1. Cardinality(WaitingConsumers) = 0
        BY <3>1, <3>4, Countable DEF Counter
      <4>2. sleeping = {}
        BY <4>1, Countable, FS_EmptySet DEF Places
      <4>3. looping # {}
        BY <2>1, ProduceEffect, HarnessAssumption DEF Drained
      <4> QED
        BY <2>1, <4>2, <4>3, ProduceEffect
    <3>5. CASE ~b /\ queue # <<>>
      <4>1. Q!Notifying' = Q!Notifying
        BY <3>1, <3>2, <3>5 DEF Q!Notifying, Places
      <4> QED
        BY <2>1, <3>5, <4>1, ProduceEffect
    <3> QED
      BY <3>3, <3>4, <3>5
  <2>2. ASSUME NEW c \in Consumers, Receive(c) PROVE NotAllAsleep'
    BY <2>2, ReturnEffect DEF Receive
  <2>3. ASSUME NEW c \in Consumers, Block(c) PROVE NotAllAsleep'
    BY <2>3, BlockEffect
  <2>4. ASSUME NEW c \in Consumers, LeaveLoop(c) PROVE NotAllAsleep'
    BY <2>4 DEF LeaveLoop, Q!WaitPopClosed
  <2>5. ASSUME NEW p \in Producers, ProducerNotify(p) PROVE NotAllAsleep'
    <3>1. \/ sleeping = {}
          \/ \E c \in sleeping : sleeping' = sleeping \ {c}
      BY <2>5 DEF ProducerNotify, Q!NotifyAfterEmplace, Q!NotifyOne
    <3>2. CASE \E c \in sleeping : sleeping' = sleeping \ {c}
      BY <2>5, <3>2 DEF ProducerNotify, Places, client
    <3>3. CASE sleeping = {} /\ queue # <<>>
      <4>1. looping # {} /\ looping' = looping
        BY <2>5, <3>3, HarnessAssumption DEF Drained, ProducerNotify, client
      <4>2. sleeping' = {}
        BY <2>5, <3>3 DEF ProducerNotify, Q!NotifyAfterEmplace, Q!NotifyOne
      <4> QED
        BY <4>1, <4>2
    <3>4. CASE queue = <<>>
      BY <2>5, <3>4 DEF ProducerNotify, Q!NotifyAfterEmplace
    <3> QED
      BY <3>1, <3>2, <3>3, <3>4
  <2>6. ASSUME Signals, Q!Notifying \subseteq Q!Notifying' PROVE NotAllAsleep'
    BY <2>6, SignalEffect
  <2>7. ASSUME NEW c \in Consumers, Spurious(c) PROVE NotAllAsleep'
    BY <2>6, <2>7 DEF Signals, Spurious, Q!SpuriousWakeup, Q!Notifying
  <2>8. CASE CloseWhenJoined \/ CloseNotify
    <3>1. Q!Notifying \subseteq Q!Notifying'
      BY <2>8 DEF CloseWhenJoined, CloseNotify, Q!Close, Q!NotifyAfterClose, Q!Goto,
         Q!Notifying, Places
    <3> QED
      BY <2>6, <2>8, <3>1 DEF Signals
  <2>9. CASE UNCHANGED hvars
    BY <2>9 DEF hvars, qvars, client, Q!Notifying
  <2> QED
    BY <2>1, <2>2, <2>3, <2>4, <2>5, <2>7, <2>8, <2>9 DEF HNext
<1> QED
  BY <1>1, <1>2, PlacesInvariant, CounterInvariant, DrainedInvariant, PTL DEF HSafeSpec

-----------------------------------------------------------------------------
(* Every item arrives once, and in order.                                  *)

\* Items of one producer follow one another.
Ordered(s) == \A i, j \in 1..Len(s) : i < j /\ s[i][1] = s[j][1] => s[i][2] < s[j][2]

\* Those of s come before those of t.
Precedes(s, t) ==
  \A i \in 1..Len(s), j \in 1..Len(t) : s[i][1] = t[j][1] => s[i][2] < t[j][2]

\* s holds nothing beyond the numbers n of items that the producers have sent.
WithinSent(s, n) == \A i \in 1..Len(s) : s[i][2] <= n[s[i][1]]

Occurs(item, s) == \E i \in 1..Len(s) : s[i] = item

Accounts ==
  /\ Ordered(queue) /\ WithinSent(queue, sent)
  /\ \A c \in Consumers :
       Ordered(received[c]) /\ WithinSent(received[c], sent) /\ Precedes(received[c], queue)
  /\ \A c, d \in Consumers : c # d =>
       \A i \in 1..Len(received[c]) : ~Occurs(received[c][i], received[d])
  /\ \A p \in Producers, i \in 1..ItemsPerProducer : i <= sent[p] =>
       Occurs(<<p, i>>, queue) \/ \E c \in Consumers : Occurs(<<p, i>>, received[c])

LEMMA AppendFacts ==
  ASSUME NEW S, NEW s \in Seq(S), NEW e \in S
  PROVE  /\ Append(s, e) \in Seq(S)
         /\ Len(s) \in Nat /\ Len(Append(s, e)) = Len(s) + 1
         /\ \A i \in 1..Len(s) : Append(s, e)[i] = s[i] /\ s[i] \in S
         /\ Append(s, e)[Len(s) + 1] = e
OBVIOUS

LEMMA TailFacts ==
  ASSUME NEW S, NEW s \in Seq(S), s # <<>>
  PROVE  /\ Tail(s) \in Seq(S)
         /\ Len(s) \in Nat \ {0} /\ Len(Tail(s)) = Len(s) - 1
         /\ \A i \in 1..(Len(s) - 1) : Tail(s)[i] = s[i + 1]
         /\ Head(s) = s[1] /\ Head(s) \in S
BY HeadTailProperties, EmptySeq, LenProperties

LEMMA OrderedAppend ==
  ASSUME NEW s \in Seq(Items), NEW e \in Items, Ordered(s),
         \A i \in 1..Len(s) : s[i][1] = e[1] => s[i][2] < e[2]
  PROVE  Ordered(Append(s, e))
<1> SUFFICES ASSUME NEW i \in 1..(Len(s) + 1), NEW j \in 1..(Len(s) + 1), i < j,
                    Append(s, e)[i][1] = Append(s, e)[j][1]
             PROVE  Append(s, e)[i][2] < Append(s, e)[j][2]
  BY AppendFacts DEF Ordered
<1>1. i \in 1..Len(s) /\ (j \in 1..Len(s) \/ j = Len(s) + 1)
  BY AppendFacts
<1> QED
  BY <1>1, AppendFacts DEF Ordered

LEMMA OrderedTail ==
  ASSUME NEW s \in Seq(Items), s # <<>>, Ordered(s)
  PROVE  Ordered(Tail(s)) /\ Precedes(<<Head(s)>>, Tail(s))
<1>1. ASSUME NEW i \in 1..Len(Tail(s)), NEW j \in 1..Len(Tail(s)), i < j,
             Tail(s)[i][1] = Tail(s)[j][1]
      PROVE  Tail(s)[i][2] < Tail(s)[j][2]
  <2>1. /\ i + 1 \in 1..Len(s) /\ j + 1 \in 1..Len(s) /\ i + 1 < j + 1
        /\ Tail(s)[i] = s[i + 1] /\ Tail(s)[j] = s[j + 1]
    BY <1>1, TailFacts
  <2> QED
    BY <1>1, <2>1 DEF Ordered
<1>2. ASSUME NEW j \in 1..Len(Tail(s)), Head(s)[1] = Tail(s)[j][1]
      PROVE  Head(s)[2] < Tail(s)[j][2]
  <2>1. /\ 1 \in 1..Len(s) /\ j + 1 \in 1..Len(s) /\ 1 < j + 1
        /\ Head(s) = s[1] /\ Tail(s)[j] = s[j + 1]
    BY <1>2, TailFacts
  <2> QED
    BY <1>2, <2>1 DEF Ordered
<1>3. \A i \in 1..Len(<<Head(s)>>) : <<Head(s)>>[i] = Head(s)
  OBVIOUS
<1> QED
  BY <1>1, <1>2, <1>3 DEF Ordered, Precedes

LEMMA PrecedesAppend ==
  ASSUME NEW s \in Seq(Items), NEW t \in Seq(Items), NEW e \in Items, Precedes(s, t),
         \A i \in 1..Len(s) : s[i][1] = e[1] => s[i][2] < e[2]
  PROVE  Precedes(s, Append(t, e))
<1> SUFFICES ASSUME NEW i \in 1..Len(s), NEW j \in 1..(Len(t) + 1),
                    s[i][1] = Append(t, e)[j][1]
             PROVE  s[i][2] < Append(t, e)[j][2]
  BY AppendFacts DEF Precedes
<1>1. j \in 1..Len(t) \/ j = Len(t) + 1
  BY AppendFacts
<1> QED
  BY <1>1, AppendFacts DEF Precedes

LEMMA PrecedesTail ==
  ASSUME NEW s \in Seq(Items), NEW t \in Seq(Items), t # <<>>, Precedes(s, t)
  PROVE  Precedes(s, Tail(t))
<1> SUFFICES ASSUME NEW i \in 1..Len(s), NEW j \in 1..Len(Tail(t)), s[i][1] = Tail(t)[j][1]
             PROVE  s[i][2] < Tail(t)[j][2]
  BY DEF Precedes
<1>1. j + 1 \in 1..Len(t) /\ Tail(t)[j] = t[j + 1]
  BY TailFacts
<1> QED
  BY <1>1 DEF Precedes

\* The oldest queued item goes to the end of what its consumer has received.
LEMMA PrecedesMove ==
  ASSUME NEW s \in Seq(Items), NEW t \in Seq(Items), t # <<>>, Precedes(s, t), Ordered(t)
  PROVE  Precedes(Append(s, Head(t)), Tail(t))
<1> SUFFICES ASSUME NEW i \in 1..(Len(s) + 1), NEW j \in 1..Len(Tail(t)),
                    Append(s, Head(t))[i][1] = Tail(t)[j][1]
             PROVE  Append(s, Head(t))[i][2] < Tail(t)[j][2]
  BY AppendFacts, TailFacts DEF Precedes
<1>1. i \in 1..Len(s) \/ i = Len(s) + 1
  BY AppendFacts
<1>2. j + 1 \in 1..Len(t) /\ Tail(t)[j] = t[j + 1] /\ 1 \in 1..Len(t) /\ 1 < j + 1
  BY TailFacts
<1>3. Head(t) = t[1] /\ Head(t) \in Items
  BY TailFacts
<1> QED
  BY <1>1, <1>2, <1>3, AppendFacts DEF Precedes, Ordered

LEMMA OccursAppend ==
  ASSUME NEW s \in Seq(Items), NEW e \in Items, NEW item
  PROVE  Occurs(item, Append(s, e)) <=> Occurs(item, s) \/ item = e
<1>1. 1..(Len(s) + 1) = 1..Len(s) \cup {Len(s) + 1}
  BY AppendFacts
<1> QED
  BY <1>1, AppendFacts DEF Occurs

LEMMA OccursTail ==
  ASSUME NEW s \in Seq(Items), s # <<>>, NEW item
  PROVE  Occurs(item, s) <=> item = Head(s) \/ Occurs(item, Tail(s))
<1>1. ASSUME NEW i \in 1..Len(s) PROVE i = 1 \/ (i - 1 \in 1..Len(Tail(s)) /\ Tail(s)[i - 1] = s[i])
  BY TailFacts
<1>2. ASSUME NEW i \in 1..Len(Tail(s)) PROVE i + 1 \in 1..Len(s) /\ Tail(s)[i] = s[i + 1]
  BY TailFacts
<1>3. 1 \in 1..Len(s) /\ Head(s) = s[1]
  BY TailFacts
<1> QED
  BY <1>1, <1>2, <1>3 DEF Occurs

\* Of all this only the items count: what follows serves wherever a queue of items
\* has these types and changes in these two ways.
ItemTypes ==
  /\ queue \in Seq(Items)
  /\ received \in [Consumers -> Seq(Items)]
  /\ sent \in [Producers -> 0..ItemsPerProducer]

Sends(p) ==
  /\ sent[p] < ItemsPerProducer
  /\ queue' = Append(queue, <<p, sent[p] + 1>>)
  /\ sent' = [sent EXCEPT ![p] = sent[p] + 1]
  /\ received' = received

Delivers(c) ==
  /\ queue # <<>> /\ queue' = Tail(queue)
  /\ received' = [received EXCEPT ![c] = Append(received[c], Head(queue))]
  /\ sent' = sent

\* What is sent is queued.
LEMMA SendAccounts ==
  ASSUME ItemTypes, Accounts, NEW p \in Producers, Sends(p)
  PROVE  Accounts'
<1> DEFINE e == <<p, sent[p] + 1>>
<1>1. /\ sent[p] \in Nat /\ e \in Items
      /\ queue' = Append(queue, e) /\ received' = received
      /\ sent' = [sent EXCEPT ![p] = sent[p] + 1]
  BY HarnessAssumption DEF Items, ItemTypes, Sends
<1>2. /\ queue \in Seq(Items) /\ \A c \in Consumers : received[c] \in Seq(Items)
      /\ sent \in [Producers -> 0..ItemsPerProducer]
  BY DEF ItemTypes
<1>3. e[1] = p /\ e[2] = sent[p] + 1
  OBVIOUS
<1> HIDE DEF e
<1>4. ASSUME NEW s \in Seq(Items), WithinSent(s, sent)
      PROVE  /\ \A i \in 1..Len(s) : s[i][1] = e[1] => s[i][2] < e[2]
             /\ WithinSent(s, sent')
  <2> SUFFICES ASSUME NEW i \in 1..Len(s)
               PROVE  (s[i][1] = e[1] => s[i][2] < e[2]) /\ s[i][2] <= sent'[s[i][1]]
    BY DEF WithinSent
  <2>1. s[i] \in Items
    BY ElementOfSeq
  <2>2. s[i][1] \in Producers /\ s[i][2] \in Nat /\ s[i][2] <= sent[s[i][1]]
    BY <1>4, <2>1, HarnessAssumption DEF Items, WithinSent
  <2> QED
    BY <1>1, <1>2, <1>3, <2>2
<1>5. Ordered(queue') /\ WithinSent(queue', sent')
  <2>1. Ordered(queue')
    BY <1>1, <1>2, <1>4, OrderedAppend DEF Accounts
  <2>2. WithinSent(queue, sent')
    BY <1>2, <1>4 DEF Accounts
  <2>3. e[2] <= sent'[e[1]]
    BY <1>1, <1>2, <1>3
  <2>4. \A i \in 1..Len(queue') : i \in 1..Len(queue) \/ i = Len(queue) + 1
    BY <1>1, <1>2, AppendFacts
  <2>5. WithinSent(queue', sent')
    BY <1>1, <1>2, <2>2, <2>3, <2>4, AppendFacts DEF WithinSent
  <2> QED
    BY <2>1, <2>5
<1>6. ASSUME NEW c \in Consumers
      PROVE  /\ Ordered(received'[c]) /\ WithinSent(received'[c], sent')
             /\ Precedes(received'[c], queue')
  <2>1. Ordered(received[c]) /\ WithinSent(received[c], sent) /\ Precedes(received[c], queue)
    BY DEF Accounts
  <2> QED
    BY <1>1, <1>2, <1>4, <2>1, PrecedesAppend
<1>7. \A c, d \in Consumers : c # d =>
         \A i \in 1..Len(received'[c]) : ~Occurs(received'[c][i], received'[d])
  BY <1>1 DEF Accounts
<1>8. ASSUME NEW q \in Producers, NEW i \in 1..ItemsPerProducer, i <= sent'[q]
      PROVE  Occurs(<<q, i>>, queue') \/ \E c \in Consumers : Occurs(<<q, i>>, received'[c])
  <2>1. CASE i <= sent[q]
    <3>1. Occurs(<<q, i>>, queue) \/ \E c \in Consumers : Occurs(<<q, i>>, received[c])
      BY <2>1 DEF Accounts
    <3> QED
      BY <1>1, <1>2, <3>1, OccursAppend
  <2>2. CASE ~(i <= sent[q])
    <3>1. q = p /\ i = sent[p] + 1
      BY <1>1, <1>2, <1>8, <2>2
    <3>2. <<q, i>> = e
      BY <3>1 DEF e
    <3> QED
      BY <1>1, <1>2, <3>2, OccursAppend
  <2> QED
    BY <2>1, <2>2
<1> QED
  BY <1>5, <1>6, <1>7, <1>8 DEF Accounts

\* What leaves the queue arrives at one consumer.
LEMMA DeliverAccounts ==
  ASSUME ItemTypes, Accounts, NEW c \in Consumers, Delivers(c)
  PROVE  Accounts'
<1> DEFINE e == Head(queue)
<1>1. /\ queue # <<>> /\ queue' = Tail(queue) /\ sent' = sent
      /\ received' = [received EXCEPT ![c] = Append(received[c], e)]
  BY DEF Delivers
<1>2. /\ queue \in Seq(Items) /\ \A d \in Consumers : received[d] \in Seq(Items)
      /\ received \in [Consumers -> Seq(Items)] /\ e \in Items
      /\ Len(queue) \in Nat \ {0} /\ e = queue[1]
  BY <1>1, TailFacts DEF ItemTypes
<1>3. Occurs(e, queue) /\ \A d \in Consumers : ~Occurs(e, received[d])
  <2>1. 1 \in 1..Len(queue) /\ queue[1] = e
    BY <1>2
  <2>2. ASSUME NEW d \in Consumers, NEW i \in 1..Len(received[d]), received[d][i] = e
        PROVE  FALSE
    <3>1. e[2] < e[2]
      BY <2>1, <2>2 DEF Accounts, Precedes
    <3>2. e[2] \in Nat
      BY <1>2 DEF Items
    <3> QED
      BY <3>1, <3>2
  <2> QED
    BY <2>1, <2>2 DEF Occurs
<1> HIDE DEF e
<1>4. /\ received'[c] = Append(received[c], e)
      /\ \A d \in Consumers : d # c => received'[d] = received[d]
      /\ \A d \in Consumers : received'[d] \in Seq(Items)
  BY <1>1, <1>2, AppendFacts
<1>5. ASSUME NEW d \in Consumers, NEW item
      PROVE  Occurs(item, received'[d]) <=> Occurs(item, received[d]) \/ (d = c /\ item = e)
  <2>1. CASE d = c
    <3>1. Occurs(item, Append(received[c], e)) <=> Occurs(item, received[c]) \/ item = e
      BY <1>2, OccursAppend
    <3> QED
      BY <1>4, <2>1, <3>1
  <2>2. CASE d # c
    BY <1>4, <2>2
  <2> QED
    BY <2>1, <2>2
<1>6. Ordered(queue') /\ WithinSent(queue', sent')
  <2>1. Ordered(queue')
    BY <1>1, <1>2, OrderedTail DEF Accounts
  <2>2. \A i \in 1..Len(queue') : i + 1 \in 1..Len(queue) /\ queue'[i] = queue[i + 1]
    BY <1>1, <1>2, TailFacts
  <2>3. WithinSent(queue, sent)
    BY DEF Accounts
  <2> QED
    BY <1>1, <2>1, <2>2, <2>3 DEF WithinSent
<1>7. ASSUME NEW d \in Consumers
      PROVE  /\ Ordered(received'[d]) /\ WithinSent(received'[d], sent')
             /\ Precedes(received'[d], queue')
  <2>0. /\ Ordered(received[d]) /\ WithinSent(received[d], sent) /\ Precedes(received[d], queue)
        /\ Ordered(queue) /\ WithinSent(queue, sent)
    BY DEF Accounts
  <2>1. CASE d # c
    BY <1>1, <1>2, <1>4, <2>0, <2>1, PrecedesTail
  <2>2. CASE d = c
    <3>1. Precedes(received'[c], queue')
      BY <1>1, <1>2, <1>4, <2>0, <2>2, PrecedesMove DEF e
    <3>2. \A i \in 1..Len(received[c]) : received[c][i][1] = e[1] => received[c][i][2] < e[2]
      BY <1>2, <2>0, <2>2 DEF Precedes
    <3>3. Ordered(received'[c])
      BY <1>2, <1>4, <2>0, <2>2, <3>2, OrderedAppend
    <3>4. \A i \in 1..Len(received'[c]) : i \in 1..Len(received[c]) \/ i = Len(received[c]) + 1
      BY <1>2, <1>4, AppendFacts
    <3>5. e[2] <= sent[e[1]]
      BY <1>2, <2>0 DEF WithinSent
    <3>6. WithinSent(received'[c], sent')
      BY <1>1, <1>2, <1>4, <2>0, <2>2, <3>4, <3>5, AppendFacts DEF WithinSent
    <3> QED
      BY <2>2, <3>1, <3>3, <3>6
  <2> QED
    BY <2>1, <2>2
<1>8. ASSUME NEW a \in Consumers, NEW d \in Consumers, a # d, NEW i \in 1..Len(received'[a]),
             Occurs(received'[a][i], received'[d])
      PROVE  FALSE
  <2>0. \A k \in 1..Len(received[a]) : ~Occurs(received[a][k], received[d])
    BY <1>8 DEF Accounts
  <2>1. CASE a = c
    <3>1. received'[d] = received[d]
      BY <1>4, <1>8, <2>1
    <3>2. i \in 1..Len(received[c]) \/ (i = Len(received[c]) + 1 /\ received'[a][i] = e)
      BY <1>2, <1>4, <2>1, AppendFacts
    <3>3. i \in 1..Len(received[c]) => received'[a][i] = received[a][i]
      BY <1>2, <1>4, <2>1, AppendFacts
    <3> QED
      BY <1>3, <1>8, <2>0, <2>1, <3>1, <3>2, <3>3
  <2>2. CASE a # c
    <3>1. received'[a] = received[a]
      BY <1>4, <2>2
    <3>2. received[a][i] # e
      BY <1>3, <3>1 DEF Occurs
    <3>3. Occurs(received[a][i], received[d])
      BY <1>8, <1>5, <3>1, <3>2
    <3> QED
      BY <2>0, <3>1, <3>3
  <2> QED
    BY <2>1, <2>2
<1>9. ASSUME NEW q \in Producers, NEW i \in 1..ItemsPerProducer, i <= sent'[q]
      PROVE  Occurs(<<q, i>>, queue') \/ \E d \in Consumers : Occurs(<<q, i>>, received'[d])
  <2>1. Occurs(<<q, i>>, queue) \/ \E d \in Consumers : Occurs(<<q, i>>, received[d])
    BY <1>1, <1>9 DEF Accounts
  <2>2. Occurs(<<q, i>>, queue) => <<q, i>> = e \/ Occurs(<<q, i>>, queue')
    BY <1>1, <1>2, OccursTail DEF e
  <2>3. <<q, i>> = e => Occurs(<<q, i>>, received'[c])
    BY <1>5
  <2>4. \A d \in Consumers : Occurs(<<q, i>>, received[d]) => Occurs(<<q, i>>, received'[d])
    BY <1>5
  <2> QED
    BY <2>1, <2>2, <2>3, <2>4
<1> QED
  BY <1>6, <1>7, <1>8, <1>9 DEF Accounts

\* The two steps of the client that move items.
LEMMA ProduceAccounts ==
  ASSUME Places, Accounts, NEW p \in Producers, Produce(p)
  PROVE  Accounts'
BY ProduceEffect, SendAccounts DEF Places, Sends, ItemTypes, Produce

LEMMA ReceiveAccounts ==
  ASSUME Places, Accounts, NEW c \in Consumers, Receive(c)
  PROVE  Accounts'
BY DeliverAccounts DEF Places, Receive, Q!WaitPopTake, ItemTypes, Delivers

LEMMA NoAccounts ==
  ASSUME queue = <<>>, \A c \in Consumers : received[c] = <<>>, \A p \in Producers : sent[p] = 0
  PROVE  Accounts
<1>1. \A i \in 1..Len(<<>>) : FALSE
  OBVIOUS
<1> QED
  BY <1>1 DEF Accounts, Ordered, WithinSent, Precedes

LEMMA AccountsInvariant == HSafeSpec => []Accounts
<1>1. HInit => Accounts
  BY NoAccounts DEF HInit, Q!Init
<1>2. ASSUME Places, Accounts, [HNext]_hvars PROVE Accounts'
  <2>1. ASSUME UNCHANGED <<queue, received, sent>> PROVE Accounts'
    BY <1>2, <2>1 DEF Accounts
  <2>2. ASSUME NEW c \in Consumers, Block(c) \/ LeaveLoop(c) PROVE Accounts'
    BY <2>1, <2>2 DEF Block, LeaveLoop, Q!WaitPopSleep, Q!WaitPopClosed, client
  <2>3. CASE Signals
    BY <1>2, <2>1, <2>3, SignalEffect
  <2>4. CASE UNCHANGED hvars
    BY <2>1, <2>4 DEF hvars, qvars, client
  <2> QED
    BY <1>2, <2>2, <2>3, <2>4, ProduceAccounts, ReceiveAccounts, HNextCases
<1> QED
  BY <1>1, <1>2, PlacesInvariant, PTL DEF HSafeSpec

\* Every consumer receives the items of one producer in the order of their numbers,
\* and what is still queued comes later, for any number of threads: two consumers
\* may overtake each other, never the queue.
THEOREM OrderIsKept == HSafeSpec => []PerProducerOrder
<1>1. ASSUME Places, Accounts PROVE PerProducerOrder
  <2> SUFFICES ASSUME NEW c \in Consumers,
                      NEW i \in DOMAIN (received[c] \o queue),
                      NEW j \in DOMAIN (received[c] \o queue),
                      i < j, (received[c] \o queue)[i][1] = (received[c] \o queue)[j][1]
               PROVE  (received[c] \o queue)[i][2] < (received[c] \o queue)[j][2]
    BY DEF PerProducerOrder
  <2> DEFINE s == received[c]
             seen == s \o queue
  <2>1. s \in Seq(Items) /\ queue \in Seq(Items) /\ seen \in Seq(Items)
    BY <1>1, ConcatProperties DEF Places
  <2>2. /\ Len(s) \in Nat /\ Len(queue) \in Nat
        /\ DOMAIN seen = 1..(Len(s) + Len(queue))
        /\ \A k \in 1..(Len(s) + Len(queue)) :
              seen[k] = IF k <= Len(s) THEN s[k] ELSE queue[k - Len(s)]
    BY <2>1, ConcatProperties, LenProperties
  <2>3. Ordered(s) /\ Ordered(queue) /\ Precedes(s, queue)
    BY <1>1 DEF Accounts
  <2>4. i \in 1..(Len(s) + Len(queue)) /\ j \in 1..(Len(s) + Len(queue))
    BY <2>2
  <2> HIDE DEF s
  <2>5. CASE j <= Len(s)
    <3>1. i \in 1..Len(s) /\ j \in 1..Len(s) /\ seen[i] = s[i] /\ seen[j] = s[j]
      BY <2>2, <2>4, <2>5
    <3> QED
      BY <2>3, <3>1 DEF Ordered, s
  <2>6. CASE i <= Len(s) /\ ~(j <= Len(s))
    <3>1. i \in 1..Len(s) /\ j - Len(s) \in 1..Len(queue) /\ seen[i] = s[i] /\ seen[j] = queue[j - Len(s)]
      BY <2>2, <2>4, <2>6
    <3> QED
      BY <2>3, <3>1 DEF Precedes, s
  <2>7. CASE ~(i <= Len(s)) /\ ~(j <= Len(s))
    <3>1. /\ i - Len(s) \in 1..Len(queue) /\ j - Len(s) \in 1..Len(queue)
          /\ i - Len(s) < j - Len(s)
          /\ seen[i] = queue[i - Len(s)] /\ seen[j] = queue[j - Len(s)]
      BY <2>2, <2>4, <2>7
    <3> QED
      BY <2>3, <3>1 DEF Ordered, s
  <2> QED
    BY <2>2, <2>4, <2>5, <2>6, <2>7
<1> QED
  BY <1>1, PlacesInvariant, AccountsInvariant, PTL

\* A consumer cannot have received more items than there are.
LEMMA ReceivedIsShort ==
  ASSUME Places, Accounts, NEW c \in Consumers
  PROVE  /\ IsFiniteSet(Items) /\ Cardinality(Items) \in Nat
         /\ Len(received[c]) \in Nat /\ Len(received[c]) <= Cardinality(Items)
<1> DEFINE s == received[c]
<1>1. IsFiniteSet(Items)
  <2>1. IsFiniteSet(1..ItemsPerProducer)
    BY HarnessAssumption, FS_Interval
  <2> QED
    BY <2>1, HarnessAssumption, FS_Product DEF Items
<1>2. s \in [1..Len(s) -> Items] /\ Len(s) \in Nat
  BY LenProperties DEF Places
<1>3. ASSUME NEW i \in 1..Len(s), NEW j \in 1..Len(s), s[i] = s[j], i < j
      PROVE  FALSE
  <2>1. s[i][2] < s[j][2]
    BY <1>3 DEF Accounts, Ordered
  <2>2. s[i] \in Items
    BY <1>2
  <2>3. s[i][2] \in Nat
    BY <2>2 DEF Items
  <2> QED
    BY <1>3, <2>1, <2>3
<1>4. \A i, j \in 1..Len(s) : s[i] = s[j] => i = j
  <2>1. \A i, j \in 1..Len(s) : i < j \/ i = j \/ j < i
    BY <1>2
  <2> QED
    BY <1>3, <2>1
<1> HIDE DEF s
<1>5. s \in Injection(1..Len(s), Items)
  BY <1>2, <1>4 DEF Injection, IsInjective
<1>6. Cardinality(1..Len(s)) = Len(s) /\ Cardinality(1..Len(s)) <= Cardinality(Items)
  <2>1. Cardinality(1..Len(s)) <= Cardinality(Items)
    BY <1>1, <1>5, FS_Injection
  <2>2. Cardinality(1..Len(s)) = IF 1 > Len(s) THEN 0 ELSE Len(s) - 1 + 1
    BY <1>2, FS_Interval
  <2> QED
    BY <1>2, <2>1, <2>2
<1> QED
  BY <1>1, <1>2, <1>6, FS_CardinalityType DEF s

\* Every item pushed is in the queue or with one consumer, exactly once, and none is
\* left in the queue when a consumer goes: total_count and total_sum of the tests
\* come out right for every version and any number of threads and items.
THEOREM NothingLostOrDoubled == HSafeSpec => []ConservedItems
<1>1. ASSUME Places, Accounts, NEW p \in Producers, NEW i \in 1..ItemsPerProducer
      PROVE  Copies(<<p, i>>) = IF i <= sent[p] THEN 1 ELSE 0
  <2> DEFINE item == <<p, i>>
             Queued == {j \in DOMAIN queue : queue[j] = item}
             Held == {at \in Consumers \X (1..Cardinality(Items)) :
                        at[2] \in DOMAIN received[at[1]] /\ received[at[1]][at[2]] = item}
  <2>1. Copies(item) = Cardinality(Queued) + Cardinality(Held)
    BY DEF Copies
  <2>2. /\ DOMAIN queue = 1..Len(queue)
        /\ \A c \in Consumers : DOMAIN received[c] = 1..Len(received[c])
    BY <1>1, LenProperties DEF Places
  <2>3. i \in Nat /\ sent[p] \in Nat /\ item[1] = p /\ item[2] = i
    BY <1>1 DEF Places
  <2> HIDE DEF item
  <2>4. Occurs(item, queue) => i <= sent[p] /\ Held = {} /\ \E j : Queued = {j}
    <3> SUFFICES ASSUME NEW j \in 1..Len(queue), queue[j] = item
                 PROVE  i <= sent[p] /\ Held = {} /\ Queued = {j}
      BY DEF Occurs
    <3>1. i <= sent[p]
      BY <1>1, <2>3 DEF Accounts, WithinSent
    <3>2. Held = {}
      <4> SUFFICES ASSUME NEW at \in Held
                   PROVE  FALSE
        OBVIOUS
      <4>1. at[1] \in Consumers /\ at[2] \in 1..Len(received[at[1]]) /\ received[at[1]][at[2]] = item
        BY <2>2
      <4>2. item[2] < item[2]
        BY <1>1, <4>1 DEF Accounts, Precedes
      <4> QED
        BY <2>3, <4>2
    <3>3. ASSUME NEW k \in Queued, k # j
          PROVE  FALSE
      <4>1. k \in 1..Len(queue) /\ queue[k] = item
        BY <2>2
      <4>2. k < j \/ j < k
        BY <3>3, <4>1
      <4>3. item[2] < item[2]
        BY <1>1, <4>1, <4>2 DEF Accounts, Ordered
      <4> QED
        BY <2>3, <4>3
    <3> QED
      BY <2>2, <3>1, <3>2, <3>3
  <2>5. ASSUME NEW c \in Consumers, Occurs(item, received[c])
        PROVE  i <= sent[p] /\ Queued = {} /\ \E at : Held = {at}
    <3>1. PICK j \in 1..Len(received[c]) : received[c][j] = item
      BY <2>5 DEF Occurs
    <3>2. i <= sent[p]
      BY <1>1, <2>3, <3>1 DEF Accounts, WithinSent
    <3>3. Queued = {}
      <4> SUFFICES ASSUME NEW k \in Queued
                   PROVE  FALSE
        OBVIOUS
      <4>1. k \in 1..Len(queue) /\ queue[k] = item
        BY <2>2
      <4>2. item[2] < item[2]
        BY <1>1, <3>1, <4>1 DEF Accounts, Precedes
      <4> QED
        BY <2>3, <4>2
    <3>4. <<c, j>> \in Held
      <4>1. j \in 1..Cardinality(Items)
        BY <1>1, ReceivedIsShort
      <4> QED
        BY <2>2, <3>1, <4>1
    <3>5. ASSUME NEW at \in Held
          PROVE  at = <<c, j>>
      <4>1. /\ at = <<at[1], at[2]>> /\ at[1] \in Consumers
            /\ at[2] \in 1..Len(received[at[1]]) /\ received[at[1]][at[2]] = item
        BY <2>2
      <4>2. at[1] = c
        BY <1>1, <2>5, <4>1 DEF Accounts
      <4>3. ~(at[2] < j) /\ ~(j < at[2])
        <5>1. at[2] < j \/ j < at[2] => item[2] < item[2]
          BY <1>1, <3>1, <4>1, <4>2 DEF Accounts, Ordered
        <5> QED
          BY <2>3, <5>1
      <4>4. at[2] = j
        BY <4>1, <4>2, <4>3
      <4> QED
        BY <4>1, <4>2, <4>4
    <3> QED
      BY <3>2, <3>3, <3>4, <3>5
  <2>6. ASSUME ~Occurs(item, queue), \A c \in Consumers : ~Occurs(item, received[c])
        PROVE  Queued = {} /\ Held = {} /\ ~(i <= sent[p])
    <3>1. Queued = {}
      BY <2>2, <2>6 DEF Occurs
    <3>2. Held = {}
      BY <2>2, <2>6 DEF Occurs
    <3>3. ~(i <= sent[p])
      BY <1>1, <2>6 DEF Accounts, item
    <3> QED
      BY <3>1, <3>2, <3>3
  <2> HIDE DEF Queued, Held
  <2>7. Cardinality({}) = 0 /\ \A x : Cardinality({x}) = 1
    BY FS_EmptySet, FS_Singleton
  <2>8. CASE i <= sent[p]
    <3>1. \/ Held = {} /\ \E j : Queued = {j}
          \/ Queued = {} /\ \E at : Held = {at}
      BY <2>4, <2>5, <2>6, <2>8
    <3>2. \/ Cardinality(Queued) = 1 /\ Cardinality(Held) = 0
          \/ Cardinality(Queued) = 0 /\ Cardinality(Held) = 1
      BY <2>7, <3>1
    <3>3. Cardinality(Queued) + Cardinality(Held) = 1
      BY <3>2
    <3> QED
      BY <2>1, <2>8, <3>3 DEF item
  <2>9. CASE ~(i <= sent[p])
    <3>1. Cardinality(Queued) + Cardinality(Held) = 0
      BY <2>4, <2>5, <2>6, <2>7, <2>9
    <3> QED
      BY <2>1, <2>9, <3>1 DEF item
  <2> QED
    BY <2>8, <2>9
<1>2. ASSUME Places, Accounts, Drained PROVE ConservedItems
  BY <1>1, <1>2 DEF ConservedItems, Drained
<1> QED
  BY <1>2, PlacesInvariant, AccountsInvariant, DrainedInvariant, PTL
=============================================================================
