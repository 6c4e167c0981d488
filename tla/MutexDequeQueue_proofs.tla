----------------------- MODULE MutexDequeQueue_proofs -----------------------
(***************************************************************************)
(* Safety of the unbounded blocking queues, for any number of threads, any *)
(* payloads and every version.                                             *)
(*                                                                         *)
(* The argument goes by what each step does to three sets of threads,      *)
(* Waiting (inside wait()), Woken (of these, the ones not asleep) and      *)
(* Notifying (about to call notify_one).  A first group of lemmas says     *)
(* that; counting then gives the invariants.                               *)
(***************************************************************************)
EXTENDS MutexDequeQueue, FiniteSetTheorems, SequenceTheorems, TLAPS

USE DEF config

\* What the other invariants rest on: types, and only threads inside wait()
\* are asleep.
Shape ==
  /\ version \in Versions /\ disciplined \in BOOLEAN
  /\ queue \in Seq(Values)
  /\ closed \in BOOLEAN
  /\ pc \in [Threads -> Locations]
  /\ sleeping \subseteq Waiting

\* waiting_consumers_ is the number of threads inside wait(), or is no member.
Counter == waiting_consumers = IF CountsWaiters THEN Cardinality(Waiting) ELSE 0

\* A step of some thread, with the disjuncts of Next named one by one.
LEMMA NextCases ==
  ASSUME Next
  PROVE  \/ \E t \in Threads, v \in Values, b \in BOOLEAN :
              /\ PushUnderLock(t, v, b)
              /\ version = "V1" => b
              /\ version = "V2" => (b <=> queue = <<>>)
              /\ version = "V3" => (b <=> (queue = <<>> /\ waiting_consumers > 0))
              /\ version = "MpmcV3" => (b <=> waiting_consumers > 0)
         \/ \E t \in Threads : NotifyAfterEmplace(t)
         \/ \E c \in Consumers : WaitPopTake(c)
         \/ \E c \in Consumers : c \in ConsumersInUse /\ WaitPopSleep(c)
         \/ \E c \in Consumers : WaitPopClosed(c)
         \/ \E c \in Consumers : WaitPopThrows(c)
         \/ \E c \in Consumers : SpuriousWakeup(c)
         \/ \E c \in Consumers : TryPop(c)
         \/ \E t \in Threads : Close(t)
         \/ \E t \in Threads : NotifyAfterClose(t)
<1> USE DEF Threads
<1>0. ConsumersInUse \subseteq Consumers
  BY ConsumerAssumption DEF ConsumersInUse
<1>1. CASE \E t \in Producers, v \in Values : EmplaceV1(t, v)
  BY <1>1 DEF EmplaceV1
<1>2. CASE \E t \in Producers, v \in Values : EmplaceV2(t, v)
  <2>1. PICK t \in Producers, v \in Values : EmplaceV2(t, v)
    BY <1>2
  <2>2. (queue = <<>>) \in BOOLEAN
    OBVIOUS
  <2> QED
    BY <2>1, <2>2 DEF EmplaceV2
<1>3. CASE \E t \in Producers, v \in Values : EmplaceV3(t, v)
  <2>1. PICK t \in Producers, v \in Values : EmplaceV3(t, v)
    BY <1>3
  <2>2. (queue = <<>> /\ waiting_consumers > 0) \in BOOLEAN
    OBVIOUS
  <2> QED
    BY <2>1, <2>2 DEF EmplaceV3
<1>4. CASE \E t \in Producers, v \in Values : EmplaceMpmcV3(t, v)
  <2>1. PICK t \in Producers, v \in Values : EmplaceMpmcV3(t, v)
    BY <1>4
  <2>2. (waiting_consumers > 0) \in BOOLEAN
    OBVIOUS
  <2> QED
    BY <2>1, <2>2 DEF EmplaceMpmcV3
<1>5. CASE \E t \in Producers : NotifyAfterEmplace(t)
  BY <1>5
<1>6. CASE \E c \in ConsumersInUse : WaitPop(c) \/ WaitPopThrows(c) \/ TryPop(c) \/ SpuriousWakeup(c)
  BY <1>0, <1>6 DEF WaitPop
<1>7. CASE \E t \in Closers : Close(t) \/ NotifyAfterClose(t)
  BY <1>7
<1> QED
  BY <1>1, <1>2, <1>3, <1>4, <1>5, <1>6, <1>7 DEF Next, Emplace

-----------------------------------------------------------------------------
(* What each step does to the sets of threads.                             *)

\* emplace: at most one more thread is about to notify.
LEMMA SetsAfterPush ==
  ASSUME Shape, NEW t \in Threads, NEW v \in Values, NEW b \in BOOLEAN,
         PushUnderLock(t, v, b)
  PROVE  /\ Shape'
         /\ Waiting' = Waiting
         /\ Woken' = Woken
         /\ t \notin Notifying
         /\ Notifying' = IF b THEN Notifying \cup {t} ELSE Notifying
<1>1. pc' = [pc EXCEPT ![t] = IF b THEN "notify_one" ELSE "idle"] /\ pc[t] = "idle"
  BY DEF PushUnderLock, Goto
<1>2. queue' \in Seq(Values)
  BY DEF PushUnderLock, Shape
<1>3. Waiting' = Waiting /\ sleeping' = sleeping
  BY <1>1 DEF Waiting, Shape, PushUnderLock
<1>4. pc' \in [Threads -> Locations]
  BY <1>1 DEF Shape, Locations
<1>5. Notifying' = IF b THEN Notifying \cup {t} ELSE Notifying
  BY <1>1 DEF Notifying, Shape
<1> QED
  BY <1>1, <1>2, <1>3, <1>4, <1>5 DEF Shape, PushUnderLock, Notifying, Woken

\* notify_one: one notification less, one woken thread more if anybody slept.
LEMMA SetsAfterNotifyOne ==
  ASSUME Shape, NEW t \in Threads, NotifyAfterEmplace(t)
  PROVE  /\ Shape'
         /\ Waiting' = Waiting
         /\ t \in Notifying
         /\ Notifying' = Notifying \ {t}
         /\ \/ sleeping = {} /\ sleeping' = {} /\ Woken' = Woken
            \/ \E c \in sleeping : /\ sleeping' = sleeping \ {c}
                                   /\ c \notin Woken
                                   /\ Woken' = Woken \cup {c}
<1>1. pc' = [pc EXCEPT ![t] = "idle"] /\ pc[t] = "notify_one"
  BY DEF NotifyAfterEmplace, Goto
<1>2. Waiting' = Waiting
  BY <1>1 DEF Waiting, Shape
<1>3. Notifying' = Notifying \ {t} /\ t \in Notifying
  BY <1>1 DEF Notifying, Shape
<1>4. pc' \in [Threads -> Locations]
  BY <1>1 DEF Shape, Locations
<1>5. CASE sleeping = {}
  BY <1>2, <1>3, <1>4, <1>5 DEF NotifyAfterEmplace, NotifyOne, Shape, Woken
<1>6. CASE sleeping # {}
  <2>1. PICK c \in sleeping : sleeping' = sleeping \ {c}
    BY <1>6 DEF NotifyAfterEmplace, NotifyOne
  <2> QED
    BY <2>1, <1>2, <1>3, <1>4 DEF NotifyAfterEmplace, Shape, Woken
<1> QED
  BY <1>5, <1>6

\* wait_pop comes back, with an item, with false or with an exception.
LEMMA SetsAfterReturn ==
  ASSUME Shape, NEW c \in Consumers, WaitPopTake(c) \/ WaitPopClosed(c) \/ WaitPopThrows(c)
  PROVE  /\ Shape'
         /\ c \notin sleeping
         /\ sleeping' = sleeping
         /\ Waiting' = Waiting \ {c}
         /\ Woken' = Woken \ {c}
         /\ Notifying' = Notifying
<1>1. /\ pc' = [pc EXCEPT ![c] = "idle"]
      /\ sleeping' = sleeping
      /\ closed' = closed
      /\ version' = version /\ disciplined' = disciplined
      /\ HasMutex(c)
  BY DEF WaitPopTake, WaitPopClosed, WaitPopThrows, HasMutex, Goto
<1>2. c \notin sleeping /\ c \in Threads /\ pc[c] \in {"idle", "wait"}
  BY <1>1 DEF HasMutex, Woken, Waiting, Shape, Threads
<1>3. queue' \in Seq(Values)
  BY DEF WaitPopTake, WaitPopClosed, WaitPopThrows, Shape
<1>4. Waiting' = Waiting \ {c}
  BY <1>1, <1>2 DEF Waiting, Shape
<1>5. Notifying' = Notifying
  BY <1>1, <1>2 DEF Notifying, Shape
<1>6. pc' \in [Threads -> Locations]
  BY <1>1, <1>2 DEF Shape, Locations
<1> QED
  BY <1>1, <1>2, <1>3, <1>4, <1>5, <1>6 DEF Shape, Woken

\* wait_pop falls asleep, for the first time or again.
LEMMA SetsAfterSleep ==
  ASSUME Shape, NEW c \in Consumers, WaitPopSleep(c)
  PROVE  /\ Shape'
         /\ queue' = <<>>
         /\ Waiting' = Waiting \cup {c}
         /\ Notifying' = Notifying
<1>1. pc' = [pc EXCEPT ![c] = "wait"] /\ HasMutex(c)
  BY DEF WaitPopSleep, Goto
<1>2. c \in Threads /\ pc[c] \in {"idle", "wait"}
  BY <1>1 DEF HasMutex, Woken, Waiting, Threads
<1>3. Waiting' = Waiting \cup {c}
  BY <1>1, <1>2 DEF Waiting, Shape
<1>4. Notifying' = Notifying
  BY <1>1, <1>2 DEF Notifying, Shape
<1>5. pc' \in [Threads -> Locations]
  BY <1>1, <1>2 DEF Shape, Locations
<1> QED
  BY <1>1, <1>3, <1>4, <1>5 DEF Shape, WaitPopSleep

\* A spurious wake-up adds a woken thread.
LEMMA SetsAfterSpurious ==
  ASSUME Shape, NEW c \in Consumers, SpuriousWakeup(c)
  PROVE  /\ Shape'
         /\ Waiting' = Waiting
         /\ Notifying' = Notifying
         /\ c \notin Woken
         /\ Woken' = Woken \cup {c}
BY DEF SpuriousWakeup, Shape, Waiting, Woken, Notifying

\* try_pop touches nobody.
LEMMA SetsAfterTryPop ==
  ASSUME Shape, NEW c \in Consumers, TryPop(c)
  PROVE  /\ Shape'
         /\ Waiting' = Waiting
         /\ Notifying' = Notifying
         /\ Woken' = Woken
<1>1. queue' \in Seq(Values)
  BY DEF TryPop, Shape
<1> QED
  BY <1>1 DEF TryPop, Shape, Waiting, Woken, Notifying

\* close sets closed_ and is about to notify.
LEMMA SetsAfterClose ==
  ASSUME Shape, NEW t \in Threads, Close(t)
  PROVE  /\ Shape'
         /\ Waiting' = Waiting
         /\ Notifying' = Notifying
         /\ Woken' = Woken
<1>1. pc' = [pc EXCEPT ![t] = "notify_all"] /\ pc[t] = "idle"
  BY DEF Close, Goto
<1>2. Waiting' = Waiting /\ Notifying' = Notifying
  BY <1>1 DEF Waiting, Notifying, Shape
<1>3. pc' \in [Threads -> Locations]
  BY <1>1 DEF Shape, Locations
<1> QED
  BY <1>2, <1>3 DEF Close, Shape, Woken

\* notify_all leaves nobody asleep.
LEMMA SetsAfterNotifyAll ==
  ASSUME Shape, NEW t \in Threads, NotifyAfterClose(t)
  PROVE  /\ Shape'
         /\ sleeping' = {}
         /\ Waiting' = Waiting
         /\ Notifying' = Notifying
<1>1. pc' = [pc EXCEPT ![t] = "idle"] /\ pc[t] = "notify_all"
  BY DEF NotifyAfterClose, Goto
<1>2. Waiting' = Waiting /\ Notifying' = Notifying
  BY <1>1 DEF Waiting, Notifying, Shape
<1>3. pc' \in [Threads -> Locations]
  BY <1>1 DEF Shape, Locations
<1> QED
  BY <1>2, <1>3 DEF NotifyAfterClose, NotifyAll, Shape

\* Nothing happens.
LEMMA SetsAfterStutter ==
  ASSUME Shape, UNCHANGED vars
  PROVE  Shape' /\ Waiting' = Waiting /\ Notifying' = Notifying /\ Woken' = Woken
BY DEF vars, Shape, Waiting, Woken, Notifying

\* The class of an object never changes, nor do the habits of its clients.
LEMMA VersionFixed ==
  ASSUME [Next]_vars
  PROVE  version' = version /\ disciplined' = disciplined
<1> USE DEF PushUnderLock, NotifyAfterEmplace, WaitPopTake, WaitPopSleep, WaitPopClosed,
            WaitPopThrows, SpuriousWakeup, TryPop, Close, NotifyAfterClose
<1>1. CASE Next
  BY <1>1, NextCases
<1>2. CASE UNCHANGED vars
  BY <1>2 DEF vars
<1> QED
  BY <1>1, <1>2

-----------------------------------------------------------------------------
(* Invariants.                                                             *)

\* Shape holds in every run.
LEMMA ShapeStep ==
  ASSUME Shape, [Next]_vars
  PROVE  Shape'
<1>1. CASE Next
  BY <1>1, NextCases, SetsAfterPush, SetsAfterNotifyOne, SetsAfterReturn,
     SetsAfterSleep, SetsAfterSpurious, SetsAfterTryPop, SetsAfterClose,
     SetsAfterNotifyAll
<1>2. CASE UNCHANGED vars
  BY <1>2, SetsAfterStutter
<1> QED
  BY <1>1, <1>2

LEMMA ShapeInvariant == SafeSpec => []Shape
<1>1. Init => Shape
  <2> SUFFICES ASSUME Init PROVE Shape
    OBVIOUS
  <2>1. /\ queue = <<>> /\ closed = FALSE /\ sleeping = {}
        /\ version \in Versions /\ disciplined \in BOOLEAN
    BY DEF Init
  <2>2. queue \in Seq(Values)
    BY <2>1
  <2>3. pc \in [Threads -> Locations]
    BY DEF Init, Locations
  <2> QED
    BY <2>1, <2>2, <2>3 DEF Shape
<1>2. Shape /\ [Next]_vars => Shape'
  BY ShapeStep
<1> QED
  BY <1>1, <1>2, PTL DEF SafeSpec

\* Sets of threads can be counted.
LEMMA Countable ==
  /\ IsFiniteSet(Waiting) /\ Cardinality(Waiting) \in Nat
  /\ IsFiniteSet(Woken) /\ Cardinality(Woken) \in Nat
  /\ IsFiniteSet(Notifying) /\ Cardinality(Notifying) \in Nat
<1>1. Waiting \in SUBSET Threads /\ Woken \in SUBSET Threads /\ Notifying \in SUBSET Threads
  BY DEF Waiting, Woken, Notifying
<1> QED
  BY <1>1, ThreadsAssumption, FS_Subset, FS_CardinalityType

\* waiting_consumers_ is exact from the first step on.
LEMMA CounterInvariant == SafeSpec => []Counter
<1>1. Init => Counter
  <2> SUFFICES ASSUME Init PROVE Counter
    OBVIOUS
  <2>1. Waiting = {} /\ waiting_consumers = 0
    BY DEF Init, Waiting
  <2> QED
    BY <2>1, FS_EmptySet DEF Counter
<1>2. Shape /\ Counter /\ [Next]_vars => Counter'
  <2> SUFFICES ASSUME Shape, Counter, [Next]_vars
               PROVE  Counter'
    OBVIOUS
  <2>0. CountsWaiters' <=> CountsWaiters
    BY VersionFixed DEF CountsWaiters
  <2>1. ASSUME Waiting' = Waiting, waiting_consumers' = waiting_consumers
        PROVE  Counter'
    BY <2>0, <2>1 DEF Counter
  <2>2. ASSUME NEW t \in Threads, NEW v \in Values, NEW b \in BOOLEAN,
               PushUnderLock(t, v, b)
        PROVE  Counter'
    BY <2>1, <2>2, SetsAfterPush DEF PushUnderLock
  <2>3. ASSUME NEW t \in Threads, NotifyAfterEmplace(t)
        PROVE  Counter'
    BY <2>1, <2>3, SetsAfterNotifyOne DEF NotifyAfterEmplace
  <2>4. ASSUME NEW c \in Consumers, WaitPopTake(c) \/ WaitPopClosed(c) \/ WaitPopThrows(c)
        PROVE  Counter'
    <3>1. Waiting' = Waiting \ {c}
      BY <2>4, SetsAfterReturn
    <3>2. Cardinality(Waiting \ {c}) = IF c \in Waiting THEN Cardinality(Waiting) - 1
                                                        ELSE Cardinality(Waiting)
      BY Countable, FS_RemoveElement
    <3>3. CountOut(c) /\ c \in Threads
      BY <2>4 DEF WaitPopTake, WaitPopClosed, WaitPopThrows, Threads
    <3>4. pc[c] = "wait" <=> c \in Waiting
      BY <3>3 DEF Waiting
    <3> QED
      BY <2>0, <3>1, <3>2, <3>3, <3>4, Countable DEF Counter, CountOut
  <2>5. ASSUME NEW c \in Consumers, WaitPopSleep(c)
        PROVE  Counter'
    <3>1. Waiting' = Waiting \cup {c}
      BY <2>5, SetsAfterSleep
    <3>2. Cardinality(Waiting \cup {c}) = IF c \in Waiting THEN Cardinality(Waiting)
                                                           ELSE Cardinality(Waiting) + 1
      BY Countable, FS_AddElement
    <3>3. CountIn(c) /\ HasMutex(c) /\ c \in Threads
      BY <2>5 DEF WaitPopSleep, Threads
    <3>4. pc[c] = "idle" <=> c \notin Waiting
      BY <3>3 DEF Waiting, HasMutex, Woken
    <3> QED
      BY <2>0, <3>1, <3>2, <3>3, <3>4, Countable DEF Counter, CountIn
  <2>6. ASSUME NEW c \in Consumers, SpuriousWakeup(c)
        PROVE  Counter'
    BY <2>1, <2>6, SetsAfterSpurious DEF SpuriousWakeup
  <2>7. ASSUME NEW c \in Consumers, TryPop(c)
        PROVE  Counter'
    BY <2>1, <2>7, SetsAfterTryPop DEF TryPop
  <2>8. ASSUME NEW t \in Threads, Close(t)
        PROVE  Counter'
    BY <2>1, <2>8, SetsAfterClose DEF Close
  <2>9. ASSUME NEW t \in Threads, NotifyAfterClose(t)
        PROVE  Counter'
    BY <2>1, <2>9, SetsAfterNotifyAll DEF NotifyAfterClose
  <2>10. CASE UNCHANGED vars
    BY <2>1, <2>10, SetsAfterStutter DEF vars
  <2>11. CASE Next
    BY <2>11, NextCases, <2>2, <2>3, <2>4, <2>5, <2>6, <2>7, <2>8, <2>9
  <2> QED
    BY <2>10, <2>11
<1> QED
  BY <1>1, <1>2, ShapeInvariant, PTL DEF SafeSpec

\* The members of the queue keep their types: the waiter count, decremented
\* after every wake-up, never falls below zero.
THEOREM TypeCorrect == SafeSpec => []TypeOK
<1>1. Shape /\ Counter => TypeOK
  BY Countable DEF Shape, Counter, TypeOK, Waiting
<1> QED
  BY <1>1, ShapeInvariant, CounterInvariant, PTL

\* waiting_consumers_ always equals the number of consumers inside wait().
THEOREM WaiterCountCorrect == SafeSpec => []WaiterCountExact
<1>1. Counter => WaiterCountExact
  BY DEF Counter, WaiterCountExact
<1> QED
  BY <1>1, CounterInvariant, PTL

\* A consumer asleep on a closed queue always has a notify_all to come, in
\* every version and with any number of threads closing the queue.
THEOREM CloseStrandsNobody == SafeSpec => []CloseWakesSleepers
<1>1. Init => CloseWakesSleepers
  BY DEF Init, CloseWakesSleepers
<1>2. Shape /\ CloseWakesSleepers /\ [Next]_vars => CloseWakesSleepers'
  <2> SUFFICES ASSUME Shape, CloseWakesSleepers, [Next]_vars
               PROVE  CloseWakesSleepers'
    OBVIOUS
  <2> DEFINE ClosersOnTheWay == {t \in Threads : pc[t] = "notify_all"}
  <2>1. ASSUME closed' = closed, sleeping' \subseteq sleeping,
               ClosersOnTheWay' = ClosersOnTheWay
        PROVE  CloseWakesSleepers'
    BY <2>1 DEF CloseWakesSleepers
  <2>2. ASSUME NEW t \in Threads, NEW v \in Values, NEW b \in BOOLEAN,
               PushUnderLock(t, v, b)
        PROVE  CloseWakesSleepers'
    BY <2>1, <2>2 DEF PushUnderLock, Goto, Shape
  <2>3. ASSUME NEW t \in Threads, NotifyAfterEmplace(t)
        PROVE  CloseWakesSleepers'
    <3>1. ClosersOnTheWay' = ClosersOnTheWay /\ closed' = closed
      BY <2>3 DEF NotifyAfterEmplace, Goto, Shape
    <3> QED
      BY <2>1, <2>3, <3>1, SetsAfterNotifyOne
  <2>4. ASSUME NEW c \in Consumers, WaitPopTake(c) \/ WaitPopClosed(c) \/ WaitPopThrows(c)
        PROVE  CloseWakesSleepers'
    <3>1. ClosersOnTheWay' = ClosersOnTheWay /\ closed' = closed
      BY <2>4 DEF WaitPopTake, WaitPopClosed, WaitPopThrows, Goto, HasMutex, Woken, Waiting, Shape
    <3> QED
      BY <2>1, <2>4, <3>1, SetsAfterReturn
  <2>5. ASSUME NEW c \in Consumers, WaitPopSleep(c)
        PROVE  CloseWakesSleepers'
    BY <2>5 DEF WaitPopSleep, CloseWakesSleepers
  <2>6. ASSUME NEW c \in Consumers, SpuriousWakeup(c) \/ TryPop(c)
        PROVE  CloseWakesSleepers'
    BY <2>1, <2>6 DEF SpuriousWakeup, TryPop
  <2>7. ASSUME NEW t \in Threads, Close(t)
        PROVE  CloseWakesSleepers'
    BY <2>7 DEF Close, Goto, Shape, CloseWakesSleepers
  <2>8. ASSUME NEW t \in Threads, NotifyAfterClose(t)
        PROVE  CloseWakesSleepers'
    BY <2>8, SetsAfterNotifyAll DEF CloseWakesSleepers
  <2>9. CASE UNCHANGED vars
    BY <2>1, <2>9 DEF vars
  <2>10. CASE Next
    BY <2>10, NextCases, <2>2, <2>3, <2>4, <2>5, <2>6, <2>7, <2>8
  <2> QED
    BY <2>9, <2>10
<1> QED
  BY <1>1, <1>2, ShapeInvariant, PTL DEF SafeSpec

-----------------------------------------------------------------------------
(* Wake-ups.                                                               *)

\* A step neglects no item if it leaves nobody asleep or nothing to pop, or if it
\* adds as many agents as it adds items.
LEMMA NoneNeglected ==
  ASSUME Shape, Shape',
         \/ sleeping' = {}
         \/ queue' = <<>>
         \/ /\ sleeping # {}
            /\ Len(queue') + Cardinality(Notifying) + Cardinality(Woken)
                 <= Len(queue) + Cardinality(Notifying') + Cardinality(Woken')
  PROVE  ~(UnattendedItems' > UnattendedItems)
<1>1. Len(queue) \in Nat /\ Len(queue') \in Nat
  BY DEF Shape
<1>2. Cardinality(Notifying') \in Nat /\ Cardinality(Woken') \in Nat
  <2>1. Notifying' \in SUBSET Threads /\ Woken' \in SUBSET Threads
    BY DEF Notifying, Woken, Waiting
  <2> QED
    BY <2>1, ThreadsAssumption, FS_Subset, FS_CardinalityType
<1>3. queue' = <<>> => Len(queue') = 0
  OBVIOUS
<1> QED
  BY <1>1, <1>2, <1>3, Countable DEF UnattendedItems

\* In V1 and the V3 of the MPMC family nothing but an exception leaves an item
\* without an agent; in V2 and V3 a push onto a non-empty queue may.
LEMMA NeglectHasACause ==
  ASSUME Shape, Counter, [Next]_vars, UnattendedItems' > UnattendedItems
  PROVE  \/ ~NotifiesPerItem /\ queue # <<>> /\ Len(queue') > Len(queue)
         \/ \E c \in Consumers : WaitPopThrows(c)
<1> SUFFICES ASSUME ~(\E c \in Consumers : WaitPopThrows(c)),
                    ~(~NotifiesPerItem /\ queue # <<>> /\ Len(queue') > Len(queue))
             PROVE  FALSE
  OBVIOUS
<1>0. Shape' /\ Len(queue) \in Nat
  BY ShapeStep DEF Shape
<1>1. ASSUME NEW t \in Threads, NEW v \in Values, NEW b \in BOOLEAN,
             PushUnderLock(t, v, b),
             version = "V1" => b,
             version = "V2" => (b <=> queue = <<>>),
             version = "V3" => (b <=> (queue = <<>> /\ waiting_consumers > 0)),
             version = "MpmcV3" => (b <=> waiting_consumers > 0)
      PROVE  FALSE
  <2>1. sleeping' = sleeping /\ queue' = Append(queue, v)
    BY <1>1 DEF PushUnderLock
  <2>2. Len(queue') = Len(queue) + 1
    BY <2>1 DEF Shape
  <2>3. CASE sleeping = {}
    BY <1>0, <2>1, <2>3, NoneNeglected
  <2>4. CASE sleeping # {}
    <3>1. Cardinality(Waiting) # 0
      BY <2>4, Countable, FS_EmptySet DEF Shape
    <3>2. CountsWaiters => waiting_consumers > 0
      BY <3>1, Countable DEF Counter
    <3>3. NotifiesPerItem \/ queue = <<>>
      BY <1>0, <2>2
    <3>4. b
      BY <1>1, <3>2, <3>3, VersionAssumption DEF CountsWaiters, NotifiesPerItem, Shape
    <3>5. Notifying' = Notifying \cup {t} /\ t \notin Notifying /\ Woken' = Woken
      BY <1>1, <3>4, SetsAfterPush
    <3>6. Cardinality(Notifying') = Cardinality(Notifying) + 1
      BY <3>5, Countable, FS_AddElement
    <3> QED
      BY <1>0, <2>2, <2>4, <3>5, <3>6, Countable, NoneNeglected
  <2> QED
    BY <2>3, <2>4
<1>2. ASSUME NEW t \in Threads, NotifyAfterEmplace(t)
      PROVE  FALSE
  <2>1. CASE sleeping = {}
    BY <1>0, <1>2, <2>1, SetsAfterNotifyOne, NoneNeglected
  <2>2. CASE sleeping # {}
    <3>1. PICK c \in sleeping : c \notin Woken /\ Woken' = Woken \cup {c}
      BY <1>2, <2>2, SetsAfterNotifyOne
    <3>2. Cardinality(Woken') = Cardinality(Woken) + 1
      BY <3>1, Countable, FS_AddElement
    <3>3. Cardinality(Notifying') = Cardinality(Notifying) - 1
      BY <1>2, SetsAfterNotifyOne, Countable, FS_RemoveElement
    <3>4. queue' = queue
      BY <1>2 DEF NotifyAfterEmplace
    <3> QED
      BY <1>0, <2>2, <3>2, <3>3, <3>4, Countable, NoneNeglected
  <2> QED
    BY <2>1, <2>2
<1>3. ASSUME NEW c \in Consumers, WaitPopTake(c)
      PROVE  FALSE
  <2>1. Len(queue') = Len(queue) - 1
    BY <1>3 DEF WaitPopTake, Shape
  <2>2. sleeping' = sleeping /\ Notifying' = Notifying /\ Woken' = Woken \ {c}
    BY <1>3, SetsAfterReturn
  <2>3. Cardinality(Woken \ {c}) = IF c \in Woken THEN Cardinality(Woken) - 1
                                                  ELSE Cardinality(Woken)
    BY Countable, FS_RemoveElement
  <2> QED
    BY <1>0, <2>1, <2>2, <2>3, Countable, NoneNeglected
<1>4. ASSUME NEW c \in Consumers, WaitPopSleep(c) \/ WaitPopClosed(c)
      PROVE  FALSE
  <2>1. queue' = <<>>
    BY <1>4 DEF WaitPopSleep, WaitPopClosed
  <2> QED
    BY <1>0, <2>1, NoneNeglected
<1>5. ASSUME NEW c \in Consumers, SpuriousWakeup(c)
      PROVE  FALSE
  <2>1. Cardinality(Woken') = Cardinality(Woken) + 1 /\ Notifying' = Notifying
    BY <1>5, SetsAfterSpurious, Countable, FS_AddElement
  <2>2. queue' = queue /\ sleeping # {}
    BY <1>5 DEF SpuriousWakeup
  <2> QED
    BY <1>0, <2>1, <2>2, Countable, NoneNeglected
<1>6. ASSUME NEW c \in Consumers, TryPop(c)
      PROVE  FALSE
  <2>1. Len(queue') = Len(queue) - 1 /\ sleeping' = sleeping
    BY <1>6 DEF TryPop, Shape
  <2> QED
    BY <1>0, <1>6, <2>1, SetsAfterTryPop, Countable, NoneNeglected
<1>7. ASSUME NEW t \in Threads, Close(t)
      PROVE  FALSE
  <2>1. queue' = queue /\ sleeping' = sleeping
    BY <1>7 DEF Close
  <2> QED
    BY <1>0, <1>7, <2>1, SetsAfterClose, Countable, NoneNeglected
<1>8. ASSUME NEW t \in Threads, NotifyAfterClose(t)
      PROVE  FALSE
  BY <1>0, <1>8, SetsAfterNotifyAll, NoneNeglected
<1>9. CASE UNCHANGED vars
  <2>1. queue' = queue /\ sleeping' = sleeping
    BY <1>9 DEF vars
  <2> QED
    BY <1>0, <1>9, <2>1, SetsAfterStutter, Countable, NoneNeglected
<1>10. CASE Next
  BY <1>10, NextCases, <1>1, <1>2, <1>3, <1>4, <1>5, <1>6, <1>7, <1>8
<1> QED
  BY <1>9, <1>10

\* Whoever uses the queue, and however many items wait beside a sleeping consumer
\* already: one more does so only after a push of V2 or V3 onto a non-empty queue,
\* or after an exception in a woken wait_pop.
THEOREM NeglectIsExplained == SafeSpec => OnlySilentPushesNeglect
<1> DEFINE Explained ==
      UnattendedItems' > UnattendedItems =>
        \/ ~NotifiesPerItem /\ queue # <<>> /\ Len(queue') > Len(queue)
        \/ \E c \in Consumers : WaitPopThrows(c)
<1>1. Shape /\ Counter /\ [Next]_vars => Explained
  BY NeglectHasACause
<1>2. Shape /\ Counter /\ [Next]_vars => [Explained]_vars
  BY <1>1
<1>3. SafeSpec => [][Explained]_vars
  BY <1>2, ShapeInvariant, CounterInvariant, PTL DEF SafeSpec
<1> QED
  BY <1>3 DEF OnlySilentPushesNeglect

\* Where each push notifies if somebody waits, and payloads do not throw, each
\* queued item has its own agent while a consumer sleeps: single calls of
\* wait_pop, not only loops, can rely on V1 and on the V3 of the MPMC family.
THEOREM EveryItemHasAnAgent == SafeSpec => []EachItemHasAnAgent
<1>1. Init => EachItemHasAnAgent
  BY DEF Init, EachItemHasAnAgent, UnattendedItems
<1>2. Shape /\ Counter /\ EachItemHasAnAgent /\ [Next]_vars => EachItemHasAnAgent'
  <2> SUFFICES ASSUME Shape, Counter, [Next]_vars, UnattendedItems = 0,
                      disciplined, NotifiesPerItem
               PROVE  UnattendedItems' = 0
    BY VersionFixed DEF EachItemHasAnAgent, NotifiesPerItem
  <2>1. ~(UnattendedItems' > 0)
    BY NeglectHasACause DEF WaitPopThrows
  <2>2. UnattendedItems' \in Nat
    <3>1. Len(queue') \in Nat
      BY ShapeStep DEF Shape
    <3>2. Notifying' \in SUBSET Threads /\ Woken' \in SUBSET Threads
      BY DEF Notifying, Woken, Waiting
    <3>3. Cardinality(Notifying') \in Nat /\ Cardinality(Woken') \in Nat
      BY <3>2, ThreadsAssumption, FS_Subset, FS_CardinalityType
    <3> QED
      BY <3>1, <3>3 DEF UnattendedItems
  <2> QED
    BY <2>1, <2>2
<1> QED
  BY <1>1, <1>2, ShapeInvariant, CounterInvariant, PTL DEF SafeSpec

\* With one consumer, notifying on the empty -> non-empty transition, as V2 and
\* V3 of the deque family do, is enough: the consumer never sleeps on a
\* non-empty queue unless a notification is on its way.
THEOREM OneConsumerIsWoken == SafeSpec => []NoLostWakeup
<1> DEFINE OneSleeps ==
      disciplined /\ ~NotifiesPerItem => sleeping \subseteq {LoneConsumer}
<1>1. Init => NoLostWakeup /\ OneSleeps
  BY DEF Init, NoLostWakeup
<1>2. /\ Shape /\ Counter /\ NoLostWakeup /\ OneSleeps
      /\ [Next]_vars
      => NoLostWakeup' /\ OneSleeps'
  <2> SUFFICES ASSUME Shape, Counter, NoLostWakeup, OneSleeps, [Next]_vars
               PROVE  NoLostWakeup' /\ OneSleeps'
    OBVIOUS
  <2> SUFFICES ASSUME disciplined, ~NotifiesPerItem, ~NotifiesPerItem'
               PROVE  NoLostWakeup' /\ OneSleeps'
    BY VersionFixed DEF NoLostWakeup, NotifiesPerItem
  <2> USE DEF NoLostWakeup
  <2>1. ASSUME NEW t \in Threads, NEW v \in Values, NEW b \in BOOLEAN,
               PushUnderLock(t, v, b),
               version = "V2" => (b <=> queue = <<>>),
               version = "V3" => (b <=> (queue = <<>> /\ waiting_consumers > 0))
        PROVE  NoLostWakeup' /\ OneSleeps'
    <3>1. sleeping' = sleeping
      BY <2>1 DEF PushUnderLock
    <3>2. Notifying' = IF b THEN Notifying \cup {t} ELSE Notifying
      BY <2>1, SetsAfterPush
    <3>3. ASSUME sleeping # {}, queue = <<>>
          PROVE  b
      <4>1. Cardinality(Waiting) # 0
        BY <3>3, Countable, FS_EmptySet DEF Shape
      <4>2. CountsWaiters => waiting_consumers > 0
        BY <4>1, Countable DEF Counter
      <4> QED
        BY <2>1, <3>3, <4>2, VersionAssumption DEF CountsWaiters, NotifiesPerItem, Shape
    <3> QED
      BY <3>1, <3>2, <3>3
  <2>2. ASSUME NEW t \in Threads, NotifyAfterEmplace(t)
        PROVE  NoLostWakeup' /\ OneSleeps'
    <3>1. sleeping' = {}
      BY <2>2, SetsAfterNotifyOne
    <3> QED
      BY <3>1
  <2>3. ASSUME NEW c \in Consumers, WaitPopTake(c) \/ WaitPopClosed(c) \/ WaitPopThrows(c)
        PROVE  NoLostWakeup' /\ OneSleeps'
    BY <2>3, SetsAfterReturn DEF WaitPopTake, WaitPopClosed, WaitPopThrows
  <2>4. ASSUME NEW c \in ConsumersInUse, WaitPopSleep(c)
        PROVE  NoLostWakeup' /\ OneSleeps'
    <3>1. c = LoneConsumer
      BY DEF ConsumersInUse
    <3> QED
      BY <2>4, <3>1 DEF WaitPopSleep
  <2>5. ASSUME NEW c \in Consumers, SpuriousWakeup(c)
        PROVE  NoLostWakeup' /\ OneSleeps'
    BY <2>5 DEF SpuriousWakeup
  <2>6. ASSUME NEW c \in Consumers, TryPop(c)
        PROVE  NoLostWakeup' /\ OneSleeps'
    BY <2>6, SetsAfterTryPop DEF TryPop, Shape, Waiting
  <2>7. ASSUME NEW t \in Threads, Close(t)
        PROVE  NoLostWakeup' /\ OneSleeps'
    BY <2>7, SetsAfterClose DEF Close
  <2>8. ASSUME NEW t \in Threads, NotifyAfterClose(t)
        PROVE  NoLostWakeup' /\ OneSleeps'
    BY <2>8, SetsAfterNotifyAll
  <2>9. CASE UNCHANGED vars
    BY <2>9, SetsAfterStutter DEF vars
  <2>10. CASE Next
    BY <2>10, NextCases, <2>1, <2>2, <2>3, <2>4, <2>5, <2>6, <2>7, <2>8
  <2> QED
    BY <2>9, <2>10
<1> QED
  BY <1>1, <1>2, ShapeInvariant, CounterInvariant, PTL DEF SafeSpec

-----------------------------------------------------------------------------
(* The refinement of ClosableFifo: every step is one of its steps or       *)
(* changes nothing there.                                                  *)

\* emplace puts the value at the end, whatever it decides about notifying.
LEMMA EmplacePushes ==
  ASSUME Shape, NEW p \in Producers, NEW v \in Values, Emplace(p, v)
  PROVE  Fifo!Next
<1>1. PICK b \in BOOLEAN : PushUnderLock(p, v, b)
  <2>1. /\ TRUE \in BOOLEAN
        /\ (queue = <<>>) \in BOOLEAN
        /\ (queue = <<>> /\ waiting_consumers > 0) \in BOOLEAN
        /\ (waiting_consumers > 0) \in BOOLEAN
    OBVIOUS
  <2> QED
    BY <2>1 DEF Emplace, EmplaceV1, EmplaceV2, EmplaceV3, EmplaceMpmcV3
<1>2. Waiting' = Waiting
  BY <1>1, SetsAfterPush DEF Threads
<1>3. Fifo!Push(p, v)
  BY <1>1, <1>2 DEF PushUnderLock, Fifo!Push
<1> QED
  BY <1>3 DEF Fifo!Next

\* wait_pop takes the oldest item, leaves with false or with an exception.
LEMMA WaitPopReturns ==
  ASSUME Shape, NEW c \in Consumers, WaitPopTake(c) \/ WaitPopClosed(c) \/ WaitPopThrows(c)
  PROVE  [Fifo!Next]_(Fifo!vars)
<1>1. Waiting' = Waiting \ {c}
  BY SetsAfterReturn
<1>2. CASE WaitPopTake(c)
  <2>1. Fifo!Take(c)
    BY <1>1, <1>2 DEF WaitPopTake, Fifo!Take
  <2> QED
    BY <2>1 DEF Fifo!Next
<1>3. CASE WaitPopClosed(c) /\ c \in Waiting
  <2>1. Fifo!Dismiss(c)
    BY <1>1, <1>3 DEF WaitPopClosed, Fifo!Dismiss
  <2> QED
    BY <2>1 DEF Fifo!Next
<1>4. CASE WaitPopClosed(c) /\ c \notin Waiting
  BY <1>1, <1>4 DEF WaitPopClosed, Fifo!vars
<1>5. CASE WaitPopThrows(c)
  <2>1. c \in Waiting \cup {}
    BY <1>5 DEF WaitPopThrows, Woken
  <2>2. Fifo!Throw(c)
    BY <1>1, <1>5, <2>1 DEF WaitPopThrows, Fifo!Throw
  <2> QED
    BY <2>1, <2>2 DEF Fifo!Next
<1> QED
  BY <1>2, <1>3, <1>4, <1>5

\* A call that falls asleep waits; one that falls asleep again has been waiting.
LEMMA WaitPopWaits ==
  ASSUME Shape, NEW c \in Consumers, WaitPopSleep(c)
  PROVE  Fifo!Next
<1>1. Fifo!Arrive(c)
  BY SetsAfterSleep DEF WaitPopSleep, Fifo!Arrive
<1> QED
  BY <1>1 DEF Fifo!Next

\* try_pop is served like a pop that need not wait.
LEMMA TryPopTakes ==
  ASSUME Shape, NEW c \in Consumers, TryPop(c)
  PROVE  Fifo!Next
<1>1. Waiting' = Waiting /\ c \notin Waiting
  BY SetsAfterTryPop DEF TryPop, Waiting
<1>2. Fifo!Take(c)
  BY <1>1 DEF TryPop, Fifo!Take
<1> QED
  BY <1>2 DEF Fifo!Next

LEMMA CloseCloses ==
  ASSUME Shape, NEW t \in Threads, Close(t)
  PROVE  Fifo!Next
<1>1. Fifo!Close
  BY SetsAfterClose DEF Close, Fifo!Close
<1> QED
  BY <1>1 DEF Fifo!Next

\* Notifications and wake-ups are invisible.
LEMMA WakeUpsAreInvisible ==
  ASSUME Shape,
         \/ \E t \in Threads : NotifyAfterEmplace(t) \/ NotifyAfterClose(t)
         \/ \E c \in Consumers : SpuriousWakeup(c)
         \/ UNCHANGED vars
  PROVE  UNCHANGED Fifo!vars
<1>1. Waiting' = Waiting
  BY SetsAfterNotifyOne, SetsAfterNotifyAll, SetsAfterSpurious, SetsAfterStutter
<1> QED
  BY <1>1 DEF NotifyAfterEmplace, NotifyAfterClose, SpuriousWakeup, vars, Fifo!vars

\* Every version, with any threads and throwing payloads, is a closable FIFO: items
\* leave in the order in which they entered, each one once, a pop fails only when
\* the queue is closed and drained, and only a faulty payload ends a call early.
\* (The other half of ImplementsFifo, that nobody waits for ever, is liveness.)
THEOREM Refinement == SafeSpec => Fifo!SafeSpec
<1>1. ASSUME Init
      PROVE  Fifo!Init
  <2>1. Waiting = {}
    BY <1>1 DEF Init, Waiting
  <2>2. (~disciplined) \in BOOLEAN
    OBVIOUS
  <2> QED
    BY <1>1, <2>1, <2>2 DEF Init, Fifo!Init
<1>2. ASSUME Shape, [Next]_vars
      PROVE  [Fifo!Next]_(Fifo!vars)
  <2>0. ConsumersInUse \subseteq Consumers /\ Producers \subseteq Threads /\ Closers \subseteq Threads
    BY ConsumerAssumption DEF ConsumersInUse, Threads
  <2>1. CASE \E p \in Producers, v \in Values : Emplace(p, v)
    BY <1>2, <2>1, EmplacePushes
  <2>2. CASE \E t \in Producers : NotifyAfterEmplace(t)
    BY <1>2, <2>0, <2>2, WakeUpsAreInvisible
  <2>3. CASE \E c \in ConsumersInUse : WaitPop(c) \/ WaitPopThrows(c)
    BY <1>2, <2>0, <2>3, WaitPopReturns, WaitPopWaits DEF WaitPop
  <2>4. CASE \E c \in ConsumersInUse : TryPop(c)
    BY <1>2, <2>0, <2>4, TryPopTakes
  <2>5. CASE \E c \in ConsumersInUse : SpuriousWakeup(c)
    BY <1>2, <2>0, <2>5, WakeUpsAreInvisible
  <2>6. CASE \E t \in Closers : Close(t)
    BY <1>2, <2>0, <2>6, CloseCloses
  <2>7. CASE \E t \in Closers : NotifyAfterClose(t)
    BY <1>2, <2>0, <2>7, WakeUpsAreInvisible
  <2>8. CASE UNCHANGED vars
    BY <1>2, <2>8, WakeUpsAreInvisible
  <2> QED
    BY <1>2, <2>1, <2>2, <2>3, <2>4, <2>5, <2>6, <2>7, <2>8 DEF Next
<1> QED
  BY <1>1, <1>2, ShapeInvariant, PTL DEF SafeSpec, Fifo!SafeSpec
=============================================================================
