-------------------------- MODULE MutexDequeQueue --------------------------
(***************************************************************************)
(* The unbounded blocking queues: one std::deque, one std::mutex, one      *)
(* std::condition_variable.                                                *)
(*                                                                         *)
(*   version    classes                                                    *)
(*   "V1"       MutexBlockingQueue, MutexDequeQueueV1,                     *)
(*              MutexDequeMpmcQueueV1                                      *)
(*   "V2"       MutexDequeQueueV2, MutexDequeMpmcQueueV2 and its alias     *)
(*              MutexDequeMpmcQueueBaseline                                *)
(*   "V3"       MutexDequeQueueV3                                          *)
(*   "MpmcV3"   MutexDequeMpmcQueueV3                                      *)
(*                                                                         *)
(* Every member is read and written under mutex_ only, and nothing inside  *)
(* a critical section waits except wait(), which releases the mutex.  A    *)
(* critical section is therefore one step; what happens after the unlock   *)
(* (the notification) and after a wake-up (reacquiring the mutex, testing  *)
(* the predicate again) are steps of their own.                            *)
(*                                                                         *)
(* Calls that return false without touching the object (emplace on a       *)
(* closed queue, try_pop on an empty one) are stuttering steps.            *)
(***************************************************************************)
EXTENDS Naturals, Sequences, FiniteSets, CondVar

CONSTANTS Producers,  \* threads that call emplace
          Consumers,  \* threads that call wait_pop and try_pop
          Closers,    \* threads that call close
          Values,     \* payloads
          Versions,   \* classes the object may be of: see above
          LoneConsumer, \* one of Consumers
          MaxLen      \* bound: longest deque the model builds

Threads == Producers \cup Consumers \cup Closers

ASSUME VersionAssumption == Versions \subseteq {"V1", "V2", "V3", "MpmcV3"}
ASSUME ConsumerAssumption == LoneConsumer \in Consumers
ASSUME MaxLenAssumption == MaxLen \in Nat
ASSUME ThreadsAssumption == IsFiniteSet(Threads)

VARIABLES version,            \* the class of the object
          disciplined,        \* are its clients disciplined? see below
          queue,              \* queue_
          closed,             \* closed_
          waiting_consumers,  \* waiting_consumers_, 0 where it is no member
          sleeping,           \* wait set of cv_
          pc                  \* where each thread is between two steps

config == <<version, disciplined>>
vars == <<config, queue, closed, waiting_consumers, sleeping, pc>>

(***************************************************************************)
(* "idle"        outside the queue, or before its first critical section   *)
(* "notify_one"  emplace has unlocked and will call cv_.notify_one()       *)
(* "notify_all"  close has unlocked and will call cv_.notify_all()         *)
(* "wait"        inside cv_.wait(): asleep, or woken and without the mutex *)
(***************************************************************************)
Locations == {"idle", "notify_one", "notify_all", "wait"}

TypeOK ==
  /\ version \in Versions /\ disciplined \in BOOLEAN
  /\ queue \in Seq(Values)
  /\ closed \in BOOLEAN
  /\ waiting_consumers \in Nat
  /\ sleeping \subseteq Threads
  /\ pc \in [Threads -> Locations]

Init ==
  /\ version \in Versions /\ disciplined \in BOOLEAN
  /\ queue = <<>>
  /\ closed = FALSE
  /\ waiting_consumers = 0
  /\ sleeping = {}
  /\ pc = [t \in Threads |-> "idle"]

Goto(t, location) == pc' = [pc EXCEPT ![t] = location]

Notifying == {t \in Threads : pc[t] = "notify_one"}
Waiting == {t \in Threads : pc[t] = "wait"}
Woken == Waiting \ sleeping

-----------------------------------------------------------------------------
(* emplace: append under the lock, decide there whether to notify.         *)

PushUnderLock(t, v, should_notify) ==
  /\ pc[t] = "idle"
  /\ ~closed
  /\ Len(queue) < MaxLen
  /\ queue' = Append(queue, v)
  /\ Goto(t, IF should_notify THEN "notify_one" ELSE "idle")
  /\ UNCHANGED <<config, closed, waiting_consumers, sleeping>>

\* Mutant of EmplaceV1: V2's test in a queue of one-shot consumers.
EmplaceV1_OnlyWhenEmpty(t, v) ==
  /\ version = "V1"
  /\ PushUnderLock(t, v, queue = <<>>)

EmplaceV1(t, v) ==
  /\ version = "V1"
  /\ PushUnderLock(t, v, TRUE)

\* Mutant of EmplaceV2: emptiness is looked at after the push.
EmplaceV2_TestAfterPush(t, v) ==
  /\ version = "V2"
  /\ PushUnderLock(t, v, Append(queue, v) = <<>>)

EmplaceV2(t, v) ==
  /\ version = "V2"
  /\ PushUnderLock(t, v, queue = <<>>)

\* Mutant of EmplaceV3: the same.
EmplaceV3_TestAfterPush(t, v) ==
  /\ version = "V3"
  /\ PushUnderLock(t, v, Append(queue, v) = <<>> /\ waiting_consumers > 0)

EmplaceV3(t, v) ==
  /\ version = "V3"
  /\ PushUnderLock(t, v, queue = <<>> /\ waiting_consumers > 0)

\* Mutant of EmplaceMpmcV3: the condition of V3.
EmplaceMpmcV3_OnlyWhenEmpty(t, v) ==
  /\ version = "MpmcV3"
  /\ PushUnderLock(t, v, queue = <<>> /\ waiting_consumers > 0)

EmplaceMpmcV3(t, v) ==
  /\ version = "MpmcV3"
  /\ PushUnderLock(t, v, waiting_consumers > 0)

Emplace(t, v) ==
  \/ EmplaceV1(t, v)
  \/ EmplaceV2(t, v)
  \/ EmplaceV3(t, v)
  \/ EmplaceMpmcV3(t, v)

\* cv_.notify_one() after the unlock.
NotifyAfterEmplace(t) ==
  /\ pc[t] = "notify_one"
  /\ sleeping' \in NotifyOne(sleeping)
  /\ Goto(t, "idle")
  /\ UNCHANGED <<config, queue, closed, waiting_consumers>>

-----------------------------------------------------------------------------
(* wait_pop: the caller enters with the mutex for the first time, or gets  *)
(* it back after a wake-up; either way it looks at the same predicate.     *)

HasMutex(c) == pc[c] = "idle" \/ c \in Woken

CountsWaiters == version \in {"V3", "MpmcV3"}

\* Mutant of CountIn: a caller that goes back to sleep is counted again.
CountIn_Twice(c) ==
  waiting_consumers' = waiting_consumers + (IF CountsWaiters THEN 1 ELSE 0)

\* ++waiting_consumers_ before wait(); a woken caller has just decremented.
CountIn(c) ==
  waiting_consumers' = IF CountsWaiters /\ pc[c] = "idle"
                         THEN waiting_consumers + 1
                         ELSE waiting_consumers

\* Mutant of CountOut: also decremented by a caller that did not have to wait.
CountOut_Always(c) ==
  waiting_consumers' = waiting_consumers - (IF CountsWaiters THEN 1 ELSE 0)

\* --waiting_consumers_ after wait().
CountOut(c) ==
  waiting_consumers' = IF CountsWaiters /\ pc[c] = "wait"
                         THEN waiting_consumers - 1
                         ELSE waiting_consumers

\* Mutant of WaitPopTake: pop_back() instead of pop_front().
WaitPopTake_Newest(c) ==
  /\ HasMutex(c)
  /\ queue # <<>>
  /\ queue' = SubSeq(queue, 1, Len(queue) - 1)
  /\ CountOut(c)
  /\ Goto(c, "idle")
  /\ UNCHANGED <<config, closed, sleeping>>

WaitPopTake(c) ==
  /\ HasMutex(c)
  /\ queue # <<>>
  /\ queue' = Tail(queue)
  /\ CountOut(c)
  /\ Goto(c, "idle")
  /\ UNCHANGED <<config, closed, sleeping>>

WaitPopSleep(c) ==
  /\ HasMutex(c)
  /\ queue = <<>>
  /\ ~closed
  /\ sleeping' = sleeping \cup {c}
  /\ CountIn(c)
  /\ Goto(c, "wait")
  /\ UNCHANGED <<config, queue, closed>>

\* Mutant of WaitPopClosed: gives up on closed_ alone, items left or not.
WaitPopClosed_Undrained(c) ==
  /\ HasMutex(c)
  /\ closed
  /\ CountOut(c)
  /\ Goto(c, "idle")
  /\ UNCHANGED <<config, queue, closed, sleeping>>

\* wait_pop returns false.
WaitPopClosed(c) ==
  /\ HasMutex(c)
  /\ queue = <<>>
  /\ closed
  /\ CountOut(c)
  /\ Goto(c, "idle")
  /\ UNCHANGED <<config, queue, closed, sleeping>>

\* The assignment to out throws in a call that was woken: the item stays, and the
\* wake-up is spent.  (In a call that did not wait, a throw changes nothing.)
WaitPopThrows(c) ==
  /\ ~disciplined
  /\ c \in Woken
  /\ queue # <<>>
  /\ CountOut(c)
  /\ Goto(c, "idle")
  /\ UNCHANGED <<config, queue, closed, sleeping>>

WaitPop(c) == WaitPopTake(c) \/ WaitPopSleep(c) \/ WaitPopClosed(c)

\* wait() may also return without a notification.
SpuriousWakeup(c) ==
  /\ c \in sleeping
  /\ sleeping' = sleeping \ {c}
  /\ UNCHANGED <<config, queue, closed, waiting_consumers, pc>>

TryPop(c) ==
  /\ pc[c] = "idle"
  /\ queue # <<>>
  /\ queue' = Tail(queue)
  /\ UNCHANGED <<config, closed, waiting_consumers, sleeping, pc>>

-----------------------------------------------------------------------------
\* Mutant of Close: forgets the notification.
Close_Silent(t) ==
  /\ pc[t] = "idle"
  /\ closed' = TRUE
  /\ UNCHANGED <<config, queue, waiting_consumers, sleeping, pc>>

Close(t) ==
  /\ pc[t] = "idle"
  /\ closed' = TRUE
  /\ Goto(t, "notify_all")
  /\ UNCHANGED <<config, queue, waiting_consumers, sleeping>>

\* Mutant of NotifyAfterClose: notify_one() instead of notify_all().
NotifyAfterClose_One(t) ==
  /\ pc[t] = "notify_all"
  /\ sleeping' \in NotifyOne(sleeping)
  /\ Goto(t, "idle")
  /\ UNCHANGED <<config, queue, closed, waiting_consumers>>

NotifyAfterClose(t) ==
  /\ pc[t] = "notify_all"
  /\ sleeping' = NotifyAll(sleeping)
  /\ Goto(t, "idle")
  /\ UNCHANGED <<config, queue, closed, waiting_consumers>>

-----------------------------------------------------------------------------
\* Any client: every thread makes any of its calls at any time.  A class that
\* notifies on empty -> non-empty only is meant for a single consumer, or for
\* consumers that loop (MutexDequeHarness); disciplined clients of V2 and V3 that
\* may stop popping at any time have just one.  Nor do their payloads throw.
NotifiesPerItem == version \in {"V1", "MpmcV3"}
ConsumersInUse ==
  IF disciplined /\ ~NotifiesPerItem THEN {LoneConsumer} ELSE Consumers

Next ==
  \/ \E t \in Producers : \/ \E v \in Values : Emplace(t, v)
                          \/ NotifyAfterEmplace(t)
  \/ \E c \in ConsumersInUse : WaitPop(c) \/ WaitPopThrows(c) \/ TryPop(c)
                               \/ SpuriousWakeup(c)
  \/ \E t \in Closers : Close(t) \/ NotifyAfterClose(t)

\* A call that has begun is carried on; nobody has to make a call.
CarriesOn(t) ==
  \/ NotifyAfterEmplace(t)
  \/ NotifyAfterClose(t)
  \/ t \in Woken /\ WaitPop(t)

Fairness == \A t \in Threads : WF_vars(CarriesOn(t))

SafeSpec == Init /\ [][Next]_vars
Spec == SafeSpec /\ Fairness

-----------------------------------------------------------------------------
(* Properties.                                                             *)

\* The items for which, while a consumer sleeps, neither a notification is on its
\* way nor a woken consumer coming.
UnattendedItems ==
  LET agents == Cardinality(Notifying) + Cardinality(Woken)
  IN  IF sleeping # {} /\ Len(queue) > agents THEN Len(queue) - agents ELSE 0

\* Versions that notify for every item pushed while somebody waits leave no item
\* unattended.
EachItemHasAnAgent ==
  disciplined /\ NotifiesPerItem => UnattendedItems = 0

\* In any use whatever, with any number of items already neglected, one more is
\* neglected only by a push of V2 or V3 onto a non-empty queue, or when a payload
\* throws in a woken wait_pop.
OnlySilentPushesNeglect ==
  [][UnattendedItems' > UnattendedItems =>
       \/ ~NotifiesPerItem /\ queue # <<>> /\ Len(queue') > Len(queue)
       \/ \E c \in Consumers : WaitPopThrows(c)]_vars

\* What is left of it in the versions that notify on empty -> non-empty only,
\* when one consumer uses the queue: it never sleeps on a non-empty queue
\* unless a notification is on its way.
NoLostWakeup ==
  disciplined /\ ~NotifiesPerItem /\ sleeping # {} /\ queue # <<>> => Notifying # {}

\* close() strands nobody: a consumer asleep on a closed queue has a
\* notify_all still to come.
CloseWakesSleepers ==
  closed /\ sleeping # {} => \E t \in Threads : pc[t] = "notify_all"

\* waiting_consumers_ counts the consumers inside wait(), the woken ones that
\* do not have the mutex yet included.
WaiterCountExact ==
  CountsWaiters => waiting_consumers = Cardinality(Waiting)

Fifo == INSTANCE ClosableFifo WITH
  items <- queue, waiting <- Waiting, blocked <- {}, faulty <- ~disciplined

\* The queue is a closable FIFO, and with disciplined clients keeps nobody waiting
\* who could be served.
ImplementsFifo == Fifo!SafeSpec /\ (disciplined => Fifo!Progress)
=============================================================================
