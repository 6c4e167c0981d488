---------------------------- MODULE SpscHarness ----------------------------
(***************************************************************************)
(* test_spsc_bounded_queue_threaded of tests/queue_test.cpp: one thread    *)
(* pushes 1, 2, ..., Count, each until try_push takes it, another pops     *)
(* until it has as many, and the queue is destroyed when both are joined.  *)
(* (The payload is an int, which does not throw.)                          *)
(***************************************************************************)
EXTENDS SpscBoundedQueue, Sequences

CONSTANT Count  \* kCount

ASSUME SpscHarnessAssumption == Count \in Nat /\ 1..Count \subseteq Values

VARIABLES sent,    \* values pushed
          values   \* values, as popped

hvars == <<vars, sent, values>>

HInit ==
  /\ Init /\ may_throw = FALSE
  /\ sent = 0
  /\ values = <<>>

-----------------------------------------------------------------------------
(* The producer: while (!queue.try_push(i)) {}.                            *)

Push ==
  /\ sent < Count
  /\ BeginEmplace(sent + 1)
  /\ UNCHANGED <<sent, values>>

Pushing ==
  /\ LoadHead \/ Construct
  /\ UNCHANGED <<sent, values>>

\* try_push returns true.
Pushed ==
  /\ Publish
  /\ sent' = sent + 1
  /\ UNCHANGED values

(* The consumer: while (!queue.try_pop(value)) {}.                         *)

Poll ==
  /\ Len(values) < Count
  /\ BeginTryPop
  /\ UNCHANGED <<sent, values>>

Polling ==
  /\ LoadTail \/ MoveOut
  /\ UNCHANGED <<sent, values>>

\* try_pop returns true.
Popped ==
  /\ Release
  /\ values' = Append(values, out)
  /\ UNCHANGED sent

\* producer.join(), consumer.join(), and the end of the queue's scope.
JoinAndDestroy ==
  /\ sent = Count /\ Len(values) = Count
  /\ Destroy
  /\ UNCHANGED <<sent, values>>

PushLoop == Push \/ Pushing \/ Pushed
PopLoop == Poll \/ Polling \/ Popped
HNext == PushLoop \/ PopLoop \/ JoinAndDestroy

HSafeSpec == HInit /\ [][HNext]_hvars

\* Loads that return the current value.
FreshHead == Pushing /\ pushing = "load_head" /\ head_cache' = head
FreshTail == Polling /\ popping = "load_tail" /\ tail_cache' = tail

\* Both threads are scheduled, and a load that is repeated for ever returns the
\* current value some time (a store becomes visible in finite time).
HSpec ==
  /\ HSafeSpec
  /\ WF_hvars(PushLoop) /\ WF_hvars(PopLoop) /\ WF_hvars(JoinAndDestroy)
  /\ SF_hvars(FreshHead)
  /\ SF_hvars(FreshTail)

-----------------------------------------------------------------------------
(* Properties.                                                             *)

\* At every moment, what has been received, what the consumer is about to return
\* and what is in the queue are the values sent so far, in order; the asserts of
\* queue_test.cpp:80-83 look at the end only.
NothingLostOrReordered ==
  ~destroyed =>
    LET returning == IF popping = "release" THEN <<out>> ELSE <<>>
    IN  values \o returning \o Content = [i \in 1..sent |-> i]

\* Neither side waits for the other for ever, whatever old copy of an index it
\* started from, and the test ends with all values received.
AllReceived == <>(destroyed /\ values = [i \in 1..Count |-> i])
=============================================================================
