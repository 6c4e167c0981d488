# A verification project for yutil's queues

`yutil` is a header-only collection of concurrent queues (`src/ds/`), written in
several versions each to study what notification, padding and memory ordering
cost, with tests (`src/tests/`), benchmarks (`src/benchmarks/`) and notes
(`src/notes/`).  This directory holds TLA+ models of the queues and of the
clients the tests put around them, TLC runs over small instances, and TLAPS
proofs of safety for every instance.

    tlc -workers 2 -config deque.cfg MutexDequeQueue        # one run
    tlapm MutexDequeQueue_proofs.tla                        # one proof module

`PROJECT.json` lists the runs, a mutant of the code for every property (the run
must fail on it), the source lines each definition models, the findings, the
hazards and the theorems.

## 1. The system

| part | files | state | operations |
|---|---|---|---|
| unbounded blocking queues | `ds/mutex_blocking_queue.hpp`, `ds/queue/mutex_deque_*` (8 classes) | deque, `closed_`, in V3 `waiting_consumers_`; one mutex, one condition variable | `push`/`emplace`, `wait_pop`, `try_pop`, `close` |
| ring queues | `ds/queue/ring_mutex_mpmc_queue_v1..3.hpp` | `buffer_`, `head_`, `tail_`, `size_`, `closed_`, in V3 two waiter counts; one mutex, one (V1) or two condition variables | blocking and non-blocking push and pop, `close` |
| atomic MPMC queues | `ds/queue/bounded_atomic_mpmc_queue_v1..3.hpp` | two atomic positions, cells with a sequence number, `closed_` | `emplace`, `try_pop`, `close`, destructor |
| SPSC queue | `ds/spsc_bounded_queue.hpp` | two atomic indices, a private copy of each, slots | `emplace`, `try_pop`, `size`, destructor |
| clients | `tests/*_test.cpp` and the same loops in `benchmarks/` | items sent and received | produce all, join, close, drain, join |

The parts do not call one another: a queue is shared by its client's threads,
and everything interesting happens between these.

What is hard, and therefore what the properties are about:

* Blocking queues: a notification is decided under the lock, sent after it, and
  forgotten if nobody sleeps; a woken thread gets the mutex late and may find
  its item gone.  The versions leave out more and more notifications.  The
  question is each time *who is stranded*: an item beside a sleeping consumer,
  a sleeping producer beside a free slot, anybody after `close()`.
* Atomic queues: loads are relaxed, a thread may stop between any two accesses
  and succeed a lap later; plain storage is handed over by sequence numbers.
* SPSC: each side trusts an old copy of the other's index, modulo 2^64.
* Exceptions: a throwing element type ends a call between two accesses, and in a
  blocking queue takes along the notification the call was woken by.
* `normalize_capacity`: masking works for powers of two only, and its loop has
  inputs it never ends on.

The full list, at the lines where the hazards bite, is in `PROJECT.json`.

## 2. The modules

    CondVar ........................ notify_one, notify_all on a wait set
    ClosableFifo ................... what a blocking queue promises
      ^ refined by
    MutexDequeQueue ................ the 8 unbounded queues      -> MutexDequeQueue_proofs
      ^ instantiated by
    MutexDequeHarness .............. test_mpmc_correctness, test_threaded_order
                                                                 -> MutexDequeHarness_proofs
    RingMutexMpmcQueue ............. the 3 ring queues (refines ClosableFifo)
                                                                 -> RingMutexMpmcQueue_proofs
      ^ instantiated by
    RingHarness .................... test_mpmc_correctness of the ring queues
                                                                 -> RingHarness_proofs
    BoundedFifo .................... what a non-blocking queue promises
      ^ refined by
    BoundedAtomicMpmcQueue ......... the 3 atomic queues         -> BoundedAtomicMpmcQueue_proofs
      ^ instantiated by
    BoundedAtomicHarness ........... test_mpmc_correctness of the atomic queues
                                                                 -> BoundedAtomicHarness_proofs
    SpscBoundedQueue ............... the SPSC queue (refines BoundedFifo)
                                                                 -> SpscBoundedQueue_proofs
      ^ extended by
    SpscHarness .................... test_spsc_bounded_queue_threaded
                                                                    (proved with the queue)
    NormalizeCapacity .............. normalize_capacity          -> NormalizeCapacity_proofs
      ^ extended by
    NormalizeCapacityMC ............ ... and the mask made from its result

The proof module of a queue holds its inductive invariant and its refinement; the
proof module of a client instantiates the queue's as `QP` (section 5).  `SpscHarness`
extends its queue, and is proved at the end of `SpscBoundedQueue_proofs`; it assumes
only that the values it sends are payloads, which with `Count = 0` says nothing, so
the theorems about the queue by itself lose no generality.

**Critical sections.**  In the mutex queues every member is accessed under the
mutex only, and inside a critical section nothing waits except `wait()`, which
releases it.  So one critical section is one action, and interleaving happens
where the code has unlocked: before a notification (`pc = "notify_one"`,
`"wake_consumer"`, ...) and between a wake-up and getting the mutex back
(`pc = "wait"` while no longer in the wait set).  `wait(lock, predicate)` and
the `while` loop around `wait(lock)` are the same three actions: take, sleep
(again), give up.  Spurious wake-ups are actions.

**Versions** are the values of a variable `version` that `Init` chooses and
nothing changes, so one run and one theorem speak of all of them.  Versions that
differ only in where a class lives (`MutexBlockingQueue`, `MutexDequeQueueV1`,
`MutexDequeMpmcQueueV1`) are one value.  The baseline alias is
`MutexDequeMpmcQueueV2`.

**Clients.**  In the open models any thread makes any of its calls at any time,
and may stop making calls.  Not every version serves every such client: V2 and
V3 of the deque family notify on empty -> non-empty only, `try_pop` of the ring
frees a slot without telling anybody.  Another variable that `Init` chooses,
`disciplined`, restricts the clients to the uses a version is sufficient for
(`ConsumersInUse`, `TryPushersInUse`, ... just before `Next`).  With
`disciplined = FALSE` every mix of calls by every thread is allowed and payloads
may throw; safety is claimed for both, being served only for disciplined clients.
The harnesses have all threads take part, as the tests have.

**Throwing payloads.**  In the mutex queues a throw matters where it ends a call
that was woken (`EmplaceThrows`, `WaitPopThrows`): the exception leaves the
critical section with `wait()` already done and, in V3, the count already taken
back.  A throw in a call that never waited changes nothing and is not an action.
In the atomic and SPSC queues `ConstructThrows` and `MoveOutThrows` end a call
between two accesses; `may_throw` (SPSC) and `MayThrow` (atomic) say whether the
type does.

**Atomics.**  In the lock-free queues each access to an atomic is an action.
With `StaleLoads` (a constant of the atomic queue) or `stale_loads` (a variable
of the SPSC queue) a load may return any value the variable has had (for the SPSC
index: any value since the reader's last load, by coherence; the loads of the atomic
queue, of positions, sequence numbers and `closed_`, are not bound by what the same
thread has seen before, which allows more than the code's); a
successful compare-and-swap works on the current value, a failed one, which may
be spurious, is a load.  The happens-before that release and acquire give to
the *plain* storage is not a separate notion: what it has to guarantee, that no
two threads use a cell at once and each finds it in the state it expects, is
`CellOwnership` and `SlotsInUse`, stated on the order in which the code writes
storage and then the sequence number or index.

**Abstract specifications.**  `ClosableFifo` has no mutex and no notification;
its fairness is the promise: while there are items and somebody waits, somebody
waiting is served; while there is room and somebody is blocked, somebody gets
through; after close everybody is dismissed.  A queue that loses a wake-up does
not refine it.  The mutex queues implement its safety always and its `Progress`
when their clients are disciplined.  `BoundedFifo` gives each call a beginning,
one moment of effect and an end; it says that a push may fail only when the queue
is full *or a pop is under way*, a pop only when it is empty *or a push is under
way*, which is exactly what the atomic queue provides (finding 2).  With
`spurious` a call may fail without reason, and with `late` a push that begins after
`close` may go through, as one does whose load of `closed_` is not ordered after the
`close` and still returns `false` (`MayLookOpen`).  Stale loads do these two things
to the atomic queue and nothing else; the SPSC queue has no `close`, and they only
make its calls fail.
A `lossy` queue may be spoilt by a throw, in two ways only: a push that throws
leaves a hole where its value would have been, and what is behind the hole
cannot be popped any more (`Spoil`); after a pop that throws, pushes may be
refused for ever (`Lose`).  The atomic queue is lossy if its payloads throw, the
SPSC queue never is: its throwing calls leave the queue as it was.

## 3. The runs

| run | question | states |
|---|---|---|
| `deque` | does each version refine `ClosableFifo`, V1 and MPMC V3 with any consumers, V2 and V3 with one? are the waiter counts exact? which steps neglect an item? | 6 k |
| `deque_harness` | does the MPMC test end with every version, each item delivered once and in producer order? | 300 k |
| `ring` | the same of each version of the ring, for the clients it suffices for; and with every mix of calls, is it a FIFO at all? | 82 k |
| `ring_harness` | does the MPMC test end on a ring of one slot, whoever is woken? | 15 k |
| `ring_harness_v3_deadlock` | *violation*: it ends with Ring V3 and two slots | |
| `atomic_fifo` | does the atomic queue refine `BoundedFifo` with payloads that throw; what does it leak? | 1.1 M |
| `atomic_stale` | does its inductive invariant hold with stale loads and throws; who neglects a position? | 1.1 M |
| `atomic_false_empty` | *violation*: "queue empty" means empty | |
| `atomic_harness` | does the polling client receive all and end? | 177 k |
| `spsc` | is the SPSC queue a bounded FIFO with stale loads, throws and wrapping indices? | 129 k |
| `spsc_harness` | does each side see the other's progress in the end, so that the two loops of the test finish? | 3 k |
| `normalize_capacity` | does the loop stop, for which arguments, and is the result good for a mask? | 412 |

(State counts are rounded.)

**Properties worth naming.**

* `EachItemHasAnAgent`: while a consumer sleeps, the queue holds at most as many
  items as there are notifications on their way plus woken consumers.  Strong
  enough to be inductive (with the counter), and it fails as soon as one
  notification is left out.  `EachSlotHasAnAgent` is the same on both sides of
  the ring.
* `OnlySilentPushesNeglect`, `OnlySilentCallsNeglect`: with undisciplined clients
  the previous two fail, and these say by whose fault: in every step by any
  threads, the number of items (slots) that nobody is coming for grows only
  through the calls they list.  For the ring these are `try_pop`, `try_emplace`
  of V2 onto a non-empty ring, and throws.
* `NoLostWakeup` is what remains for V2 and V3 with a single consumer, and
  `NotAllAsleep` what remains with several looping ones: single consumers *do*
  sleep on a non-empty queue there, but never all of them.
* `WaiterCountExact`: the counts the conditional notifications rely on.
* `OnlyThrowsNeglect`: a position of the atomic queue is *abandoned* when it is
  claimed, unpublished and no push is at it, *unreleased* when it is popped, its
  cell not handed to the next lap and no pop is at it.  Nobody ever repairs such
  a position, so every step must leave both sets alone, except that a throw adds
  the position of its own call.  `OnlyNeglectedLeaks` says what that costs at the
  end: the destructor leaves alive the objects behind the first abandoned position
  (but not the holes) and those in unreleased cells, and no other.
* `NoneLeftBehind`: why the polling client tries once more after it has seen
  all producers done.
* `SizeIsSafe`: the subtraction in `size()` never wraps for the two owners.
* `AllReceived`: a side that finds the queue full (empty) goes by its own old
  copy of the other's index; it must come to know better.
* `ReturnsIfRepresentable`: the loop of `normalize_capacity` ends exactly when
  the word has a power of two not below the argument.

**Bounds.**  Two producers and two or three consumers: two threads of one side
are needed for a wake-up to reach the wrong one or an item to be stolen, three
consumers for one to sleep, one to be woken and one to steal.  Two values tell
an order.  The deque is cut at three elements in the open run (`MaxLen`): more
items than consumers bring nothing new to a wake-up argument, and the harness
runs have no cut.  Rings have one or two slots, so that full and empty are a
step apart (one slot is where both sides of one condition variable wait at once;
V3's conditions always hold there, so the deadlock of V3 needs two).  Atomic runs
cover positions up to 3 or 4 with two cells (`MaxPos`), so both cells are reused,
and laps overlap; the proof covers the rest.  The SPSC indices wrap at 16, and
that run is complete: nothing is cut.  `spsc_harness` sends 10 values through 4
slots with indices that wrap at 8.  `normalize_capacity` tries every argument of
a 6-bit word.

**Fairness.**  A call that has begun goes on: `WF` on each thread's steps.  For
a step that needs the mutex this says that the mutex is not withheld for ever
from a thread that keeps asking.  Weak fairness is enough although the mutex
comes and goes, because a whole critical section is one step here: the step of
a woken thread stays enabled until it is taken.  Nobody has to start a call, and
nobody may count on spurious wake-ups or on any particular choice of
`notify_one`.  The harnesses add that their loops go on.  Two strong fairness
assumptions are about the hardware: `BoundedAtomicHarness` has `SF` on successful
compare-and-swaps (`compare_exchange_weak` does not fail for ever where it could
succeed), and `SpscHarness` on loads that return the current value (a store
becomes visible in finite time, so a load in a loop cannot stay stale for ever).

**Deadlock** is checked in the open runs of the blocking queues (some call is
always possible).  The harness runs and `normalize_capacity` end and the atomic
and SPSC queues are destroyed, so there `CHECK_DEADLOCK FALSE`; that everybody
arrives at that end is what `Termination`, `AllConsumed`, `AllReceived` and
`ReturnsIfRepresentable` say.

## 4. Findings

1. **Ring V3 can hang its own test** (`ring_harness_v3_deadlock`).  `wait_pop`
   notifies a producer only if the ring was full before the pop.  Two producers
   asleep on a full ring: the first pop wakes one, the next pops (the ring is no
   longer full) wake nobody.  If the woken producer finishes while consumers
   drain the ring, the other one sleeps beside an empty ring and the consumers
   sleep too.  In the last states of the trace only spurious wake-ups are
   possible.  V2 does not have it, and it takes V3 two producers and two slots:
   with one producer, or one slot, the client's threads never all sleep for good
   (`SomebodyAwake`).
2. **"queue empty" is "front not published"** (`atomic_false_empty`): `try_pop`
   fails while a completed push is in the queue.  Clients have to know (the test
   does: `NoneLeftBehind`).

A harmless divergence without a run: deque V3 notifies whenever its waiter count
is positive, and woken consumers still count until they have the mutex, so it also
notifies when nobody is asleep, against `notes/mutex_queue_iterations.md:56`.

## 5. Proofs

All theorems hold for any finite sets of threads, any payloads and any capacity,
from the named `ASSUME`s of the modules, which TLC evaluates on every run.  The
harnesses state their safety part as `HSafeSpec`, without fairness; the theorems
are about that, so they hold whatever the scheduler does.

**From a queue to its client.**  A client makes some of the calls any client may
make.  Its proof module instantiates the queue's proof module (`QP`) with its own
items as values, shows that its constants meet the queue's assumptions
(`Instance`) and that each of its steps is a step of the queue or changes nothing
of it (`ClientSteps`), and can then cite every invariant and lemma of the queue.
The client's own invariant `Places` says which item
is in which thread's hands.

**Unbounded queues** (`MutexDequeQueue_proofs`): `TypeCorrect`,
`WaiterCountCorrect`, `CloseStrandsNobody`, `EveryItemHasAnAgent` (which speaks
of V1 and MPMC V3), `OneConsumerIsWoken` (V2 and V3 with a lone consumer),
`NeglectIsExplained`, and `Refinement`: the safety part of `ClosableFifo` is
implemented by every version, undisciplined clients and throws included.  The
argument: `Shape` says that only threads inside `wait()` are asleep.  Then one
lemma per operation states what it does to the three sets *waiting*, *woken* and
*about to notify*; the counting invariants follow from cardinalities.  `Counter`
(the waiter count is the number of threads inside `wait()`) is needed twice: for
the type of `waiting_consumers_` (it is decremented) and to know that V3 leaves a
notification out only when nobody sleeps.

**Their client** (`MutexDequeHarness_proofs`): `TypeCorrect`, `NeverAllAsleep`,
`OrderIsKept`, `NothingLostOrDoubled`, for any number of producers, consumers and
items.  Two arguments.  That somebody comes for an item is about `pc`, `sleeping`
and the waiter count: `Places` and `Counter` as above, and `Drained` (a consumer
that left its loop saw the queue closed and empty, so it is not missed).  V2 and
V3 push silently onto a non-empty queue, which is why the induction is on "not
*all* asleep" and needs that the last consumer to fall asleep saw the queue
empty.  Order and completeness are about `queue` and `received` alone
(`Accounts`): the queue and each consumer's items are ordered per producer, each
consumer's items precede those queued, and every item sent is in one place.

**Ring queues** (`RingMutexMpmcQueue_proofs`): `TypeCorrect`,
`WaiterCountsCorrect`, `CloseStrandsNobody`, `EverySlotHasAnAgent` (V1 and V2 with
disciplined clients) and `NeglectIsExplained` (all clients), by the same argument
on two sides, with `Shape` and `Counter` for both condition variables.  And
`Refinement`: the step argument needs `TailAt` (`tail` is `size`
after `head`, modulo the capacity), from which storing at `tail` appends to the
content and reading at `head` takes its first element.

**Their client** (`RingHarness_proofs`): `TypeCorrect`, `ItemsConserved`,
`SomebodyAwake`.  `ItemsConserved` rests on the effect of each call on the content
of the ring, a sequence, taken from the refinement proof; items are numbered per
producer, so what was pushed is known from `sent` (`Accounts`).  `SomebodyAwake`
(`NotAllAsleep`): this client makes none of the calls that leave an item or a slot
neglected, so none is (`Attended`, from the lemmas behind `OnlySilentCallsNeglect`);
were all threads asleep, nobody would be coming for anything, so the ring would have
neither an item nor a free slot.  V3, which notifies for the first item and the first
free slot only, leaves items and slots neglected, but with one producer its threads
are never all asleep either, by a weaker invariant (`Announced`).  If all consumers
still in their loops sleep beside an item, the producer that ended the emptiness is
still about to wake one, and a consumer that is woken comes back until the ring is
empty.  And if the only producer sleeps, the ring is full or a consumer is about to
wake it.  So if all slept, the ring would be empty and full.  The second half fails
with two producers: the one notification goes to the other one (finding 1).

**Atomic queues** (`BoundedAtomicMpmcQueue_proofs`; stale loads and throwing types
included): `InductiveInvariant`, `TypeCorrect`, `PositionsWithinOneLap`,
`CellsAreOwned`, `NeglectIsThrown`, `Refinement`, `DestructionLeavesTheNeglected`;
and for types that do not throw `DestructionLeavesNothing`.  `CellOwnership` is not
inductive.  `IInv` adds `CellInvariant`
(each of the last `Capacity` claimed positions has its own cell, in one of two
states), `ClaimInvariant` (a claimant is alone and its cell waits for it) and
`SeenInvariant` (the number a thread saw before its compare-and-swap can only
have been outdated by a larger one).  From these, a successful compare-and-swap
gets a cell in the right state although the thread looked at it arbitrarily long
ago.  The arithmetic is that positions less than a lap apart have different cells
(`CellInjective`).

`NeglectIsThrown` (`OnlyThrowsNeglect`) goes through the steps with `IInv` alone: a
sequence number that is not final belongs to a thread, and the step that ends the
thread's claim writes the final number (`NeglectAfterPublish`,
`NeglectAfterRelease`) unless it throws.  All that follows rests on it.
`Refinement` (`ImplementsFifo`): the queue's content is the values between
`dequeue_pos` and `enqueue_pos`, each in its cell, or in the hands of the producer
that claimed the position, or a hole if the position is abandoned.  The invariant
`RInv` adds to `IInv` the `Roles` (what each thread holds where in its call).  A
call that fails needs a reason `BoundedFifo` accepts (`FullHasAReason`,
`EmptyHasAReason`): the number it saw is another thread's still to write, which is
then settling or has got its value, or it is neglected, which is a hole at the
front or a lost place.  A throw maps to `Spoil` or `Lose` (`ConstructThrowsSpoils`,
`MoveOutThrowsLoses`).  So the order in which values arrive, and each arriving once,
hold for throwing types too.

`DestructionLeavesTheNeglected` (`OnlyNeglectedLeaks`): `drain_remaining` stops at
the first position `try_pop` finds unpublished.  By then every other thread is out of
the queue (`Drains`), so that position is the end of the queue or abandoned; and
which cells of the window still hold an object is known from `CellInvariant` and, for
the neglected ones, `NeglectedCells` (an abandoned cell is raw, an unreleased one is
not).  Where nothing throws nothing is ever neglected (`TendedInvariant`), and the two
sets drop out: `DestructionLeavesNothing`, the only theorem of the module with a
hypothesis on `MayThrow`.

**Their client** (`BoundedAtomicHarness_proofs`): `NobodyLeavesEarly` and
`ReceivedOnce`.  "Queue empty" does not mean empty (finding 2), so a consumer looks
once more after it has seen `done_producers` complete.  The positions handed out
are as many as the items claimed (`Count`), thus all of them once all producers
are done (`AllClaimed`), and then nobody is inside `emplace`: the second look fails
only on an empty queue (`LastLookIsRight`; items do not throw, so nothing is
abandoned: `Tended`).  For `ReceivedOnce` the
items are counted from the compare-and-swap that claims their position (`Claimed`)
to the one that claims it back (`Seen`).  Counted so, the atomic queue does to its
`Content` what the deque does to `queue`, and the lemmas on the accounts of the
unbounded queues' client are cited (`D`), with `Content`, `Claimed` and `Seen` in
the place of its variables.  `Delivered` adds that what is popped has been
published, which `Accounts` cannot know: `Content` includes the items that a
producer has claimed a position for and not stored yet (`HeadIsSent`).

**SPSC queue** (`SpscBoundedQueue_proofs`; any capacity and word size it fits
in, stale loads, throws): `InductiveInvariant`, `StorageIsReady`,
`SizeNeverWraps`, `DestructorDestroysAll`.  Indices are numbers modulo `Words`,
so "between head and tail" has no meaning as an order; everything is stated by
distances from `head`, and the lemmas `PlusIs` to `SlotIs` bring remainders down
to linear arithmetic.  `Refinement` writes the content as
a sequence of slots (`Listed`) and adds `Held` (what each side has in its hands).

**Its client** (in the same module): `NothingLost` and `EndsWithAll`, for any number
of values.  The values received, the one about to be returned and the
content of the queue, put together, are 1 to `sent`; each step moves one boundary
in that sequence (`AppendAtEnd`, `TakeFirst`, `HandOver`).  At the join the first
part has the length of the whole.

**`normalize_capacity`** (`NormalizeCapacity_proofs`): `ReturnsSmallestPower` and
`NoReturnAbove`, for words of any width (the loop is taken as written; C++ leaves open
what a loop without effects does that never ends).  Of the powers of two only what
`WordsAssumption` says is used: doubling leads from each to the next and from the
last to `Words`.  The invariant: the local variable is a power of two of which
all smaller ones are too small, or the bit has been lost and it stays 0.

**Only model-checked:** everything about liveness (the `Progress` half of
`ImplementsFifo` of the mutex queues, `Termination`, both `AllConsumed`,
`AllReceived`, `ReturnsIfRepresentable`), since liveness and `ENABLED` are out of
the prover's reach; and `MaskPicksCells`, which is about bits (`Bitwise` is
recursive).

## 6. What is not modelled

* Wrap-around of the atomic queue's positions at 2^w (the SPSC queue's is): a
  thread would have to be suspended for 2^(w-1) operations to notice, and with
  words short enough to check, a stale load would reach across half of them.
* Lifetime of the blocking queues: `close()` and `emplace` notify after the
  unlock, on an object another thread might by then have destroyed.  Every
  client in the repository joins its threads first.
* `size()` of the SPSC queue called by a third thread (it can wrap there).
* `closed()`, `is_closed()`, `size()`, `capacity()` of the other queues, which
  change nothing.
* Liveness with `try_pop` and `try_emplace` mixed into blocking use of the ring
  queues: `try_pop` notifies nobody, so a producer blocked in `push` waits for
  ever if consumers only poll.  `OnlySilentCallsNeglect` says that these calls
  are the only ones that do so.
* Payload types, padding, `yield`, timing and output of the benchmarks (their
  client loops are those of the tests); polling clients of the deque and ring
  queues, which cannot block and add nothing to the open models' `try_pop`.
* `notes/` and the build files, which have no program logic.

## 7. What is left

Models: wrap-around positions in the atomic queue (signed difference modulo 2^w,
with loads bounded in age).

Proofs: every safety property a run checks is proved, `MaskPicksCells` excepted.
`SomebodyAwake` says nothing of V3 with several producers and several slots, where in
general it does not hold (finding 1).
