----------------------- MODULE BoundedAtomicMpmcQueue -----------------------
(***************************************************************************)
(* BoundedAtomicMpmcQueueV1, V2 and V3: a ring of cells, each with a       *)
(* sequence number that says whose turn it is, and two positions claimed   *)
(* by compare-and-swap.  The versions differ in alignment and in a yield   *)
(* after failed attempts (V3), neither of which changes a state.           *)
(*                                                                         *)
(* Every access to an atomic is a step.  Positions are relaxed loads and   *)
(* may return an old value, and nothing orders a load of "sequence" after  *)
(* the stores of threads the caller has not synchronised with, nor does    *)
(* anything make a caller see a close that was not ordered before it:      *)
(* where StaleLoads holds, a load may return any value the variable has    *)
(* had.                                                                    *)
(* A successful compare_exchange works on the current value.               *)
(*                                                                         *)
(* Positions are naturals here; the code's wrap around at 2^w.             *)
(***************************************************************************)
EXTENDS Integers

CONSTANTS Producers,   \* threads that call emplace (try_push)
          Consumers,   \* threads that call try_pop
          Main,        \* thread that closes the queue and destroys it
          Values,      \* payloads
          Empty,       \* a cell without a live object; no value
          Capacity,    \* capacity_ after normalize_capacity
          StaleLoads,  \* may a load return an old value?
          MayThrow,    \* may constructing or moving a T throw?
          MaxPos       \* bound: the model claims positions below this one

Poppers == Consumers \cup {Main}
Threads == Producers \cup Poppers

ASSUME RolesAssumption ==
  /\ Producers \cap Poppers = {}
  /\ Main \notin Consumers
ASSUME EmptyAssumption == Empty \notin Values
ASSUME CapacityAssumption == Capacity \in Nat /\ Capacity >= 2
ASSUME FlagsAssumption == StaleLoads \in BOOLEAN /\ MayThrow \in BOOLEAN
ASSUME MaxPosAssumption == MaxPos \in Nat

VARIABLES enqueue_pos,  \* enqueue_pos_
          dequeue_pos,  \* dequeue_pos_
          sequence,     \* cells_[i].sequence
          storage,      \* the object in cells_[i].storage, or Empty
          closed,       \* closed_
          pc,           \* the access each thread makes next
          pos,          \* the local variable pos
          held,         \* emplace's argument, try_pop's out
          lifetime      \* "alive", "draining" in the destructor, "gone"

shared == <<enqueue_pos, dequeue_pos, sequence, storage, closed, lifetime>>
vars == <<shared, pc, pos, held>>

Cells == 0..(Capacity - 1)

\* pos & mask_, with mask_ + 1 a power of two.
Cell(p) == p % Capacity

Locations ==
  {"idle",
   "e_pos", "e_seq", "e_cas", "construct", "publish",   \* emplace
   "p_pos", "p_seq", "p_cas", "move_out", "release"}    \* try_pop

TypeOK ==
  /\ enqueue_pos \in Nat /\ dequeue_pos \in Nat
  /\ sequence \in [Cells -> Nat]
  /\ storage \in [Cells -> Values \cup {Empty}]
  /\ closed \in BOOLEAN
  /\ pc \in [Threads -> Locations]
  /\ pos \in [Threads -> Nat]
  /\ held \in [Threads -> Values \cup {Empty}]
  /\ lifetime \in {"alive", "draining", "gone"}

\* Mutant of Init: sequence numbers start one short.
Init_OffByOne ==
  /\ enqueue_pos = 0 /\ dequeue_pos = 0
  /\ sequence = [i \in Cells |-> i - 1]
  /\ storage = [i \in Cells |-> Empty]
  /\ closed = FALSE
  /\ pc = [t \in Threads |-> "idle"]
  /\ pos = [t \in Threads |-> 0]
  /\ held = [t \in Threads |-> Empty]
  /\ lifetime = "alive"

Init ==
  /\ enqueue_pos = 0 /\ dequeue_pos = 0
  /\ sequence = [i \in Cells |-> i]
  /\ storage = [i \in Cells |-> Empty]
  /\ closed = FALSE
  /\ pc = [t \in Threads |-> "idle"]
  /\ pos = [t \in Threads |-> 0]
  /\ held = [t \in Threads |-> Empty]
  /\ lifetime = "alive"

\* The destructor runs after every other call: its thread sees all stores.
SeesOld == StaleLoads /\ lifetime = "alive"

\* What a load of a position that is now p may return.
LoadsOfPos(p) == IF SeesOld THEN 0..p ELSE {p}

\* What a load of cell i's sequence may return: i + k*Capacity before the
\* k-th push into the cell, one more after it.
LoadsOfSequence(i) ==
  IF SeesOld THEN {s \in 0..sequence[i] : Cell(s) = i \/ Cell(s - 1) = i}
             ELSE {sequence[i]}

\* What a load of closed_ may return is false: it was, before the only close.
MayLookOpen == SeesOld \/ ~closed

Goto(t, location) == pc' = [pc EXCEPT ![t] = location]

\* The call of t ends; what its locals held is dropped.
Leave(t) ==
  /\ Goto(t, "idle")
  /\ pos' = [pos EXCEPT ![t] = 0]
  /\ held' = [held EXCEPT ![t] = Empty]

-----------------------------------------------------------------------------
(* emplace                                                                 *)

\* emplace returns false at once if it sees the queue closed: no step.
BeginEmplace(t, v) ==
  /\ lifetime = "alive"
  /\ pc[t] = "idle"
  /\ MayLookOpen
  /\ held' = [held EXCEPT ![t] = v]
  /\ Goto(t, "e_pos")
  /\ UNCHANGED <<shared, pos>>

LoadEnqueuePos(t) ==
  /\ pc[t] = "e_pos"
  /\ \E p \in LoadsOfPos(enqueue_pos) : pos' = [pos EXCEPT ![t] = p]
  /\ Goto(t, "e_seq")
  /\ UNCHANGED <<shared, held>>

\* Mutant of EmplaceSeesFree: dif <= 0 instead of dif == 0.
EmplaceSeesFree_OrFull(t) ==
  /\ pc[t] = "e_seq"
  /\ \E seq \in LoadsOfSequence(Cell(pos[t])) : seq <= pos[t]
  /\ Goto(t, "e_cas")
  /\ UNCHANGED <<shared, pos, held>>

\* The three outcomes of comparing the cell's sequence number with pos.
EmplaceSeesFree(t) ==
  /\ pc[t] = "e_seq"
  /\ \E seq \in LoadsOfSequence(Cell(pos[t])) : seq = pos[t]
  /\ Goto(t, "e_cas")
  /\ UNCHANGED <<shared, pos, held>>

EmplaceSeesFull(t) ==
  /\ pc[t] = "e_seq"
  /\ \E seq \in LoadsOfSequence(Cell(pos[t])) : seq < pos[t]
  /\ Leave(t)
  /\ UNCHANGED shared

EmplaceSeesTaken(t) ==
  /\ pc[t] = "e_seq"
  /\ \E seq \in LoadsOfSequence(Cell(pos[t])) : seq > pos[t]
  /\ Goto(t, "e_pos")
  /\ UNCHANGED <<shared, pos, held>>

ClaimEnqueue(t) ==
  /\ pc[t] = "e_cas"
  /\ enqueue_pos = pos[t]
  /\ enqueue_pos < MaxPos
  /\ enqueue_pos' = enqueue_pos + 1
  /\ Goto(t, "construct")
  /\ UNCHANGED <<dequeue_pos, sequence, storage, closed, lifetime, pos, held>>

\* compare_exchange_weak fails, with or without reason, and reloads pos.  (Only
\* a successful one is bound to the current value: a failed one is a load.)
RetryEnqueue(t) ==
  /\ pc[t] = "e_cas"
  /\ \E p \in LoadsOfPos(enqueue_pos) : pos' = [pos EXCEPT ![t] = p]
  /\ Goto(t, "e_seq")
  /\ UNCHANGED <<shared, held>>

Construct(t) ==
  /\ pc[t] = "construct"
  /\ storage' = [storage EXCEPT ![Cell(pos[t])] = held[t]]
  /\ Goto(t, "publish")
  /\ UNCHANGED <<enqueue_pos, dequeue_pos, sequence, closed, lifetime, pos, held>>

\* The constructor throws: the claimed position is never published.
ConstructThrows(t) ==
  /\ MayThrow
  /\ pc[t] = "construct"
  /\ Leave(t)
  /\ UNCHANGED shared

Publish(t) ==
  /\ pc[t] = "publish"
  /\ sequence' = [sequence EXCEPT ![Cell(pos[t])] = pos[t] + 1]
  /\ Leave(t)
  /\ UNCHANGED <<enqueue_pos, dequeue_pos, storage, closed, lifetime>>

Emplace(t) ==
  \/ \E v \in Values : BeginEmplace(t, v)
  \/ LoadEnqueuePos(t)
  \/ EmplaceSeesFree(t) \/ EmplaceSeesFull(t) \/ EmplaceSeesTaken(t)
  \/ ClaimEnqueue(t) \/ RetryEnqueue(t)
  \/ Construct(t) \/ ConstructThrows(t) \/ Publish(t)

-----------------------------------------------------------------------------
(* try_pop                                                                 *)

BeginTryPop(t) ==
  /\ pc[t] = "idle"
  /\ lifetime = IF t = Main THEN "draining" ELSE "alive"
  /\ Goto(t, "p_pos")
  /\ UNCHANGED <<shared, pos, held>>

LoadDequeuePos(t) ==
  /\ pc[t] = "p_pos"
  /\ \E p \in LoadsOfPos(dequeue_pos) : pos' = [pos EXCEPT ![t] = p]
  /\ Goto(t, "p_seq")
  /\ UNCHANGED <<shared, held>>

TryPopSeesItem(t) ==
  /\ pc[t] = "p_seq"
  /\ \E seq \in LoadsOfSequence(Cell(pos[t])) : seq = pos[t] + 1
  /\ Goto(t, "p_cas")
  /\ UNCHANGED <<shared, pos, held>>

\* In the destructor, the loop of drain_remaining ends here.
TryPopSeesEmpty(t) ==
  /\ pc[t] = "p_seq"
  /\ \E seq \in LoadsOfSequence(Cell(pos[t])) : seq < pos[t] + 1
  /\ Leave(t)
  /\ lifetime' = IF t = Main THEN "gone" ELSE lifetime
  /\ UNCHANGED <<enqueue_pos, dequeue_pos, sequence, storage, closed>>

TryPopSeesTaken(t) ==
  /\ pc[t] = "p_seq"
  /\ \E seq \in LoadsOfSequence(Cell(pos[t])) : seq > pos[t] + 1
  /\ Goto(t, "p_pos")
  /\ UNCHANGED <<shared, pos, held>>

\* Mutant of ClaimDequeue: the cell is released before the object is moved out.
ClaimDequeue_ReleasesFirst(t) ==
  /\ pc[t] = "p_cas"
  /\ dequeue_pos = pos[t]
  /\ dequeue_pos' = dequeue_pos + 1
  /\ sequence' = [sequence EXCEPT ![Cell(pos[t])] = pos[t] + Capacity]
  /\ Goto(t, "move_out")
  /\ UNCHANGED <<enqueue_pos, storage, closed, lifetime, pos, held>>

ClaimDequeue(t) ==
  /\ pc[t] = "p_cas"
  /\ dequeue_pos = pos[t]
  /\ dequeue_pos' = dequeue_pos + 1
  /\ Goto(t, "move_out")
  /\ UNCHANGED <<enqueue_pos, sequence, storage, closed, lifetime, pos, held>>

RetryDequeue(t) ==
  /\ pc[t] = "p_cas"
  /\ \E p \in LoadsOfPos(dequeue_pos) : pos' = [pos EXCEPT ![t] = p]
  /\ Goto(t, "p_seq")
  /\ UNCHANGED <<shared, held>>

\* Mutant of MoveOut: the destructor call is forgotten.
MoveOut_NoDestroy(t) ==
  /\ pc[t] = "move_out"
  /\ held' = [held EXCEPT ![t] = storage[Cell(pos[t])]]
  /\ Goto(t, "release")
  /\ UNCHANGED <<enqueue_pos, dequeue_pos, sequence, storage, closed, lifetime, pos>>

\* out = std::move(*slot); slot->~T().
MoveOut(t) ==
  /\ pc[t] = "move_out"
  /\ held' = [held EXCEPT ![t] = storage[Cell(pos[t])]]
  /\ storage' = [storage EXCEPT ![Cell(pos[t])] = Empty]
  /\ Goto(t, "release")
  /\ UNCHANGED <<enqueue_pos, dequeue_pos, sequence, closed, lifetime, pos>>

\* The assignment throws: the object stays and the cell is never released.
\* (In the destructor a throw ends the program.)
MoveOutThrows(t) ==
  /\ MayThrow
  /\ t # Main
  /\ pc[t] = "move_out"
  /\ Leave(t)
  /\ UNCHANGED shared

\* Mutant of Release: pos + 1, as in emplace, instead of pos + capacity_.
Release_SameLap(t) ==
  /\ pc[t] = "release"
  /\ sequence' = [sequence EXCEPT ![Cell(pos[t])] = pos[t] + 1]
  /\ Leave(t)
  /\ UNCHANGED <<enqueue_pos, dequeue_pos, storage, closed, lifetime>>

Release(t) ==
  /\ pc[t] = "release"
  /\ sequence' = [sequence EXCEPT ![Cell(pos[t])] = pos[t] + Capacity]
  /\ Leave(t)
  /\ UNCHANGED <<enqueue_pos, dequeue_pos, storage, closed, lifetime>>

TryPop(t) ==
  \/ BeginTryPop(t)
  \/ LoadDequeuePos(t)
  \/ TryPopSeesItem(t) \/ TryPopSeesEmpty(t) \/ TryPopSeesTaken(t)
  \/ ClaimDequeue(t) \/ RetryDequeue(t)
  \/ MoveOut(t) \/ MoveOutThrows(t) \/ Release(t)

-----------------------------------------------------------------------------
Close ==
  /\ lifetime = "alive"
  /\ closed' = TRUE
  /\ UNCHANGED <<enqueue_pos, dequeue_pos, sequence, storage, lifetime, pc, pos, held>>

\* ~BoundedAtomicMpmcQueueV1: nobody is inside the queue any more.
BeginDestructor ==
  /\ lifetime = "alive"
  /\ \A t \in Threads : pc[t] = "idle"
  /\ lifetime' = "draining"
  /\ UNCHANGED <<enqueue_pos, dequeue_pos, sequence, storage, closed, pc, pos, held>>

Next ==
  \/ \E t \in Producers : Emplace(t)
  \/ \E t \in Poppers : TryPop(t)
  \/ Close
  \/ BeginDestructor

Spec == Init /\ [][Next]_vars

-----------------------------------------------------------------------------
(* Properties.                                                             *)

Producing(t) == pc[t] \in {"construct", "publish"}
Consuming(t) == pc[t] \in {"move_out", "release"}
Claiming(t) == Producing(t) \/ Consuming(t)

\* Two claims never concern the same cell at the same time, so the plain
\* accesses to storage never race; an object is only constructed in raw
\* storage and only moved out of while it lives.
CellOwnership ==
  /\ \A t, u \in Threads :
       Claiming(t) /\ Claiming(u) /\ Cell(pos[t]) = Cell(pos[u]) => t = u
  /\ \A t \in Threads :
       /\ pc[t] = "construct" => storage[Cell(pos[t])] = Empty
       /\ pc[t] = "move_out" => storage[Cell(pos[t])] # Empty

\* Pops never overtake pushes, and pushes stay within one lap of pops.
WithinOneLap ==
  dequeue_pos <= enqueue_pos /\ enqueue_pos <= dequeue_pos + Capacity

\* Every cell stands for one of the last Capacity positions claimed by pushes.
Window == (enqueue_pos - Capacity)..(enqueue_pos - 1)

\* A position still to be popped is unpublished, or holds an object; one that
\* has been popped is not released yet, or is raw storage for the next lap.
CellInvariant ==
  \A p \in Window :
    LET seq == sequence[Cell(p)]
        raw == storage[Cell(p)] = Empty
    IN  IF p >= dequeue_pos
          THEN seq = p \/ (seq = p + 1 /\ ~raw)
          ELSE seq = p + 1 \/ (seq = p + Capacity /\ raw)

\* Whoever has claimed a position is alone with it, and the cell waits for
\* that thread's next access.
ClaimInvariant ==
  /\ \A t \in Threads :
       /\ Producing(t) =>
            /\ dequeue_pos <= pos[t] /\ pos[t] < enqueue_pos
            /\ sequence[Cell(pos[t])] = pos[t]
            /\ storage[Cell(pos[t])] = Empty <=> pc[t] = "construct"
       /\ Consuming(t) =>
            /\ enqueue_pos - Capacity <= pos[t] /\ pos[t] < dequeue_pos
            /\ sequence[Cell(pos[t])] = pos[t] + 1
            /\ storage[Cell(pos[t])] = Empty <=> pc[t] = "release"
  /\ \A t, u \in Threads :
       Claiming(t) /\ Claiming(u) /\ pos[t] = pos[u] => t = u

\* What a thread about to claim has seen can only have been outdated by a
\* larger number: the compare-and-swap alone decides.
SeenInvariant ==
  \A t \in Threads :
    /\ pc[t] = "e_cas" => sequence[Cell(pos[t])] >= pos[t]
    /\ pc[t] = "p_cas" => sequence[Cell(pos[t])] >= pos[t] + 1
    /\ pc[t] \in {"e_pos", "e_seq", "e_cas", "construct"} => held[t] \in Values

IInv == TypeOK /\ WithinOneLap /\ CellInvariant /\ ClaimInvariant /\ SeenInvariant

\* Positions that no push will publish and no pop will release: they are still
\* some call's to hand on, and the call is over.
HasPusher(p) == \E t \in Producers : Producing(t) /\ pos[t] = p
HasPopper(p) == \E t \in Poppers : Consuming(t) /\ pos[t] = p

Abandoned ==
  {p \in dequeue_pos..(enqueue_pos - 1) : sequence[Cell(p)] = p /\ ~HasPusher(p)}
Unreleased ==
  {p \in (enqueue_pos - Capacity)..(dequeue_pos - 1) : sequence[Cell(p)] = p + 1 /\ ~HasPopper(p)}

\* Only the call that throws neglects a position, its own; and nothing that is
\* called later makes up for it.
OnlyThrowsNeglect ==
  [][/\ Abandoned' = Abandoned \cup {pos[t] : t \in {u \in Producers : ConstructThrows(u)}}
     /\ Unreleased' = Unreleased \cup {pos[t] : t \in {u \in Consumers : MoveOutThrows(u)}}]_vars

\* drain_remaining stops at the end of the queue, or where a constructor has
\* thrown.  What the destructor leaves alive is what is behind that place, and
\* the objects that could not be moved out: nothing else, and no less.
OnlyNeglectedLeaks ==
  lifetime = "gone" =>
    /\ dequeue_pos = enqueue_pos \/ dequeue_pos \in Abandoned
    /\ \A p \in Window :
         storage[Cell(p)] # Empty <=> p \in Unreleased \/ (p >= dequeue_pos /\ p \notin Abandoned)

\* Destruction leaves no object behind (if nothing was thrown on the way).
NothingLeaks ==
  lifetime = "gone" => \A i \in Cells : storage[i] = Empty

\* try_pop: "return false;  // queue empty" (bounded_atomic_mpmc_queue_v1.hpp:77).
EmptyMeansEmpty ==
  [][\A t \in Consumers :
       TryPopSeesEmpty(t) =>
         \A p \in dequeue_pos..(enqueue_pos - 1) : sequence[Cell(p)] # p + 1]_vars

\* The value of an unpopped position: in its cell, still with its pusher, or none.
ValueAt(p) ==
  IF p \in Abandoned THEN Empty
  ELSE IF storage[Cell(p)] # Empty THEN storage[Cell(p)]
  ELSE held[CHOOSE t \in Producers : pc[t] = "construct" /\ pos[t] = p]

\* The claimed positions that are not popped yet, oldest first.
Content == [i \in 1..(enqueue_pos - dequeue_pos) |-> ValueAt(dequeue_pos + i - 1)]

\* The calls under way, before their position is claimed and after it.
Asked ==
  [t \in Producers |-> IF pc[t] \in {"e_pos", "e_seq", "e_cas"} THEN held[t] ELSE Empty]
Settling == [t \in Producers |-> IF Producing(t) THEN held[t] ELSE Empty]
Wanting == {t \in Poppers : pc[t] \in {"p_pos", "p_seq", "p_cas"}}
Got ==
  [t \in Poppers |-> IF pc[t] = "move_out" THEN storage[Cell(pos[t])] ELSE held[t]]

\* The queue is a FIFO whose pushes and pops take effect when the position is
\* claimed; payloads that throw spoil it in the two ways BoundedFifo describes.
Fifo == INSTANCE BoundedFifo WITH
  Consumers <- Poppers,
  None <- Empty,
  late <- StaleLoads, spurious <- StaleLoads, lossy <- MayThrow, lost <- Unreleased # {},
  items <- Content, asked <- Asked, settling <- Settling,
  wanting <- Wanting, got <- Got

ImplementsFifo == Fifo!Spec
=============================================================================
