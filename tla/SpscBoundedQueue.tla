-------------------------- MODULE SpscBoundedQueue --------------------------
(***************************************************************************)
(* SpscBoundedQueue: one producer, one consumer, a ring of slots, an index *)
(* stored by each side and a private copy of the other side's.             *)
(*                                                                         *)
(* Each side reads its own index exactly.  A load of the other side's may  *)
(* return any value that index has had since the reader last loaded it     *)
(* (coherence), the current one only unless stale_loads.  The indices are  *)
(* unsigned integers that wrap around at Words = 2^64; all arithmetic and  *)
(* comparisons here are modulo Words, so no bound on the run is needed.    *)
(***************************************************************************)
EXTENDS Naturals

CONSTANTS Values,      \* payloads
          Empty,       \* a slot without a live object; no value
          Capacity,    \* capacity_ after normalize_capacity
          Words        \* number of values of std::uint64_t

ASSUME SpscEmptyAssumption == Empty \notin Values
\* capacity_ is a power of two, and so is Words.
ASSUME SpscCapacityAssumption ==
  /\ Capacity \in Nat /\ Capacity >= 2
  /\ Words \in Nat /\ Words % Capacity = 0 /\ Capacity < Words

VARIABLES head, tail,              \* head_, tail_
          head_cache, tail_cache,  \* the producer's and the consumer's copy
          storage,                 \* the object in storage_[i], or Empty
          pushing, popping,        \* where the producer and the consumer are
          arg, out,                \* emplace's argument, try_pop's out
          destroyed,               \* the destructor has run
          stale_loads,             \* may a load return an old value?
          may_throw                \* may constructing or moving a T throw?

flags == <<stale_loads, may_throw>>
indices == <<head, tail, head_cache, tail_cache>>
vars == <<flags, indices, storage, pushing, popping, arg, out, destroyed>>

Index == 0..(Words - 1)
Slots == 0..(Capacity - 1)
Slot(index) == index % Capacity  \* index & mask_

Plus(a, k) == (a + k) % Words
Minus(a, b) == (a + Words - b) % Words

\* The indices from a up to b, b included, around the wrap.
UpTo(a, b) == {Plus(a, k) : k \in 0..Minus(b, a)}

Init ==
  /\ head = 0 /\ tail = 0
  /\ head_cache = 0 /\ tail_cache = 0
  /\ storage = [i \in Slots |-> Empty]
  /\ pushing = "idle" /\ popping = "idle"
  /\ arg = Empty /\ out = Empty
  /\ destroyed = FALSE
  /\ stale_loads \in BOOLEAN /\ may_throw \in BOOLEAN

LoadsOfHead == IF stale_loads THEN UpTo(head_cache, head) ELSE {head}
LoadsOfTail == IF stale_loads THEN UpTo(tail_cache, tail) ELSE {tail}

-----------------------------------------------------------------------------
(* emplace                                                                 *)

\* Mutant of NoRoom: tail instead of next.
NoRoom_OffByOne(seen) == Minus(tail, seen) > Capacity

\* next - head_cache_ > capacity_
NoRoom(seen) == Minus(Plus(tail, 1), seen) > Capacity

BeginEmplace(v) ==
  /\ pushing = "idle" /\ ~destroyed
  /\ arg' = v
  /\ pushing' = IF NoRoom(head_cache) THEN "load_head" ELSE "construct"
  /\ UNCHANGED <<flags, indices, storage, popping, out, destroyed>>

\* Mutant of LoadHead: the copy is never renewed.
LoadHead_KeepsCopy ==
  /\ pushing = "load_head"
  /\ pushing' = "idle" /\ arg' = Empty
  /\ UNCHANGED <<flags, indices, storage, popping, out, destroyed>>

LoadHead ==
  /\ pushing = "load_head"
  /\ head_cache' \in LoadsOfHead
  /\ IF NoRoom(head_cache')
       THEN pushing' = "idle" /\ arg' = Empty
       ELSE pushing' = "construct" /\ UNCHANGED arg
  /\ UNCHANGED <<flags, head, tail, tail_cache, storage, popping, out, destroyed>>

Construct ==
  /\ pushing = "construct"
  /\ storage' = [storage EXCEPT ![Slot(tail)] = arg]
  /\ pushing' = "publish"
  /\ UNCHANGED <<flags, indices, popping, arg, out, destroyed>>

\* Nothing has been stored yet: the call has no effect.
ConstructThrows ==
  /\ may_throw
  /\ pushing = "construct"
  /\ pushing' = "idle" /\ arg' = Empty
  /\ UNCHANGED <<flags, indices, storage, popping, out, destroyed>>

Publish ==
  /\ pushing = "publish"
  /\ tail' = Plus(tail, 1)
  /\ pushing' = "idle" /\ arg' = Empty
  /\ UNCHANGED <<flags, head, head_cache, tail_cache, storage, popping, out, destroyed>>

Emplace ==
  \/ \E v \in Values : BeginEmplace(v)
  \/ LoadHead
  \/ Construct \/ ConstructThrows
  \/ Publish

-----------------------------------------------------------------------------
(* try_pop                                                                 *)

BeginTryPop ==
  /\ popping = "idle" /\ ~destroyed
  /\ popping' = IF tail_cache = head THEN "load_tail" ELSE "move_out"
  /\ UNCHANGED <<flags, indices, storage, pushing, arg, out, destroyed>>

\* Mutant of LoadTail: the second comparison is forgotten.
LoadTail_Unchecked ==
  /\ popping = "load_tail"
  /\ tail_cache' \in LoadsOfTail
  /\ popping' = "move_out"
  /\ UNCHANGED <<flags, head, tail, head_cache, storage, pushing, arg, out, destroyed>>

LoadTail ==
  /\ popping = "load_tail"
  /\ tail_cache' \in LoadsOfTail
  /\ popping' = IF tail_cache' = head THEN "idle" ELSE "move_out"
  /\ UNCHANGED <<flags, head, tail, head_cache, storage, pushing, arg, out, destroyed>>

\* out = std::move(*slot); slot->~T().
MoveOut ==
  /\ popping = "move_out"
  /\ out' = storage[Slot(head)]
  /\ storage' = [storage EXCEPT ![Slot(head)] = Empty]
  /\ popping' = "release"
  /\ UNCHANGED <<flags, indices, pushing, arg, destroyed>>

\* The assignment throws: the object stays at the front of the queue.
MoveOutThrows ==
  /\ may_throw
  /\ popping = "move_out"
  /\ popping' = "idle"
  /\ UNCHANGED <<flags, indices, storage, pushing, arg, out, destroyed>>

Release ==
  /\ popping = "release"
  /\ head' = Plus(head, 1)
  /\ popping' = "idle" /\ out' = Empty
  /\ UNCHANGED <<flags, tail, head_cache, tail_cache, storage, pushing, arg, destroyed>>

TryPop ==
  \/ BeginTryPop
  \/ LoadTail
  \/ MoveOut \/ MoveOutThrows
  \/ Release

-----------------------------------------------------------------------------
(* The destructor, when both sides are done.                               *)

Idle == pushing = "idle" /\ popping = "idle"

\* The storage after drain() has destroyed the objects from head_ to last.
Drained(last) ==
  LET live == UpTo(head, last) \ {last}
  IN  [i \in Slots |-> IF \E index \in live : Slot(index) = i THEN Empty ELSE storage[i]]

\* Mutant of Destroy: the consumer's copy of tail_ is used.
Destroy_UpToCache ==
  /\ Idle /\ ~destroyed
  /\ storage' = Drained(tail_cache)
  /\ destroyed' = TRUE
  /\ UNCHANGED <<flags, indices, pushing, popping, arg, out>>

Destroy ==
  /\ Idle /\ ~destroyed
  /\ storage' = Drained(tail)
  /\ destroyed' = TRUE
  /\ UNCHANGED <<flags, indices, pushing, popping, arg, out>>

Next == Emplace \/ TryPop \/ Destroy

Spec == Init /\ [][Next]_vars

-----------------------------------------------------------------------------
(* Properties.                                                             *)

TypeOK ==
  /\ head \in Index /\ tail \in Index
  /\ head_cache \in Index /\ tail_cache \in Index
  /\ storage \in [Slots -> Values \cup {Empty}]
  /\ pushing \in {"idle", "load_head", "construct", "publish"}
  /\ popping \in {"idle", "load_tail", "move_out", "release"}
  /\ arg \in Values \cup {Empty} /\ out \in Values \cup {Empty}
  /\ destroyed \in BOOLEAN
  /\ stale_loads \in BOOLEAN /\ may_throw \in BOOLEAN

\* Around the wrap, head_cache_ <= head_ <= tail_cache_ <= tail_, and the
\* first and the last are at most a lap apart.
IndicesInOrder ==
  /\ Minus(tail, head_cache) <= Capacity
  /\ Minus(head, head_cache) <= Minus(tail_cache, head_cache)
  /\ Minus(tail_cache, head_cache) <= Minus(tail, head_cache)

\* Exactly the slots from head_ to tail_ hold an object, apart from the one
\* each side is working on: objects are constructed in raw storage only and
\* only live ones are moved out, although each side trusts an old copy.
SlotsInUse ==
  ~destroyed =>
    \A k \in 0..(Capacity - 1) :
      LET index == Plus(head, k)
          live == storage[Slot(index)] # Empty
      IN  IF k < Minus(tail, head)
            THEN live <=> ~(k = 0 /\ popping = "release")
            ELSE live <=> (index = tail /\ pushing = "publish")

\* What each side has found out stays true until it acts on it.
Ready ==
  /\ pushing # "idle" => ~destroyed /\ arg \in Values
  /\ pushing \in {"construct", "publish"} => ~NoRoom(head_cache)
  /\ popping # "idle" => ~destroyed
  /\ popping \in {"move_out", "release"} => tail_cache # head

IInv == TypeOK /\ IndicesInOrder /\ SlotsInUse /\ Ready

\* size() called by the producer between two pushes may overstate the number
\* of elements, but never beyond the capacity; called by the consumer it may
\* understate it.  So neither side's subtraction ever wraps below zero.
SizeIsSafe ==
  LET elements == Minus(tail, head)
  IN  /\ \A h \in LoadsOfHead : elements <= Minus(tail, h) /\ Minus(tail, h) <= Capacity
      /\ \A t \in LoadsOfTail : Minus(t, head) <= elements

\* Destruction leaves no object behind, whatever was thrown before.
NothingLeaks == destroyed => \A i \in Slots : storage[i] = Empty

Producer == "producer"
Consumer == "consumer"

\* Elements from the first that has not been moved out.
Content ==
  LET moved == IF popping = "release" THEN 1 ELSE 0
      length == IF destroyed THEN 0 ELSE Minus(tail, head) - moved
  IN  [i \in 1..length |-> storage[Slot(Plus(head, moved + i - 1))]]

Fifo == INSTANCE BoundedFifo WITH
  Producers <- {Producer},
  Consumers <- {Consumer},
  None <- Empty,
  late <- FALSE, spurious <- stale_loads \/ may_throw, lossy <- FALSE, lost <- FALSE,
  closed <- destroyed,
  items <- Content,
  asked <- [p \in {Producer} |-> arg],
  settling <- [p \in {Producer} |-> Empty],
  wanting <- IF popping \in {"load_tail", "move_out"} THEN {Consumer} ELSE {},
  got <- [c \in {Consumer} |-> out]

\* The queue is a bounded FIFO: a push takes effect when tail_ is stored, a
\* pop when the object is moved out.  Where loads return current values and no
\* payload throws, a push fails only on a full queue or beside a pop under way
\* (which has moved the object out and not stored head_ yet), a pop only on an
\* empty queue, although each side looks at its copy of the other's index first.
ImplementsFifo == Fifo!Spec
=============================================================================
