----------------------- MODULE SpscBoundedQueue_proofs -----------------------
(***************************************************************************)
(* SpscBoundedQueue for any capacity and any width of the indices, and at  *)
(* the end SpscHarness, the client it has in the tests.                    *)
(***************************************************************************)
EXTENDS SpscHarness, SequenceTheorems, TLAPS

-----------------------------------------------------------------------------
(* Remainders.                                                             *)

LEMMA Division ==
  ASSUME NEW n \in Nat \ {0}, NEW x \in Nat
  PROVE  \E q \in Nat, r \in 0..(n - 1) : x = q * n + r /\ x % n = r
<1>1. x = (x \div n) * n + (x % n)
  BY SMTT(60)
<1>2. x \div n \in Nat /\ x % n \in 0..(n - 1)
  OBVIOUS
<1> QED
  BY <1>1, <1>2

LEMMA Remainder ==
  ASSUME NEW n \in Nat \ {0}, NEW x \in Nat, NEW q \in Nat, NEW r \in 0..(n - 1),
         x = q * n + r
  PROVE  x % n = r
OBVIOUS

LEMMA RemainderOfSum ==
  ASSUME NEW n \in Nat \ {0}, NEW x \in Nat, NEW d \in 0..(n - 1)
  PROVE  (x + d) % n = IF (x % n) + d < n THEN (x % n) + d ELSE (x % n) + d - n
<1>1. PICK q \in Nat, r \in 0..(n - 1) : x = q * n + r /\ x % n = r
  BY Division
<1>2. q * n \in Nat /\ (q + 1) * n = q * n + n /\ q + 1 \in Nat
  OBVIOUS
<1>3. CASE r + d < n
  <2>1. r + d \in 0..(n - 1) /\ x + d = q * n + (r + d) /\ x + d \in Nat
    BY <1>1, <1>2, <1>3
  <2>2. (x + d) % n = r + d
    BY <2>1, Remainder
  <2> QED
    BY <1>1, <1>3, <2>2
<1>4. CASE ~(r + d < n)
  <2>1. r + d - n \in 0..(n - 1) /\ x + d = (q + 1) * n + (r + d - n) /\ x + d \in Nat
    BY <1>1, <1>2, <1>4
  <2>2. (x + d) % n = r + d - n
    BY <1>2, <2>1, Remainder
  <2> QED
    BY <1>1, <1>4, <2>2
<1> QED
  BY <1>3, <1>4

LEMMA RemainderOfMultiple ==
  ASSUME NEW n \in Nat \ {0}, NEW x \in Nat, NEW k \in Nat
  PROVE  (x + k * n) % n = x % n
<1>1. PICK q \in Nat, r \in 0..(n - 1) : x = q * n + r /\ x % n = r
  BY Division
<1>2. k * n \in Nat /\ (q + k) * n = q * n + k * n /\ q + k \in Nat
  OBVIOUS
<1>3. x + k * n = (q + k) * n + r /\ x + k * n \in Nat
  BY <1>1, <1>2
<1> QED
  BY <1>1, <1>2, <1>3, Remainder

\* Words is at least twice the capacity.
LEMMA Sizes ==
  /\ Capacity \in Nat \ {0} /\ Words \in Nat \ {0}
  /\ Capacity >= 2 /\ 2 * Capacity <= Words
  /\ \E m \in Nat : Words = m * Capacity
<1>1. Capacity \in Nat \ {0} /\ Words \in Nat \ {0} /\ Capacity >= 2 /\ Capacity < Words
  BY SpscCapacityAssumption
<1>2. PICK m \in Nat, r \in 0..(Capacity - 1) : Words = m * Capacity + r /\ Words % Capacity = r
  BY <1>1, Division
<1>3. Words = m * Capacity
  BY <1>1, <1>2, SpscCapacityAssumption
<1>4. m >= 2
  <2>1. m # 0
    BY <1>1, <1>3
  <2>2. m # 1
    BY <1>1, <1>3
  <2> QED
    BY <2>1, <2>2
<1>5. m * Capacity >= 2 * Capacity
  <2>1. PICK e \in Nat : m = e + 2
    <3>1. m - 2 \in Nat /\ m = (m - 2) + 2
      BY <1>4
    <3> QED
      BY <3>1
  <2>2. m * Capacity = e * Capacity + 2 * Capacity /\ e * Capacity \in Nat
    BY <1>1, <2>1
  <2> QED
    BY <1>1, <2>2
<1> QED
  BY <1>1, <1>3, <1>5

\* Addition and subtraction around the wrap.
LEMMA PlusIs ==
  ASSUME NEW a \in Index, NEW k \in 0..Words
  PROVE  /\ Plus(a, k) = IF a + k < Words THEN a + k ELSE a + k - Words
         /\ Plus(a, k) \in Index
<1>1. a \in Nat /\ a < Words /\ k \in Nat /\ Words \in Nat \ {0}
  BY Sizes DEF Index
<1>2. CASE a + k < Words
  BY <1>1, <1>2 DEF Plus, Index
<1>3. CASE ~(a + k < Words)
  <2>1. a + k - Words \in 0..(Words - 1) /\ a + k \in Nat /\ a + k = 1 * Words + (a + k - Words)
    BY <1>1, <1>3
  <2>2. (a + k) % Words = a + k - Words
    BY <1>1, <2>1, Remainder
  <2> QED
    BY <1>3, <2>1, <2>2 DEF Plus, Index
<1> QED
  BY <1>2, <1>3

LEMMA MinusIs ==
  ASSUME NEW a \in Index, NEW b \in Index
  PROVE  /\ Minus(a, b) = IF b <= a THEN a - b ELSE a + Words - b
         /\ Minus(a, b) \in Index
<1>1. a \in Nat /\ b \in Nat /\ a < Words /\ b < Words /\ Words \in Nat \ {0}
  BY Sizes DEF Index
<1>2. CASE ~(b <= a)
  BY <1>1, <1>2 DEF Minus, Index
<1>3. CASE b <= a
  <2>1. a - b \in 0..(Words - 1) /\ a + Words - b \in Nat /\ a + Words - b = 1 * Words + (a - b)
    BY <1>1, <1>3
  <2>2. (a + Words - b) % Words = a - b
    BY <1>1, <2>1, Remainder
  <2> QED
    BY <1>3, <2>1, <2>2 DEF Minus, Index
<1> QED
  BY <1>2, <1>3

\* The difference leads from the one to the other.
LEMMA PlusMinus ==
  ASSUME NEW a \in Index, NEW b \in Index
  PROVE  Plus(a, Minus(b, a)) = b
<1>1. a \in 0..(Words - 1) /\ b \in 0..(Words - 1) /\ Words \in Nat \ {0}
  BY Sizes DEF Index
<1>2. Minus(b, a) = (IF a <= b THEN b - a ELSE b + Words - a)
  BY MinusIs
<1>3. Minus(b, a) \in 0..Words
  BY <1>1, <1>2
<1>4. Plus(a, Minus(b, a)) = (IF a + Minus(b, a) < Words THEN a + Minus(b, a)
                                                       ELSE a + Minus(b, a) - Words)
  BY <1>3, PlusIs
<1> QED
  BY <1>1, <1>2, <1>4

LEMMA PlusPlus ==
  ASSUME NEW a \in Index, NEW k \in 0..(Words - 1)
  PROVE  Plus(Plus(a, 1), k) = Plus(a, k + 1)
<1>1. a \in 0..(Words - 1) /\ Words \in Nat \ {0} /\ 1 \in 0..Words
      /\ k \in 0..Words /\ k + 1 \in 0..Words
  BY Sizes DEF Index
<1>2. /\ Plus(a, 1) = (IF a + 1 < Words THEN a + 1 ELSE a + 1 - Words)
      /\ Plus(a, k + 1) = (IF a + (k + 1) < Words THEN a + (k + 1) ELSE a + (k + 1) - Words)
      /\ Plus(a, 1) \in Index
  BY <1>1, PlusIs
<1>3. Plus(Plus(a, 1), k) = (IF Plus(a, 1) + k < Words THEN Plus(a, 1) + k
                                                      ELSE Plus(a, 1) + k - Words)
  BY <1>1, <1>2, PlusIs
<1> QED
  BY <1>1, <1>2, <1>3

\* Counting slots from that of an index goes once around the ring, through the
\* wrap of the index too.
LEMMA SlotIs ==
  ASSUME NEW a \in Index, NEW k \in 0..Capacity
  PROVE  /\ Slot(a) \in Slots
         /\ Slot(Plus(a, k)) = IF Slot(a) + k < Capacity THEN Slot(a) + k
                                                         ELSE Slot(a) + k - Capacity
<1>1. /\ a \in Nat /\ a < Words /\ k \in Nat /\ k <= Capacity
      /\ Words \in Nat \ {0} /\ Capacity \in Nat \ {0} /\ 2 * Capacity <= Words
  BY Sizes DEF Index
<1>2. Slot(a) \in Slots
  BY <1>1 DEF Slot, Slots
<1>3. (a + k) % Capacity = IF Slot(a) + k < Capacity THEN Slot(a) + k
                                                      ELSE Slot(a) + k - Capacity
  <2>1. CASE k < Capacity
    <3>1. k \in 0..(Capacity - 1)
      BY <1>1, <2>1
    <3> QED
      BY <1>1, <3>1, RemainderOfSum DEF Slot
  <2>2. CASE k = Capacity
    <3>1. (a + 1 * Capacity) % Capacity = a % Capacity
      BY <1>1, RemainderOfMultiple
    <3> QED
      BY <1>1, <1>2, <2>2, <3>1 DEF Slot, Slots
  <2> QED
    BY <1>1, <2>1, <2>2
<1>4. Slot(Plus(a, k)) = (a + k) % Capacity
  <2>1. CASE a + k < Words
    <3>1. Plus(a, k) = a + k
      BY <1>1, <2>1, PlusIs
    <3> QED
      BY <3>1 DEF Slot
  <2>2. CASE ~(a + k < Words)
    <3>1. Plus(a, k) = a + k - Words /\ a + k - Words \in Nat
      BY <1>1, <2>2, PlusIs
    <3>2. PICK m \in Nat : Words = m * Capacity
      BY Sizes
    <3>3. (a + k - Words + m * Capacity) % Capacity = (a + k - Words) % Capacity
      BY <1>1, <3>1, RemainderOfMultiple
    <3>4. a + k - Words + m * Capacity = a + k
      BY <1>1, <3>2
    <3> QED
      BY <3>1, <3>3, <3>4 DEF Slot
  <2> QED
    BY <2>1, <2>2
<1> QED
  BY <1>2, <1>3, <1>4

LEMMA SlotsDiffer ==
  ASSUME NEW a \in Index, NEW j \in 0..(Capacity - 1), NEW k \in 0..(Capacity - 1), j # k
  PROVE  Slot(Plus(a, j)) # Slot(Plus(a, k))
<1>1. Capacity \in Nat \ {0} /\ Slot(a) \in 0..(Capacity - 1)
  BY Sizes, SlotIs DEF Slots
<1>2. j \in 0..Capacity /\ k \in 0..Capacity
  BY <1>1
<1> QED
  BY <1>1, <1>2, SlotIs

LEMMA EverySlot ==
  ASSUME NEW a \in Index, NEW i \in Slots
  PROVE  \E k \in 0..(Capacity - 1) : Slot(Plus(a, k)) = i
<1>1. Capacity \in Nat \ {0} /\ Slot(a) \in 0..(Capacity - 1) /\ i \in 0..(Capacity - 1)
  BY Sizes, SlotIs DEF Slots
<1> DEFINE k == IF Slot(a) <= i THEN i - Slot(a) ELSE i - Slot(a) + Capacity
<1>2. k \in 0..(Capacity - 1) /\ k \in 0..Capacity
  BY <1>1
<1>3. Slot(Plus(a, k)) = i
  BY <1>1, <1>2, SlotIs
<1> QED
  BY <1>2, <1>3

LEMMA SlotType ==
  ASSUME NEW a \in Index
  PROVE  Slot(a) \in Slots
BY Sizes, SlotIs

-----------------------------------------------------------------------------
(* Distances between indices.                                              *)

LEMMA MinusType ==
  ASSUME NEW a \in Index, NEW b \in Index
  PROVE  Minus(a, b) \in Nat /\ Minus(a, b) < Words /\ Minus(a, b) \in 0..Words
BY MinusIs, Sizes DEF Index

\* The distance from b, after b has moved towards x.
LEMMA MinusFromLater ==
  ASSUME NEW x \in Index, NEW b \in Index, NEW k \in 0..Minus(x, b)
  PROVE  Plus(b, k) \in Index /\ Minus(x, Plus(b, k)) = Minus(x, b) - k
<1>1. x \in 0..(Words - 1) /\ b \in 0..(Words - 1) /\ Words \in Nat \ {0}
  BY Sizes DEF Index
<1>2. Minus(x, b) = (IF b <= x THEN x - b ELSE x + Words - b)
  BY MinusIs
<1>3. k \in 0..Words
  BY <1>1, <1>2
<1>4. /\ Plus(b, k) = (IF b + k < Words THEN b + k ELSE b + k - Words)
      /\ Plus(b, k) \in Index
  BY <1>3, PlusIs
<1>5. Minus(x, Plus(b, k)) = (IF Plus(b, k) <= x THEN x - Plus(b, k)
                                                 ELSE x + Words - Plus(b, k))
  BY <1>4, MinusIs
<1> QED
  BY <1>1, <1>2, <1>4, <1>5

\* The distance of x, after x has moved on.
LEMMA MinusOfLater ==
  ASSUME NEW x \in Index, NEW b \in Index, NEW k \in 0..Words, Minus(x, b) + k < Words
  PROVE  Plus(x, k) \in Index /\ Minus(Plus(x, k), b) = Minus(x, b) + k
<1>1. x \in 0..(Words - 1) /\ b \in 0..(Words - 1) /\ Words \in Nat \ {0}
  BY Sizes DEF Index
<1>2. Minus(x, b) = (IF b <= x THEN x - b ELSE x + Words - b)
  BY MinusIs
<1>3. /\ Plus(x, k) = (IF x + k < Words THEN x + k ELSE x + k - Words)
      /\ Plus(x, k) \in Index
  BY PlusIs
<1>4. Minus(Plus(x, k), b) = (IF b <= Plus(x, k) THEN Plus(x, k) - b
                                                 ELSE Plus(x, k) + Words - b)
  BY <1>3, MinusIs
<1> QED
  BY <1>1, <1>2, <1>3, <1>4

\* Distances from one index subtract.
LEMMA MinusBetween ==
  ASSUME NEW x \in Index, NEW y \in Index, NEW b \in Index, Minus(x, b) <= Minus(y, b)
  PROVE  /\ Minus(y, x) = Minus(y, b) - Minus(x, b)
         /\ x = y <=> Minus(x, b) = Minus(y, b)
<1>1. /\ x \in 0..(Words - 1) /\ y \in 0..(Words - 1) /\ b \in 0..(Words - 1)
      /\ Words \in Nat \ {0}
  BY Sizes DEF Index
<1>2. /\ Minus(x, b) = (IF b <= x THEN x - b ELSE x + Words - b)
      /\ Minus(y, b) = (IF b <= y THEN y - b ELSE y + Words - b)
      /\ Minus(y, x) = (IF x <= y THEN y - x ELSE y + Words - x)
  BY MinusIs
<1> QED
  BY <1>1, <1>2

\* What IndicesInOrder says of the number of elements.
LEMMA Distances ==
  ASSUME NEW h \in Index, NEW t \in Index, NEW hc \in Index, NEW tc \in Index,
         Minus(t, hc) <= Capacity,
         Minus(h, hc) <= Minus(tc, hc),
         Minus(tc, hc) <= Minus(t, hc)
  PROVE  /\ Minus(t, h) \in 0..Capacity
         /\ Minus(t, h) = Minus(t, hc) - Minus(h, hc)
         /\ Minus(tc, h) \in 0..Minus(t, h)
         /\ tc # h => Minus(t, h) > 0
         /\ Plus(h, Minus(t, h)) = t
<1>1. /\ Minus(t, hc) \in Nat /\ Minus(h, hc) \in Nat /\ Minus(tc, hc) \in Nat
      /\ Capacity \in Nat
  BY MinusType, Sizes
<1>2. Minus(h, hc) <= Minus(t, hc)
  BY <1>1
<1>3. /\ Minus(t, h) = Minus(t, hc) - Minus(h, hc)
      /\ Minus(tc, h) = Minus(tc, hc) - Minus(h, hc)
      /\ h = tc <=> Minus(h, hc) = Minus(tc, hc)
  BY <1>2, MinusBetween
<1> QED
  BY <1>1, <1>3, PlusMinus

\* When emplace finds room, even by an old copy of head_, there is room.
LEMMA RoomIsRoom ==
  ASSUME NEW t \in Index, NEW hc \in Index,
         Minus(t, hc) <= Capacity, ~(Minus(Plus(t, 1), hc) > Capacity)
  PROVE  Minus(t, hc) + 1 <= Capacity
<1>1. /\ Capacity \in Nat /\ Capacity >= 2 /\ Words \in Nat /\ 2 * Capacity <= Words
      /\ Minus(t, hc) \in Nat
  BY Sizes, MinusType
<1>2. 1 \in 0..Words /\ Minus(t, hc) + 1 < Words
  BY <1>1
<1>3. Minus(Plus(t, 1), hc) = Minus(t, hc) + 1
  BY <1>2, MinusOfLater
<1> QED
  BY <1>1, <1>3

LEMMA RoomAtTail ==
  ASSUME NEW h \in Index, NEW t \in Index, NEW hc \in Index, NEW tc \in Index,
         Minus(t, hc) <= Capacity,
         Minus(h, hc) <= Minus(tc, hc),
         Minus(tc, hc) <= Minus(t, hc),
         ~(Minus(Plus(t, 1), hc) > Capacity)
  PROVE  Minus(t, h) \in 0..(Capacity - 1) /\ Plus(h, Minus(t, h)) = t
<1>1. /\ Minus(t, hc) \in Nat /\ Minus(h, hc) \in Nat /\ Capacity \in Nat
      /\ Minus(t, h) \in 0..Capacity /\ Minus(t, h) = Minus(t, hc) - Minus(h, hc)
      /\ Plus(h, Minus(t, h)) = t
  BY Sizes, MinusType, Distances
<1>2. Minus(t, hc) + 1 <= Capacity
  BY RoomIsRoom
<1> QED
  BY <1>1, <1>2

-----------------------------------------------------------------------------
(* IInv is inductive: one lemma per action.                                *)

LEMMA Types ==
  ASSUME TypeOK
  PROVE  head \in Index /\ tail \in Index /\ head_cache \in Index /\ tail_cache \in Index
BY DEF TypeOK

\* Steps that touch neither the slots nor head_ and tail_.
LEMMA SlotsKept ==
  ASSUME SlotsInUse, UNCHANGED <<head, tail, storage, destroyed>>,
         pushing' = "publish" <=> pushing = "publish",
         popping' = "release" <=> popping = "release"
  PROVE  SlotsInUse'
BY DEF SlotsInUse

\* A slot in which emplace is about to construct is raw storage.
LEMMA RawAtTail ==
  ASSUME IInv, NEW hc \in Index,
         Minus(tail, hc) <= Capacity,
         Minus(head, hc) <= Minus(tail_cache, hc),
         Minus(tail_cache, hc) <= Minus(tail, hc),
         ~NoRoom(hc), pushing # "publish", ~destroyed
  PROVE  storage[Slot(tail)] = Empty
<1> DEFINE k == Minus(tail, head)
<1>1. k \in 0..(Capacity - 1) /\ Plus(head, k) = tail
  BY Types, RoomAtTail DEF NoRoom, IInv
<1>2. ~(k < k)
  BY <1>1, Sizes
<1> QED
  BY <1>1, <1>2 DEF IInv, SlotsInUse

LEMMA BeginEmplaceKeepsInvariant ==
  ASSUME IInv, NEW v \in Values, BeginEmplace(v)
  PROVE  IInv'
<1> USE DEF flags, indices
<1>1. /\ pushing = "idle" /\ ~destroyed
      /\ arg' = v /\ pushing' \in {"load_head", "construct"}
      /\ UNCHANGED <<head, tail, head_cache, tail_cache, storage, popping, out, destroyed,
                     stale_loads, may_throw>>
  BY DEF BeginEmplace
<1>2. TypeOK'
  BY <1>1 DEF IInv, TypeOK
<1>3. IndicesInOrder'
  BY <1>1 DEF IInv, IndicesInOrder
<1>4. SlotsInUse'
  BY <1>1, SlotsKept DEF IInv
<1>5. pushing' = "construct" => ~NoRoom(head_cache)
  BY DEF BeginEmplace
<1>6. Ready'
  BY <1>1, <1>5 DEF IInv, Ready, NoRoom
<1> QED
  BY <1>2, <1>3, <1>4, <1>6 DEF IInv

\* What a load of the other side's index returns, old or new.
LEMMA LoadsAre ==
  ASSUME TypeOK
  PROVE  /\ \A h \in LoadsOfHead : \E k \in 0..Minus(head, head_cache) : h = Plus(head_cache, k)
         /\ \A t \in LoadsOfTail : \E k \in 0..Minus(tail, tail_cache) : t = Plus(tail_cache, k)
<1>1. /\ Plus(head_cache, Minus(head, head_cache)) = head
      /\ Plus(tail_cache, Minus(tail, tail_cache)) = tail
      /\ Minus(head, head_cache) \in Nat /\ Minus(tail, tail_cache) \in Nat
  BY Types, PlusMinus, MinusType
<1>2. /\ Minus(head, head_cache) \in 0..Minus(head, head_cache)
      /\ Minus(tail, tail_cache) \in 0..Minus(tail, tail_cache)
  BY <1>1
<1> QED
  BY <1>1, <1>2 DEF LoadsOfHead, LoadsOfTail, UpTo

LEMMA LoadHeadKeepsInvariant ==
  ASSUME IInv, LoadHead
  PROVE  IInv'
<1> USE DEF flags
<1>1. /\ pushing = "load_head" /\ ~destroyed
      /\ head_cache' \in LoadsOfHead
      /\ UNCHANGED <<head, tail, tail_cache, storage, popping, out, destroyed,
                     stale_loads, may_throw>>
      /\ \/ pushing' = "idle" /\ arg' = Empty
         \/ pushing' = "construct" /\ arg' = arg /\ ~NoRoom(head_cache')
  BY DEF LoadHead, IInv, Ready
<1>2. PICK k \in 0..Minus(head, head_cache) : head_cache' = Plus(head_cache, k)
  BY <1>1, LoadsAre DEF IInv
<1>3. /\ Minus(head, head_cache) \in Nat /\ Minus(tail, head_cache) \in Nat
      /\ Minus(tail_cache, head_cache) \in Nat /\ k \in Nat /\ Capacity \in Nat
      /\ k <= Minus(head, head_cache)
      /\ Minus(tail, head_cache) <= Capacity
      /\ Minus(head, head_cache) <= Minus(tail_cache, head_cache)
      /\ Minus(tail_cache, head_cache) <= Minus(tail, head_cache)
  BY Types, MinusType, Sizes DEF IInv, IndicesInOrder
<1>4. k \in 0..Minus(tail_cache, head_cache) /\ k \in 0..Minus(tail, head_cache)
  BY <1>3
<1>5. /\ head_cache' \in Index
      /\ Minus(head, head_cache') = Minus(head, head_cache) - k
      /\ Minus(tail, head_cache') = Minus(tail, head_cache) - k
      /\ Minus(tail_cache, head_cache') = Minus(tail_cache, head_cache) - k
  BY <1>2, <1>4, Types, MinusFromLater DEF IInv
<1>6. TypeOK'
  BY <1>1, <1>5 DEF IInv, TypeOK
<1>7. /\ Minus(tail, head_cache') <= Capacity
      /\ Minus(head, head_cache') <= Minus(tail_cache, head_cache')
      /\ Minus(tail_cache, head_cache') <= Minus(tail, head_cache')
  BY <1>3, <1>5
<1>8. IndicesInOrder'
  BY <1>1, <1>7 DEF IndicesInOrder
<1>9. SlotsInUse'
  BY <1>1, SlotsKept DEF IInv
<1>10. Ready'
  BY <1>1 DEF IInv, Ready, NoRoom
<1> QED
  BY <1>6, <1>8, <1>9, <1>10 DEF IInv

LEMMA ConstructKeepsInvariant ==
  ASSUME IInv, Construct
  PROVE  IInv'
<1> USE DEF flags, indices
<1> DEFINE n == Minus(tail, head)
<1>1. /\ pushing = "construct" /\ pushing' = "publish" /\ ~destroyed
      /\ storage' = [storage EXCEPT ![Slot(tail)] = arg]
      /\ UNCHANGED <<head, tail, head_cache, tail_cache, popping, arg, out, destroyed,
                     stale_loads, may_throw>>
  BY DEF Construct, IInv, Ready
<1>2. arg \in Values /\ arg # Empty /\ ~NoRoom(head_cache)
  BY <1>1, SpscEmptyAssumption DEF IInv, Ready
<1>3. n \in 0..(Capacity - 1) /\ Plus(head, n) = tail
  BY <1>2, Types, RoomAtTail DEF NoRoom, IInv, IndicesInOrder
<1>4. /\ storage \in [Slots -> Values \cup {Empty}]
      /\ head \in Index /\ tail \in Index /\ Slot(tail) \in Slots
  BY SlotType DEF IInv, TypeOK
<1>5. TypeOK'
  BY <1>1, <1>2, <1>4 DEF IInv, TypeOK
<1>6. IndicesInOrder'
  BY <1>1 DEF IInv, IndicesInOrder
<1>7. storage'[Slot(tail)] # Empty
  BY <1>1, <1>2, <1>4
<1>8. ASSUME NEW k \in 0..(Capacity - 1), k # n
      PROVE  /\ storage'[Slot(Plus(head, k))] = storage[Slot(Plus(head, k))]
             /\ Plus(head, k) # tail
  <2>1. Slot(Plus(head, k)) # Slot(tail)
    BY <1>3, <1>4, <1>8, SlotsDiffer
  <2> QED
    BY <1>1, <1>4, <2>1
<1>9. SlotsInUse'
  <2>1. ASSUME NEW k \in 0..(Capacity - 1)
        PROVE  IF k < n THEN storage'[Slot(Plus(head, k))] # Empty <=> ~(k = 0 /\ popping = "release")
                        ELSE storage'[Slot(Plus(head, k))] # Empty <=> Plus(head, k) = tail
    <3>1. CASE k = n
      <4>1. ~(n < n)
        BY <1>3, Sizes
      <4> QED
        BY <1>3, <1>7, <3>1, <4>1
    <3>2. CASE k # n
      BY <1>1, <1>8, <3>2 DEF IInv, SlotsInUse
    <3> QED
      BY <3>1, <3>2
  <2> QED
    BY <1>1, <2>1 DEF SlotsInUse
<1>10. Ready'
  BY <1>1 DEF IInv, Ready, NoRoom
<1> QED
  BY <1>5, <1>6, <1>9, <1>10 DEF IInv

\* The failed calls.
LEMMA ThrowsKeepInvariant ==
  ASSUME IInv, ConstructThrows \/ MoveOutThrows
  PROVE  IInv'
<1> USE DEF flags, indices
<1>1. TypeOK'
  BY DEF ConstructThrows, MoveOutThrows, IInv, TypeOK
<1>2. IndicesInOrder'
  BY DEF ConstructThrows, MoveOutThrows, IInv, IndicesInOrder
<1>3. SlotsInUse'
  <2>1. UNCHANGED <<head, tail, storage, destroyed>>
    BY DEF ConstructThrows, MoveOutThrows
  <2>2. pushing' = "publish" <=> pushing = "publish"
    BY DEF ConstructThrows, MoveOutThrows
  <2>3. popping' = "release" <=> popping = "release"
    BY DEF ConstructThrows, MoveOutThrows
  <2> QED
    BY <2>1, <2>2, <2>3, SlotsKept DEF IInv
<1>4. Ready'
  BY DEF ConstructThrows, MoveOutThrows, IInv, Ready, NoRoom
<1> QED
  BY <1>1, <1>2, <1>3, <1>4 DEF IInv

LEMMA PublishKeepsInvariant ==
  ASSUME IInv, Publish
  PROVE  IInv'
<1> USE DEF flags
<1> DEFINE n == Minus(tail, head)
<1>1. /\ pushing = "publish" /\ pushing' = "idle" /\ arg' = Empty
      /\ tail' = Plus(tail, 1) /\ ~destroyed
      /\ UNCHANGED <<head, head_cache, tail_cache, storage, popping, out, destroyed,
                     stale_loads, may_throw>>
  BY DEF Publish, IInv, Ready
<1>2. /\ head \in Index /\ tail \in Index /\ head_cache \in Index /\ tail_cache \in Index
  BY Types DEF IInv
<1>3. /\ Minus(head, head_cache) \in Nat /\ Minus(tail, head_cache) \in Nat
      /\ Minus(tail_cache, head_cache) \in Nat /\ n \in Nat
      /\ Capacity \in Nat /\ Words \in Nat /\ 2 * Capacity <= Words /\ Capacity >= 2
      /\ Minus(tail, head_cache) <= Capacity
      /\ Minus(head, head_cache) <= Minus(tail_cache, head_cache)
      /\ Minus(tail_cache, head_cache) <= Minus(tail, head_cache)
  BY <1>2, MinusType, Sizes DEF IInv, IndicesInOrder
<1>4. ~(Minus(Plus(tail, 1), head_cache) > Capacity)
  BY <1>1 DEF IInv, Ready, NoRoom
<1>5. Minus(tail, head_cache) + 1 <= Capacity
  BY <1>2, <1>3, <1>4, RoomIsRoom
<1>6. n \in 0..(Capacity - 1) /\ Plus(head, n) = tail
  BY <1>2, <1>3, <1>4, RoomAtTail
<1>7. 1 \in 0..Words /\ Minus(tail, head_cache) + 1 < Words /\ n + 1 < Words
  BY <1>3, <1>5, <1>6
<1>8. /\ tail' \in Index
      /\ Minus(tail', head_cache) = Minus(tail, head_cache) + 1
      /\ Minus(tail', head) = n + 1
  BY <1>1, <1>2, <1>7, MinusOfLater
<1>9. TypeOK'
  BY <1>1, <1>8 DEF IInv, TypeOK
<1>10. IndicesInOrder'
  <2>1. /\ Minus(tail', head_cache) <= Capacity
        /\ Minus(tail_cache, head_cache) <= Minus(tail', head_cache)
    BY <1>3, <1>5, <1>8
  <2> QED
    BY <1>1, <1>3, <2>1 DEF IndicesInOrder
<1>11. SlotsInUse'
  <2>1. ASSUME NEW k \in 0..(Capacity - 1)
        PROVE  IF k < n + 1 THEN storage[Slot(Plus(head, k))] # Empty <=> ~(k = 0 /\ popping = "release")
                            ELSE storage[Slot(Plus(head, k))] = Empty
    <3>1. IF k < n THEN storage[Slot(Plus(head, k))] # Empty <=> ~(k = 0 /\ popping = "release")
                   ELSE storage[Slot(Plus(head, k))] # Empty <=> Plus(head, k) = tail
      BY <1>1 DEF IInv, SlotsInUse
    <3>2. CASE k < n
      BY <1>3, <3>1, <3>2
    <3>3. CASE k = n
      <4>1. popping = "release" => k # 0
        <5>1. tail_cache # head => n > 0
          BY <1>2, <1>3, Distances
        <5> QED
          BY <3>3, <5>1 DEF IInv, Ready
      <4> QED
        BY <1>3, <1>6, <3>1, <3>3, <4>1
    <3>4. CASE k > n
      <4>1. Plus(head, k) # tail
        BY <1>2, <1>3, <1>6, <3>4, SlotsDiffer
      <4> QED
        BY <1>3, <3>1, <3>4, <4>1
    <3> QED
      BY <1>3, <3>2, <3>3, <3>4
  <2> QED
    BY <1>1, <1>8, <2>1 DEF SlotsInUse
<1>12. Ready'
  BY <1>1 DEF IInv, Ready
<1> QED
  BY <1>9, <1>10, <1>11, <1>12 DEF IInv

LEMMA BeginTryPopKeepsInvariant ==
  ASSUME IInv, BeginTryPop
  PROVE  IInv'
<1> USE DEF flags, indices
<1>1. /\ popping = "idle" /\ ~destroyed
      /\ popping' \in {"load_tail", "move_out"}
      /\ popping' = "move_out" => tail_cache # head
      /\ UNCHANGED <<head, tail, head_cache, tail_cache, storage, pushing, arg, out, destroyed,
                     stale_loads, may_throw>>
  BY DEF BeginTryPop
<1>2. TypeOK'
  BY <1>1 DEF IInv, TypeOK
<1>3. IndicesInOrder'
  BY <1>1 DEF IInv, IndicesInOrder
<1>4. SlotsInUse'
  BY <1>1, SlotsKept DEF IInv
<1>5. Ready'
  BY <1>1 DEF IInv, Ready, NoRoom
<1> QED
  BY <1>2, <1>3, <1>4, <1>5 DEF IInv

LEMMA LoadTailKeepsInvariant ==
  ASSUME IInv, LoadTail
  PROVE  IInv'
<1> USE DEF flags
<1>1. /\ popping = "load_tail" /\ ~destroyed
      /\ tail_cache' \in LoadsOfTail
      /\ UNCHANGED <<head, tail, head_cache, storage, pushing, arg, out, destroyed,
                     stale_loads, may_throw>>
      /\ popping' = IF tail_cache' = head THEN "idle" ELSE "move_out"
  BY DEF LoadTail, IInv, Ready
<1>2. PICK k \in 0..Minus(tail, tail_cache) : tail_cache' = Plus(tail_cache, k)
  BY <1>1, LoadsAre DEF IInv
<1>3. head \in Index /\ tail \in Index /\ head_cache \in Index /\ tail_cache \in Index
  BY Types DEF IInv
<1>4. /\ Minus(head, head_cache) \in Nat /\ Minus(tail, head_cache) \in Nat
      /\ Minus(tail_cache, head_cache) \in Nat /\ Minus(tail, tail_cache) \in Nat
      /\ Capacity \in Nat /\ Words \in Nat /\ 2 * Capacity <= Words /\ Capacity >= 2
      /\ Minus(tail, head_cache) <= Capacity
      /\ Minus(head, head_cache) <= Minus(tail_cache, head_cache)
      /\ Minus(tail_cache, head_cache) <= Minus(tail, head_cache)
  BY <1>3, MinusType, Sizes DEF IInv, IndicesInOrder
<1>5. Minus(tail, tail_cache) = Minus(tail, head_cache) - Minus(tail_cache, head_cache)
  BY <1>3, <1>4, MinusBetween
<1>6. k \in 0..Words /\ k \in Nat /\ Minus(tail_cache, head_cache) + k <= Minus(tail, head_cache)
  BY <1>4, <1>5
<1>7. Minus(tail_cache, head_cache) + k < Words
  BY <1>4, <1>6
<1>8. /\ tail_cache' \in Index
      /\ Minus(tail_cache', head_cache) = Minus(tail_cache, head_cache) + k
  BY <1>2, <1>3, <1>6, <1>7, MinusOfLater
<1>9. TypeOK'
  BY <1>1, <1>8 DEF IInv, TypeOK
<1>10. IndicesInOrder'
  <2>1. /\ Minus(head, head_cache) <= Minus(tail_cache', head_cache)
        /\ Minus(tail_cache', head_cache) <= Minus(tail, head_cache)
    BY <1>4, <1>6, <1>8
  <2> QED
    BY <1>1, <1>4, <2>1 DEF IndicesInOrder
<1>11. SlotsInUse'
  BY <1>1, SlotsKept DEF IInv
<1>12. Ready'
  BY <1>1 DEF IInv, Ready, NoRoom
<1> QED
  BY <1>9, <1>10, <1>11, <1>12 DEF IInv

\* A side that is about to pop has an element in front of it.
LEMMA ElementAtHead ==
  ASSUME IInv, tail_cache # head
  PROVE  /\ Minus(tail, head) \in 1..Capacity
         /\ Plus(head, 0) = head /\ 0 \in 0..(Capacity - 1)
<1>1. /\ Minus(tail, head) \in 0..Capacity /\ Minus(tail, head) > 0
  BY Types, Distances DEF IInv, IndicesInOrder
<1>2. /\ Capacity \in Nat /\ Capacity >= 2 /\ Words \in Nat \ {0}
      /\ head \in 0..(Words - 1) /\ 0 \in 0..Words
  BY Sizes DEF IInv, TypeOK, Index
<1>3. Plus(head, 0) = IF head + 0 < Words THEN head + 0 ELSE head + 0 - Words
  BY <1>2, PlusIs DEF Index
<1> QED
  BY <1>1, <1>2, <1>3

LEMMA MoveOutKeepsInvariant ==
  ASSUME IInv, MoveOut
  PROVE  IInv'
<1> USE DEF flags, indices
<1> DEFINE n == Minus(tail, head)
<1>1. /\ popping = "move_out" /\ popping' = "release" /\ ~destroyed /\ tail_cache # head
      /\ out' = storage[Slot(head)]
      /\ storage' = [storage EXCEPT ![Slot(head)] = Empty]
      /\ UNCHANGED <<head, tail, head_cache, tail_cache, pushing, arg, destroyed,
                     stale_loads, may_throw>>
  BY DEF MoveOut, IInv, Ready
<1>2. /\ storage \in [Slots -> Values \cup {Empty}]
      /\ head \in Index /\ Slot(head) \in Slots
      /\ n \in 1..Capacity /\ Plus(head, 0) = head /\ 0 \in 0..(Capacity - 1)
  BY <1>1, SlotType, ElementAtHead DEF IInv, TypeOK
<1>3. TypeOK'
  BY <1>1, <1>2 DEF IInv, TypeOK
<1>4. IndicesInOrder'
  BY <1>1 DEF IInv, IndicesInOrder
<1>5. storage'[Slot(head)] = Empty /\ 0 < n
  BY <1>1, <1>2
<1>6. ASSUME NEW k \in 0..(Capacity - 1), k # 0
      PROVE  storage'[Slot(Plus(head, k))] = storage[Slot(Plus(head, k))]
  <2>1. Slot(Plus(head, k)) # Slot(head)
    BY <1>2, <1>6, SlotsDiffer
  <2> QED
    BY <1>1, <1>2, <2>1
<1>7. SlotsInUse'
  <2>1. ASSUME NEW k \in 0..(Capacity - 1)
        PROVE  IF k < n THEN storage'[Slot(Plus(head, k))] # Empty <=> k # 0
                        ELSE storage'[Slot(Plus(head, k))] # Empty
                               <=> (Plus(head, k) = tail /\ pushing = "publish")
    <3>1. CASE k = 0
      BY <1>2, <1>5, <3>1
    <3>2. CASE k # 0
      BY <1>1, <1>6, <3>2 DEF IInv, SlotsInUse
    <3> QED
      BY <3>1, <3>2
  <2> QED
    BY <1>1, <2>1 DEF SlotsInUse
<1>8. Ready'
  BY <1>1 DEF IInv, Ready, NoRoom
<1> QED
  BY <1>3, <1>4, <1>7, <1>8 DEF IInv

LEMMA ReleaseKeepsInvariant ==
  ASSUME IInv, Release
  PROVE  IInv'
<1> USE DEF flags
<1> DEFINE n == Minus(tail, head)
<1>1. /\ popping = "release" /\ popping' = "idle" /\ ~destroyed /\ tail_cache # head
      /\ out' = Empty /\ head' = Plus(head, 1)
      /\ UNCHANGED <<tail, head_cache, tail_cache, storage, pushing, arg, destroyed,
                     stale_loads, may_throw>>
  BY DEF Release, IInv, Ready
<1>2. head \in Index /\ tail \in Index /\ head_cache \in Index /\ tail_cache \in Index
  BY Types DEF IInv
<1>3. /\ Minus(head, head_cache) \in Nat /\ Minus(tail, head_cache) \in Nat
      /\ Minus(tail_cache, head_cache) \in Nat
      /\ Capacity \in Nat /\ Words \in Nat /\ 2 * Capacity <= Words /\ Capacity >= 2
      /\ Minus(tail, head_cache) <= Capacity
      /\ Minus(head, head_cache) <= Minus(tail_cache, head_cache)
      /\ Minus(tail_cache, head_cache) <= Minus(tail, head_cache)
  BY <1>2, MinusType, Sizes DEF IInv, IndicesInOrder
<1>4. n \in 1..Capacity /\ Plus(head, 0) = head /\ 0 \in 0..(Capacity - 1) /\ Plus(head, n) = tail
  BY <1>1, <1>2, ElementAtHead, PlusMinus
<1>5. Minus(head, head_cache) + 1 <= Minus(tail_cache, head_cache)
  <2>1. Minus(head, head_cache) # Minus(tail_cache, head_cache)
    BY <1>1, <1>2, <1>3, MinusBetween
  <2> QED
    BY <1>3, <2>1
<1>6. 1 \in 0..Words /\ 1 \in 0..n /\ Minus(head, head_cache) + 1 < Words
  BY <1>3, <1>4, <1>5
<1>7. head' \in Index /\ Minus(head', head_cache) = Minus(head, head_cache) + 1
  BY <1>1, <1>2, <1>6, MinusOfLater
<1>8. Minus(tail, head') = n - 1
  BY <1>1, <1>2, <1>6, MinusFromLater
<1>9. TypeOK'
  BY <1>1, <1>7 DEF IInv, TypeOK
<1>10. IndicesInOrder'
  BY <1>1, <1>3, <1>5, <1>7 DEF IndicesInOrder
<1>11. SlotsInUse'
  <2>1. ASSUME NEW k \in 0..(Capacity - 1)
        PROVE  IF k < n THEN storage[Slot(Plus(head, k))] # Empty <=> k # 0
                        ELSE storage[Slot(Plus(head, k))] # Empty
                               <=> (Plus(head, k) = tail /\ pushing = "publish")
    BY <1>1 DEF IInv, SlotsInUse
  <2>2. ASSUME NEW k \in 0..(Capacity - 1)
        PROVE  IF k < n - 1 THEN storage[Slot(Plus(head', k))] # Empty
                            ELSE storage[Slot(Plus(head', k))] # Empty
                                   <=> (Plus(head', k) = tail /\ pushing = "publish")
    <3>1. Plus(head', k) = Plus(head, k + 1)
      <4>1. k \in 0..(Words - 1)
        BY <1>3
      <4> QED
        BY <1>1, <1>2, <4>1, PlusPlus
    <3>2. CASE k + 1 < Capacity
      <4>1. k + 1 \in 0..(Capacity - 1) /\ k + 1 # 0 /\ (k + 1 < n <=> k < n - 1)
        BY <1>3, <1>4, <3>2
      <4> QED
        BY <2>1, <3>1, <4>1
    <3>3. CASE k + 1 = Capacity
      <4>1. ~(k < n - 1) /\ Capacity \in 0..Capacity
        BY <1>3, <1>4, <3>3
      <4>2. Slot(Plus(head, Capacity)) = Slot(head)
        <5>1. Slot(head) \in 0..(Capacity - 1)
          BY <1>2, SlotType DEF Slots
        <5> QED
          BY <1>2, <1>3, <4>1, <5>1, SlotIs
      <4>3. storage[Slot(head)] = Empty
        BY <1>4, <2>1
      <4>4. pushing = "publish" => Plus(head, Capacity) # tail
        <5> SUFFICES ASSUME pushing = "publish"
                     PROVE  Plus(head, Capacity) # tail
          OBVIOUS
        <5>1. n \in 0..(Capacity - 1)
          BY <1>2, <1>3, RoomAtTail DEF IInv, Ready, NoRoom
        <5>2. Minus(head, head) = 0 /\ Capacity \in 0..Words /\ 0 + Capacity < Words
          BY <1>2, <1>3, MinusIs DEF Index
        <5>3. Minus(Plus(head, Capacity), head) = 0 + Capacity
          BY <1>2, <5>2, MinusOfLater
        <5> QED
          BY <1>3, <5>1, <5>3
      <4> QED
        BY <3>1, <3>3, <4>1, <4>2, <4>3, <4>4
    <3> QED
      BY <1>3, <3>2, <3>3
  <2> QED
    BY <1>1, <1>8, <2>2 DEF SlotsInUse
<1>12. Ready'
  BY <1>1 DEF IInv, Ready, NoRoom
<1> QED
  BY <1>9, <1>10, <1>11, <1>12 DEF IInv

LEMMA DestroyKeepsInvariant ==
  ASSUME IInv, Destroy
  PROVE  IInv'
<1> USE DEF flags, indices
<1>1. /\ pushing = "idle" /\ popping = "idle" /\ destroyed' = TRUE
      /\ storage' = Drained(tail)
      /\ UNCHANGED <<head, tail, head_cache, tail_cache, pushing, popping, arg, out,
                     stale_loads, may_throw>>
  BY DEF Destroy, Idle
<1>2. storage' \in [Slots -> Values \cup {Empty}]
  BY <1>1 DEF Drained, IInv, TypeOK
<1>3. TypeOK'
  BY <1>1, <1>2 DEF IInv, TypeOK
<1>4. IndicesInOrder'
  BY <1>1 DEF IInv, IndicesInOrder
<1>5. SlotsInUse'
  BY <1>1 DEF SlotsInUse
<1>6. Ready'
  BY <1>1 DEF Ready
<1> QED
  BY <1>3, <1>4, <1>5, <1>6 DEF IInv

LEMMA InitEstablishesInvariant ==
  ASSUME Init
  PROVE  IInv
<1>1. 0 \in Index /\ Minus(0, 0) = 0 /\ Capacity \in Nat /\ 0 <= Capacity
  <2>1. 0 \in Index
    BY Sizes DEF Index
  <2> QED
    BY <2>1, Sizes, MinusIs
<1>2. TypeOK
  BY <1>1 DEF Init, TypeOK
<1>3. IndicesInOrder
  BY <1>1 DEF Init, IndicesInOrder
<1>4. SlotsInUse
  <2>1. ASSUME NEW k \in 0..(Capacity - 1)
        PROVE  storage[Slot(Plus(head, k))] = Empty /\ ~(k < Minus(tail, head))
    <3>1. Plus(head, k) \in Index
      <4>1. k \in 0..Words
        BY Sizes
      <4> QED
        BY <1>1, <4>1, PlusIs DEF Init
    <3> QED
      BY <1>1, <3>1, SlotType DEF Init
  <2> QED
    BY <2>1 DEF Init, SlotsInUse
<1>5. Ready
  BY DEF Init, Ready
<1> QED
  BY <1>2, <1>3, <1>4, <1>5 DEF IInv

LEMMA StepKeepsInvariant == IInv /\ [Next]_vars => IInv'
<1> SUFFICES ASSUME IInv, [Next]_vars
             PROVE  IInv'
  OBVIOUS
<1>1. ASSUME NEW v \in Values, BeginEmplace(v)
      PROVE  IInv'
  BY <1>1, BeginEmplaceKeepsInvariant
<1>2. CASE LoadHead
  BY <1>2, LoadHeadKeepsInvariant
<1>3. CASE Construct
  BY <1>3, ConstructKeepsInvariant
<1>4. CASE ConstructThrows \/ MoveOutThrows
  BY <1>4, ThrowsKeepInvariant
<1>5. CASE Publish
  BY <1>5, PublishKeepsInvariant
<1>6. CASE BeginTryPop
  BY <1>6, BeginTryPopKeepsInvariant
<1>7. CASE LoadTail
  BY <1>7, LoadTailKeepsInvariant
<1>8. CASE MoveOut
  BY <1>8, MoveOutKeepsInvariant
<1>9. CASE Release
  BY <1>9, ReleaseKeepsInvariant
<1>10. CASE Destroy
  BY <1>10, DestroyKeepsInvariant
<1>11. CASE UNCHANGED vars
  BY <1>11 DEF vars, flags, indices, IInv, TypeOK, IndicesInOrder, SlotsInUse, Ready, NoRoom
<1> QED
  BY <1>1, <1>2, <1>3, <1>4, <1>5, <1>6, <1>7, <1>8, <1>9, <1>10, <1>11
  DEF Next, Emplace, TryPop

-----------------------------------------------------------------------------
(* The theorems.                                                           *)

\* Whatever the capacity, the width of the indices, the old values that loads
\* return and the calls that throw: the indices keep their order around the wrap,
\* exactly the slots between them hold objects, and what a side has found out by
\* an old copy of the other's index is still true when it acts on it.
THEOREM InductiveInvariant == Spec => []IInv
<1>1. Init => IInv
  BY InitEstablishesInvariant
<1> QED
  BY <1>1, StepKeepsInvariant, PTL DEF Spec

\* emplace constructs in raw storage only, and try_pop moves out and destroys only a
\* live object (the drain's destructions are SlotsInUse).
THEOREM StorageIsReady ==
  Spec => [](/\ pushing = "construct" => storage[Slot(tail)] = Empty
             /\ popping = "move_out" => storage[Slot(head)] # Empty)
<1>1. ASSUME IInv
      PROVE  /\ pushing = "construct" => storage[Slot(tail)] = Empty
             /\ popping = "move_out" => storage[Slot(head)] # Empty
  <2>1. ASSUME pushing = "construct"
        PROVE  storage[Slot(tail)] = Empty
    BY <1>1, <2>1, Types, RawAtTail DEF IInv, Ready, IndicesInOrder
  <2>2. ASSUME popping = "move_out"
        PROVE  storage[Slot(head)] # Empty
    <3>1. tail_cache # head /\ ~destroyed
      BY <1>1, <2>2 DEF IInv, Ready
    <3>2. Minus(tail, head) \in 1..Capacity /\ Plus(head, 0) = head /\ 0 \in 0..(Capacity - 1)
      BY <1>1, <3>1, ElementAtHead
    <3>3. 0 < Minus(tail, head)
      BY <3>2, Sizes
    <3> QED
      BY <1>1, <2>2, <3>1, <3>2, <3>3 DEF IInv, SlotsInUse
  <2> QED
    BY <2>1, <2>2
<1>2. IInv => (/\ pushing = "construct" => storage[Slot(tail)] = Empty
               /\ popping = "move_out" => storage[Slot(head)] # Empty)
  BY <1>1
<1> QED
  BY <1>2, InductiveInvariant, PTL

\* size() is never below zero nor above the capacity, for either side.
THEOREM SizeNeverWraps == Spec => []SizeIsSafe
<1>1. IInv => SizeIsSafe
  <2> SUFFICES ASSUME IInv
               PROVE  /\ \A h \in LoadsOfHead : /\ Minus(tail, head) <= Minus(tail, h)
                                                /\ Minus(tail, h) <= Capacity
                      /\ \A t \in LoadsOfTail : Minus(t, head) <= Minus(tail, head)
    BY DEF SizeIsSafe
  <2>1. head \in Index /\ tail \in Index /\ head_cache \in Index /\ tail_cache \in Index
    BY Types DEF IInv
  <2>2. /\ Minus(head, head_cache) \in Nat /\ Minus(tail, head_cache) \in Nat
        /\ Minus(tail_cache, head_cache) \in Nat /\ Minus(tail, tail_cache) \in Nat
        /\ Capacity \in Nat /\ Words \in Nat /\ 2 * Capacity <= Words /\ Capacity >= 2
        /\ Minus(tail, head_cache) <= Capacity
        /\ Minus(head, head_cache) <= Minus(tail_cache, head_cache)
        /\ Minus(tail_cache, head_cache) <= Minus(tail, head_cache)
    BY <2>1, MinusType, Sizes DEF IInv, IndicesInOrder
  <2>3. /\ Minus(tail, head) = Minus(tail, head_cache) - Minus(head, head_cache)
        /\ Minus(tail, tail_cache) = Minus(tail, head_cache) - Minus(tail_cache, head_cache)
        /\ Minus(tail_cache, head) = Minus(tail_cache, head_cache) - Minus(head, head_cache)
    <3>1. Minus(head, head_cache) <= Minus(tail, head_cache)
      BY <2>2
    <3> QED
      BY <2>1, <2>2, <3>1, MinusBetween
  <2>4. ASSUME NEW h \in LoadsOfHead
        PROVE  Minus(tail, head) <= Minus(tail, h) /\ Minus(tail, h) <= Capacity
    <3>1. PICK k \in 0..Minus(head, head_cache) : h = Plus(head_cache, k)
      BY LoadsAre DEF IInv
    <3>2. k \in 0..Minus(tail, head_cache) /\ k \in Nat /\ k <= Minus(head, head_cache)
      BY <2>2
    <3>3. Minus(tail, h) = Minus(tail, head_cache) - k
      BY <2>1, <3>1, <3>2, MinusFromLater
    <3> QED
      BY <2>2, <2>3, <3>2, <3>3
  <2>5. ASSUME NEW t \in LoadsOfTail
        PROVE  Minus(t, head) <= Minus(tail, head)
    <3>1. PICK k \in 0..Minus(tail, tail_cache) : t = Plus(tail_cache, k)
      BY LoadsAre DEF IInv
    <3>2. k \in 0..Words /\ k \in Nat /\ Minus(tail_cache, head) + k <= Minus(tail, head)
      BY <2>2, <2>3
    <3>3. Minus(tail_cache, head) + k < Words
      BY <2>2, <2>3, <3>2
    <3>4. Minus(t, head) = Minus(tail_cache, head) + k
      BY <2>1, <3>1, <3>2, <3>3, MinusOfLater
    <3> QED
      BY <3>2, <3>4
  <2> QED
    BY <2>4, <2>5
<1> QED
  BY <1>1, InductiveInvariant, PTL

\* The destructor destroys every object that is left, whatever was thrown before.
THEOREM DestructorDestroysAll == Spec => []NothingLeaks
<1>1. Init => NothingLeaks
  BY DEF Init, NothingLeaks
<1>2. IInv /\ NothingLeaks /\ [Next]_vars => NothingLeaks'
  <2> SUFFICES ASSUME IInv, NothingLeaks, [Next]_vars, destroyed', NEW i \in Slots
               PROVE  storage'[i] = Empty
    BY DEF NothingLeaks
  <2>1. CASE Destroy
    <3>1. /\ pushing = "idle" /\ ~destroyed /\ storage' = Drained(tail)
          /\ head \in Index /\ tail \in Index
      BY <2>1 DEF Destroy, Idle, IInv, TypeOK
    <3>2. PICK k \in 0..(Capacity - 1) : Slot(Plus(head, k)) = i
      BY <3>1, EverySlot
    <3>3. CASE k < Minus(tail, head)
      <4>1. /\ Minus(tail, head) \in 0..Capacity /\ Plus(head, Minus(tail, head)) = tail
            /\ Capacity \in Nat /\ Words \in Nat /\ 2 * Capacity <= Words
        BY Types, Distances, Sizes DEF IInv, IndicesInOrder
      <4>2. k \in 0..Minus(tail, head) /\ Minus(head, head) = 0
        BY <3>1, <3>3, <4>1, MinusIs DEF Index
      <4>3. Plus(head, k) # tail
        <5>1. Minus(tail, Plus(head, k)) = Minus(tail, head) - k
          BY <3>1, <4>2, MinusFromLater
        <5>2. Minus(tail, tail) = 0
          BY <3>1, MinusIs DEF Index
        <5> QED
          BY <3>3, <4>1, <5>1, <5>2
      <4>4. Plus(head, k) \in UpTo(head, tail) \ {tail}
        BY <4>2, <4>3 DEF UpTo
      <4> QED
        BY <3>1, <3>2, <4>4 DEF Drained
    <3>4. CASE ~(k < Minus(tail, head))
      <4>1. storage[i] = Empty
        BY <3>1, <3>2, <3>4 DEF IInv, SlotsInUse
      <4> QED
        BY <3>1, <4>1 DEF Drained
    <3> QED
      BY <3>3, <3>4
  <2>2. CASE ~Destroy
    <3>1. destroyed' = destroyed
      BY <2>2 DEF Next, Emplace, TryPop, BeginEmplace, LoadHead, Construct, ConstructThrows,
        Publish, BeginTryPop, LoadTail, MoveOut, MoveOutThrows, Release, vars
    <3>2. pushing = "idle" /\ popping = "idle" /\ destroyed
      BY <3>1 DEF IInv, Ready
    <3>3. UNCHANGED storage
      BY <2>2, <3>2 DEF Next, Emplace, TryPop, BeginEmplace, LoadHead, Construct,
        ConstructThrows, Publish, BeginTryPop, LoadTail, MoveOut, MoveOutThrows, Release, vars
    <3> QED
      BY <3>2, <3>3 DEF NothingLeaks
  <2> QED
    BY <2>1, <2>2
<1> QED
  BY <1>1, <1>2, InductiveInvariant, PTL DEF Spec

-----------------------------------------------------------------------------
(***************************************************************************)
(* The refinement of BoundedFifo.                                          *)
(*                                                                         *)
(* Each step of the queue is one of the abstract queue or changes nothing  *)
(* there.  What has to be shown is the effect on Content, the part of the  *)
(* ring between the indices, read as a sequence.                           *)
(***************************************************************************)

Objects == Values \cup {Empty}

\* What the two sides hold between the steps of a call.
Held ==
  /\ pushing = "idle" => arg = Empty
  /\ pushing = "publish" => storage[Slot(tail)] = arg
  /\ IF popping = "release" THEN out \in Values ELSE out = Empty

\* The objects in length slots of a ring, from the moved-th after h on.
Listed(h, ring, moved, length) == [i \in 1..length |-> ring[Slot(Plus(h, moved + i - 1))]]

Moved == IF popping = "release" THEN 1 ELSE 0

-----------------------------------------------------------------------------
(* Content as a sequence.                                                  *)

LEMMA ListedIsSequence ==
  ASSUME NEW h \in Index, NEW ring \in [Slots -> Objects], NEW m \in {0, 1},
         NEW l \in Nat, m + l <= Capacity
  PROVE  /\ Listed(h, ring, m, l) \in Seq(Objects)
         /\ Len(Listed(h, ring, m, l)) = l
         /\ \A i \in 1..l : Listed(h, ring, m, l)[i] = ring[Slot(Plus(h, m + i - 1))]
<1> DEFINE s == Listed(h, ring, m, l)
<1>1. ASSUME NEW i \in 1..l
      PROVE  ring[Slot(Plus(h, m + i - 1))] \in Objects
  <2>1. m + i - 1 \in 0..Words
    BY Sizes
  <2> QED
    BY <2>1, PlusIs, SlotType
<1>2. s \in [1..l -> Objects]
  BY <1>1 DEF Listed
<1>3. s \in Seq(Objects)
  BY <1>2, SeqDef
<1>4. DOMAIN s = 1..l /\ DOMAIN s = 1..Len(s) /\ Len(s) \in Nat
  BY <1>2, <1>3, LenProperties
<1>5. Len(s) = l
  BY <1>4
<1> QED
  BY <1>3, <1>5 DEF Listed

\* Two listings that agree in each element are equal.
LEMMA ListedEqual ==
  ASSUME NEW h \in Index, NEW ring \in [Slots -> Objects], NEW m \in {0, 1},
         NEW l \in Nat, m + l <= Capacity,
         NEW s \in Seq(Objects), Len(s) = l,
         \A i \in 1..l : s[i] = ring[Slot(Plus(h, m + i - 1))]
  PROVE  s = Listed(h, ring, m, l)
<1> DEFINE t == Listed(h, ring, m, l)
<1>1. /\ t \in Seq(Objects) /\ Len(t) = l
      /\ \A i \in 1..l : t[i] = ring[Slot(Plus(h, m + i - 1))]
  BY ListedIsSequence
<1>2. Len(s) = Len(t) /\ \A i \in 1..Len(s) : s[i] = t[i]
  BY <1>1
<1> HIDE DEF t
<1>3. s = t
  BY <1>1, <1>2, SeqEqual
<1> QED
  BY <1>3 DEF t

\* How many elements there are, and where the next one goes.
LEMMA Lengths ==
  ASSUME IInv
  PROVE  /\ Capacity \in Nat /\ Capacity >= 2 /\ 2 * Capacity <= Words /\ Words \in Nat
         /\ head \in Index /\ tail \in Index /\ storage \in [Slots -> Objects]
         /\ Minus(tail, head) \in 0..Capacity /\ Plus(head, Minus(tail, head)) = tail
         /\ Moved \in {0, 1} /\ Minus(tail, head) - Moved \in Nat
         /\ popping \in {"move_out", "release"} => Minus(tail, head) >= 1
         /\ pushing \in {"construct", "publish"} => Minus(tail, head) <= Capacity - 1
<1>1. /\ Capacity \in Nat /\ Capacity >= 2 /\ 2 * Capacity <= Words /\ Words \in Nat
      /\ head \in Index /\ tail \in Index /\ storage \in [Slots -> Objects]
  BY Sizes DEF IInv, TypeOK, Objects
<1>2. Minus(tail, head) \in 0..Capacity /\ Plus(head, Minus(tail, head)) = tail
  BY Types, Distances DEF IInv, IndicesInOrder
<1>3. popping \in {"move_out", "release"} => Minus(tail, head) \in 1..Capacity
  BY ElementAtHead DEF IInv, Ready
<1>4. pushing \in {"construct", "publish"} => Minus(tail, head) \in 0..(Capacity - 1)
  BY Types, RoomAtTail DEF IInv, IndicesInOrder, Ready, NoRoom
<1>5. Moved \in {0, 1} /\ Minus(tail, head) - Moved \in Nat
  BY <1>1, <1>2, <1>3 DEF Moved
<1> QED
  BY <1>1, <1>2, <1>3, <1>4, <1>5

LEMMA ContentIs ==
  ASSUME IInv, ~destroyed
  PROVE  /\ Content = Listed(head, storage, Moved, Minus(tail, head) - Moved)
         /\ Content \in Seq(Objects)
         /\ Len(Content) = Minus(tail, head) - Moved
         /\ \A i \in 1..(Minus(tail, head) - Moved) :
              Content[i] = storage[Slot(Plus(head, Moved + i - 1))]
<1>1. Content = Listed(head, storage, Moved, Minus(tail, head) - Moved)
  BY DEF Content, Listed, Moved
<1>2. Moved + (Minus(tail, head) - Moved) <= Capacity
  BY Lengths
<1> QED
  BY <1>1, <1>2, Lengths, ListedIsSequence

\* Steps that touch neither the ring nor head_ and tail_.
LEMMA ContentKept ==
  ASSUME UNCHANGED <<head, tail, storage, destroyed>>,
         popping' = "release" <=> popping = "release"
  PROVE  Content' = Content
BY DEF Content

LEMMA ContentAfterConstruct ==
  ASSUME IInv, Construct
  PROVE  Content' = Content
<1> DEFINE n == Minus(tail, head)
<1>1. /\ pushing = "construct" /\ ~destroyed /\ arg \in Values
      /\ storage' = [storage EXCEPT ![Slot(tail)] = arg]
      /\ UNCHANGED <<head, tail, popping, destroyed>>
  BY DEF Construct, IInv, Ready, indices
<1>2. n \in 0..(Capacity - 1) /\ Plus(head, n) = tail /\ Moved + (n - Moved) <= Capacity
  BY <1>1, Lengths
<1>3. storage' \in [Slots -> Objects]
  BY <1>1, Lengths, SlotType DEF Objects
<1>4. \A i \in 1..(n - Moved) : Content[i] = storage'[Slot(Plus(head, Moved + i - 1))]
  <2> SUFFICES ASSUME NEW i \in 1..(n - Moved)
               PROVE  Content[i] = storage'[Slot(Plus(head, Moved + i - 1))]
    OBVIOUS
  <2>1. Moved + i - 1 \in 0..(Capacity - 1) /\ Moved + i - 1 # n
    BY <1>2, Lengths
  <2>2. Slot(Plus(head, Moved + i - 1)) # Slot(tail)
    BY <1>2, <2>1, Lengths, SlotsDiffer
  <2>3. Slot(Plus(head, Moved + i - 1)) \in Slots
    <3>1. Moved + i - 1 \in 0..Words
      BY <2>1, Sizes
    <3> QED
      BY <3>1, Lengths, PlusIs, SlotType
  <2> QED
    BY <1>1, <2>2, <2>3, ContentIs, Lengths
<1>5. Content = Listed(head, storage', Moved, n - Moved)
  <2>1. /\ Content \in Seq(Objects) /\ Len(Content) = n - Moved /\ n - Moved \in Nat
        /\ Moved \in {0, 1} /\ head \in Index
    BY <1>1, ContentIs, Lengths
  <2> HIDE DEF n
  <2> QED
    BY <1>2, <1>3, <1>4, <2>1, ListedEqual
<1>6. Content' = Listed(head, storage', Moved, n - Moved)
  BY <1>1 DEF Content, Listed, Moved
<1> QED
  BY <1>5, <1>6

LEMMA ContentAfterPublish ==
  ASSUME IInv, Held, Publish
  PROVE  Content' = Append(Content, arg) /\ Len(Content) < Capacity
<1> DEFINE n == Minus(tail, head)
<1>1. /\ pushing = "publish" /\ ~destroyed /\ arg \in Values /\ storage[Slot(tail)] = arg
      /\ tail' = Plus(tail, 1) /\ UNCHANGED <<head, popping, storage, destroyed>>
  BY DEF Publish, IInv, Ready, Held
<1>2. n \in 0..(Capacity - 1) /\ Plus(head, n) = tail /\ Moved + (n + 1 - Moved) <= Capacity
  BY <1>1, Lengths
<1>3. Minus(tail', head) = n + 1
  <2>1. 1 \in 0..Words /\ n + 1 < Words
    BY <1>2, Lengths
  <2> QED
    BY <1>1, <2>1, Lengths, MinusOfLater
<1>4. Content' = Listed(head, storage, Moved, n + 1 - Moved)
  <2>1. Content' = Listed(head', storage', Moved', Minus(tail', head') - Moved')
    BY <1>1 DEF Content, Listed, Moved
  <2>2. Minus(tail', head') = n + 1
    BY <1>1, <1>3
  <2>3. Moved' = Moved /\ head' = head /\ storage' = storage
    BY <1>1 DEF Moved
  <2>4. Minus(tail', head') - Moved' = n + 1 - Moved
    BY <1>2, <2>2, <2>3, Lengths
  <2> HIDE DEF n
  <2> QED
    BY <2>1, <2>3, <2>4, Zenon
<1> DEFINE s == Append(Content, arg)
<1>5. s \in Seq(Objects) /\ Len(s) = n + 1 - Moved
  <2>1. Content \in Seq(Objects) /\ Len(Content) = n - Moved /\ arg \in Objects
    BY <1>1, ContentIs DEF Objects
  <2>2. Append(Content, arg) \in Seq(Objects) /\ Len(Append(Content, arg)) = Len(Content) + 1
    BY <2>1
  <2> QED
    BY <1>2, <2>1, <2>2, Lengths
<1>6. \A i \in 1..(n + 1 - Moved) : s[i] = storage[Slot(Plus(head, Moved + i - 1))]
  <2> SUFFICES ASSUME NEW i \in 1..(n + 1 - Moved)
               PROVE  s[i] = storage[Slot(Plus(head, Moved + i - 1))]
    OBVIOUS
  <2>1. CASE i = n + 1 - Moved
    <3>1. s[i] = arg /\ Moved + i - 1 = n
      BY <1>1, <1>2, <2>1, ContentIs, Lengths
    <3> QED
      BY <1>1, <1>2, <3>1
  <2>2. CASE i # n + 1 - Moved
    <3>1. i \in 1..(n - Moved)
      BY <1>2, <2>2, Lengths
    <3>2. s[i] = Content[i]
      BY <1>1, <3>1, ContentIs, Lengths
    <3> QED
      BY <1>1, <3>1, <3>2, ContentIs
  <2> QED
    BY <2>1, <2>2
<1>7. n + 1 - Moved \in Nat
  BY <1>2, Lengths
<1>8. s = Listed(head, storage, Moved, n + 1 - Moved)
  BY <1>2, <1>5, <1>6, <1>7, Lengths, ListedEqual
<1> QED
  BY <1>1, <1>2, <1>4, <1>8, ContentIs, Lengths

LEMMA ContentAfterMoveOut ==
  ASSUME IInv, MoveOut
  PROVE  /\ Content # <<>> /\ out' = Head(Content) /\ Content' = Tail(Content)
         /\ out' \in Values
<1> DEFINE n == Minus(tail, head)
<1>1. /\ popping = "move_out" /\ popping' = "release" /\ ~destroyed /\ Moved = 0
      /\ out' = storage[Slot(head)]
      /\ storage' = [storage EXCEPT ![Slot(head)] = Empty]
      /\ UNCHANGED <<head, tail, destroyed>>
  BY DEF MoveOut, IInv, Ready, Moved, indices
<1>2. n \in 1..Capacity /\ Plus(head, 0) = head /\ 0 \in 0..(Capacity - 1)
  BY <1>1, ElementAtHead DEF IInv, Ready
<1>3. Content \in Seq(Objects) /\ Len(Content) = n
      /\ \A i \in 1..n : Content[i] = storage[Slot(Plus(head, i - 1))]
  BY <1>1, <1>2, ContentIs, Lengths
<1>4. Content # <<>>
  BY <1>2, <1>3, EmptySeq
<1>5. out' = Head(Content)
  <2>1. Content[1] = storage[Slot(Plus(head, 0))]
    BY <1>2, <1>3, Lengths
  <2> QED
    BY <1>1, <1>2, <1>3, <1>4, <2>1
<1>6. out' \in Values
  <2>1. storage[Slot(head)] # Empty
    <3>1. 0 < n
      BY <1>2, Lengths
    <3> QED
      BY <1>1, <1>2, <3>1 DEF IInv, SlotsInUse
  <2> QED
    BY <1>1, <2>1, Lengths, SlotType DEF Objects
<1>7. storage' \in [Slots -> Objects] /\ n - 1 \in Nat /\ 1 + (n - 1) <= Capacity
  BY <1>1, <1>2, Lengths, SlotType DEF Objects
<1>8. Content' = Listed(head, storage', 1, n - 1)
  BY <1>1 DEF Content, Listed
<1>9. /\ Tail(Content) \in Seq(Objects) /\ Len(Tail(Content)) = n - 1
      /\ \A i \in 1..(n - 1) : Tail(Content)[i] = Content[i + 1]
  BY <1>3, <1>4, HeadTailProperties
<1>10. \A i \in 1..(n - 1) : Tail(Content)[i] = storage'[Slot(Plus(head, 1 + i - 1))]
  <2> SUFFICES ASSUME NEW i \in 1..(n - 1)
               PROVE  Tail(Content)[i] = storage'[Slot(Plus(head, 1 + i - 1))]
    OBVIOUS
  <2>1. /\ i \in 0..(Capacity - 1) /\ i # 0 /\ i + 1 \in 1..n /\ (i + 1) - 1 = i /\ 1 + i - 1 = i
        /\ i \in 0..Words
    BY <1>2, Lengths
  <2>2. Slot(Plus(head, i)) # Slot(head)
    BY <1>2, <2>1, Lengths, SlotsDiffer
  <2>3. Slot(Plus(head, i)) \in Slots
    BY <2>1, Lengths, PlusIs, SlotType
  <2>4. Tail(Content)[i] = storage[Slot(Plus(head, i))]
    BY <1>3, <1>9, <2>1
  <2> QED
    BY <1>1, <2>1, <2>2, <2>3, <2>4, Lengths
<1>11. Tail(Content) = Listed(head, storage', 1, n - 1)
  BY <1>7, <1>9, <1>10, Lengths, ListedEqual
<1> QED
  BY <1>4, <1>5, <1>6, <1>8, <1>11

LEMMA ContentAfterRelease ==
  ASSUME IInv, Release
  PROVE  Content' = Content
<1> DEFINE n == Minus(tail, head)
<1>1. /\ popping = "release" /\ popping' = "idle" /\ ~destroyed /\ Moved = 1
      /\ head' = Plus(head, 1) /\ UNCHANGED <<tail, storage, destroyed>>
  BY DEF Release, IInv, Ready, Moved
<1>2. n \in 1..Capacity
  BY <1>1, Lengths
<1>3. head' \in Index /\ Minus(tail, head') = n - 1
  <2>1. 1 \in 0..n
    BY <1>2, Lengths
  <2> QED
    BY <1>1, <2>1, Lengths, MinusFromLater
<1>4. n - 1 \in Nat /\ 0 + (n - 1) <= Capacity
  BY <1>2, Lengths
<1>5. Content' = Listed(head', storage, 0, n - 1)
  <2>1. n - 1 - 0 = n - 1
    BY <1>4
  <2> QED
    BY <1>1, <1>3, <2>1 DEF Content, Listed
<1>6. \A i \in 1..(n - 1) : Content[i] = storage[Slot(Plus(head', 0 + i - 1))]
  <2> SUFFICES ASSUME NEW i \in 1..(n - 1)
               PROVE  Content[i] = storage[Slot(Plus(head', 0 + i - 1))]
    OBVIOUS
  <2>1. i - 1 \in 0..(Words - 1) /\ 0 + i - 1 = i - 1 /\ (i - 1) + 1 = i /\ 1 + i - 1 = i
    BY <1>2, Lengths
  <2>2. Plus(head', i - 1) = Plus(head, i)
    BY <1>1, <2>1, Lengths, PlusPlus
  <2> QED
    BY <1>1, <2>1, <2>2, ContentIs
<1>7. Content \in Seq(Objects) /\ Len(Content) = n - 1
  BY <1>1, ContentIs
<1>8. Content = Listed(head', storage, 0, n - 1)
  BY <1>3, <1>4, <1>6, <1>7, Lengths, ListedEqual
<1> QED
  BY <1>5, <1>8

LEMMA ContentAfterDestroy ==
  ASSUME destroyed'
  PROVE  Content' = <<>>
BY DEF Content

-----------------------------------------------------------------------------
(* What the sides hold.                                                    *)

LEMMA InitIsEmpty ==
  ASSUME Init
  PROVE  Content = <<>> /\ Held
<1>1. Minus(0, 0) = 0
  BY Sizes, MinusIs DEF Index
<1>2. ~destroyed /\ Moved = 0 /\ Minus(tail, head) = 0
  BY <1>1 DEF Init, Moved
<1>3. IInv
  BY InitEstablishesInvariant
<1>4. Content = <<>>
  BY <1>2, <1>3, ContentIs, EmptySeq
<1> QED
  BY <1>4 DEF Init, Held

LEMMA HeldStep ==
  ASSUME IInv, Held, [Next]_vars
  PROVE  Held'
<1> USE DEF flags, indices
<1>1. ASSUME NEW v \in Values, BeginEmplace(v)
      PROVE  Held'
  BY <1>1 DEF BeginEmplace, Held
<1>2. CASE LoadHead \/ ConstructThrows \/ BeginTryPop \/ LoadTail \/ MoveOutThrows
  BY <1>2 DEF LoadHead, ConstructThrows, BeginTryPop, LoadTail, MoveOutThrows, Held
<1>3. CASE Construct
  <2>1. storage'[Slot(tail)] = arg
    BY <1>3, Lengths, SlotType DEF Construct
  <2> QED
    BY <1>3, <2>1 DEF Construct, Held
<1>4. CASE Publish \/ Release
  BY <1>4 DEF Publish, Release, Held
<1>5. CASE MoveOut
  <2>1. pushing = "publish" => Slot(tail) # Slot(head)
    <3> SUFFICES ASSUME pushing = "publish"
                 PROVE  Slot(tail) # Slot(head)
      OBVIOUS
    <3> DEFINE n == Minus(tail, head)
    <3>1. popping = "move_out" /\ tail_cache # head
      BY <1>5 DEF MoveOut, IInv, Ready
    <3>2. n \in 0..(Capacity - 1) /\ n # 0 /\ Plus(head, n) = tail
      BY <3>1, Lengths
    <3>3. Plus(head, 0) = head /\ 0 \in 0..(Capacity - 1)
      BY <3>1, ElementAtHead
    <3> HIDE DEF n
    <3>4. Slot(Plus(head, n)) # Slot(Plus(head, 0))
      BY <3>2, <3>3, Lengths, SlotsDiffer
    <3> QED
      BY <3>2, <3>3, <3>4
  <2>2. pushing = "publish" => storage'[Slot(tail)] = arg
    BY <1>5, <2>1, Lengths, SlotType DEF MoveOut, Held
  <2>3. out' \in Values
    BY <1>5, ContentAfterMoveOut
  <2> QED
    BY <1>5, <2>2, <2>3 DEF MoveOut, Held
<1>6. CASE Destroy
  BY <1>6 DEF Destroy, Idle, Held
<1>7. CASE UNCHANGED vars
  BY <1>7 DEF vars, Held
<1> QED
  BY <1>1, <1>2, <1>3, <1>4, <1>5, <1>6, <1>7 DEF Next, Emplace, TryPop

-----------------------------------------------------------------------------
(* One lemma per step of the queue.                                        *)

LEMMA BeginEmplaceAsks ==
  ASSUME IInv, Held, NEW v \in Values, BeginEmplace(v)
  PROVE  Fifo!Next
<1>1. /\ pushing = "idle" /\ ~destroyed /\ arg = Empty /\ arg' = v
      /\ UNCHANGED <<head, tail, storage, popping, out, destroyed, stale_loads, may_throw>>
  BY DEF BeginEmplace, Held, flags, indices
<1>2. Content' = Content
  BY <1>1, ContentKept
<1>3. Fifo!Ask(Producer, v)
  BY <1>1, <1>2 DEF Fifo!Ask, Fifo!config
<1> QED
  BY <1>3 DEF Fifo!Next

\* emplace that finds no room, even after a look at head_, fails for a reason the
\* abstract queue knows.
LEMMA LoadHeadRefuses ==
  ASSUME IInv, Held, LoadHead
  PROVE  Fifo!Next \/ UNCHANGED Fifo!vars
<1>1. /\ pushing = "load_head" /\ ~destroyed /\ arg \in Values
      /\ head_cache' \in LoadsOfHead
      /\ IF NoRoom(head_cache') THEN pushing' = "idle" /\ arg' = Empty
                                ELSE pushing' = "construct" /\ UNCHANGED arg
      /\ UNCHANGED <<head, tail, storage, popping, out, destroyed, stale_loads, may_throw>>
  BY DEF LoadHead, IInv, Ready, flags
<1>2. Content' = Content
  BY <1>1, ContentKept
<1>3. CASE ~NoRoom(head_cache')
  BY <1>1, <1>2, <1>3 DEF Fifo!vars, Fifo!config
<1>4. CASE NoRoom(head_cache')
  <2>1. arg # Empty
    BY <1>1, SpscEmptyAssumption
  <2>2. stale_loads \/ Len(Content) = Capacity \/ out # Empty
    <3> SUFFICES ASSUME ~stale_loads, popping # "release"
                 PROVE  Len(Content) = Capacity
      BY SpscEmptyAssumption DEF Held
    <3>1. head_cache' = head
      BY <1>1 DEF LoadsOfHead
    <3>2. Minus(Plus(tail, 1), head) > Capacity
      BY <1>4, <3>1 DEF NoRoom
    <3>3. Minus(Plus(tail, 1), head) = Minus(tail, head) + 1
      <4>1. 1 \in 0..Words /\ Minus(tail, head) + 1 < Words
        BY Lengths
      <4> QED
        BY <4>1, Lengths, MinusOfLater
    <3>4. Minus(tail, head) = Capacity /\ Moved = 0
      BY <3>2, <3>3, Lengths DEF Moved
    <3> QED
      BY <1>1, <3>4, ContentIs, Lengths
  <2>3. Fifo!Refuse(Producer)
    BY <1>1, <1>2, <1>4, <2>1, <2>2 DEF Fifo!Refuse, Fifo!config
  <2> QED
    BY <2>3 DEF Fifo!Next
<1> QED
  BY <1>3, <1>4

LEMMA ConstructIsInvisible ==
  ASSUME IInv, Construct
  PROVE  UNCHANGED Fifo!vars
BY ContentAfterConstruct DEF Construct, Fifo!vars, Fifo!config, flags, indices

LEMMA ConstructThrowsRefuses ==
  ASSUME IInv, ConstructThrows
  PROVE  Fifo!Next
<1>1. /\ may_throw /\ arg \in Values /\ arg' = Empty
      /\ UNCHANGED <<head, tail, storage, popping, out, destroyed, stale_loads, may_throw>>
  BY DEF ConstructThrows, IInv, Ready, flags, indices
<1>2. Content' = Content
  BY <1>1, ContentKept
<1>3. arg # Empty
  BY <1>1, SpscEmptyAssumption
<1>4. Fifo!Refuse(Producer)
  BY <1>1, <1>2, <1>3 DEF Fifo!Refuse, Fifo!config
<1> QED
  BY <1>4 DEF Fifo!Next

LEMMA PublishPuts ==
  ASSUME IInv, Held, Publish
  PROVE  Fifo!Next
<1>1. /\ arg \in Values /\ arg' = Empty
      /\ UNCHANGED <<popping, out, destroyed, stale_loads, may_throw>>
  BY DEF Publish, IInv, Ready, flags
<1>2. Content' = Append(Content, arg) /\ Len(Content) < Capacity
  BY ContentAfterPublish
<1>3. arg # Empty
  BY <1>1, SpscEmptyAssumption
<1>4. Fifo!Put(Producer)
  BY <1>1, <1>2, <1>3 DEF Fifo!Put, Fifo!config
<1> QED
  BY <1>4 DEF Fifo!Next

LEMMA BeginTryPopWants ==
  ASSUME IInv, Held, BeginTryPop
  PROVE  Fifo!Next
<1>1. /\ popping = "idle" /\ popping' \in {"load_tail", "move_out"} /\ out = Empty
      /\ UNCHANGED <<head, tail, storage, arg, out, destroyed, stale_loads, may_throw>>
  BY DEF BeginTryPop, Held, flags, indices
<1>2. Content' = Content
  BY <1>1, ContentKept
<1>3. Fifo!Want(Consumer)
  BY <1>1, <1>2 DEF Fifo!Want, Fifo!config
<1> QED
  BY <1>3 DEF Fifo!Next

\* The same for try_pop and an empty queue.
LEMMA LoadTailGoesWithout ==
  ASSUME IInv, LoadTail
  PROVE  Fifo!Next \/ UNCHANGED Fifo!vars
<1>1. /\ popping = "load_tail" /\ ~destroyed
      /\ tail_cache' \in LoadsOfTail
      /\ popping' = IF tail_cache' = head THEN "idle" ELSE "move_out"
      /\ UNCHANGED <<head, tail, storage, arg, out, destroyed, stale_loads, may_throw>>
  BY DEF LoadTail, IInv, Ready, flags
<1>2. Content' = Content
  BY <1>1, ContentKept
<1>3. CASE tail_cache' # head
  BY <1>1, <1>2, <1>3 DEF Fifo!vars, Fifo!config
<1>4. CASE tail_cache' = head
  <2>1. ~stale_loads => Content = <<>>
    <3> SUFFICES ASSUME ~stale_loads
                 PROVE  Content = <<>>
      OBVIOUS
    <3>1. tail = head
      BY <1>1, <1>4 DEF LoadsOfTail
    <3>2. Minus(tail, head) = 0 /\ Moved = 0
      BY <1>1, <3>1, Lengths, MinusIs DEF Moved, Index
    <3> QED
      BY <1>1, <3>2, ContentIs, EmptySeq
  <2>2. Fifo!GoWithout(Consumer)
    BY <1>1, <1>2, <1>4, <2>1 DEF Fifo!GoWithout, Fifo!config
  <2> QED
    BY <2>2 DEF Fifo!Next
<1> QED
  BY <1>3, <1>4

LEMMA MoveOutGets ==
  ASSUME IInv, MoveOut
  PROVE  Fifo!Next
<1>1. /\ popping = "move_out" /\ popping' = "release"
      /\ UNCHANGED <<arg, destroyed, stale_loads, may_throw>>
  BY DEF MoveOut, flags, indices
<1>2. /\ Content # <<>> /\ out' = Head(Content) /\ Content' = Tail(Content)
      /\ Head(Content) # Empty
  BY ContentAfterMoveOut, SpscEmptyAssumption
<1>3. Fifo!Get(Consumer)
  BY <1>1, <1>2 DEF Fifo!Get, Fifo!config
<1> QED
  BY <1>3 DEF Fifo!Next

LEMMA MoveOutThrowsGoesWithout ==
  ASSUME MoveOutThrows
  PROVE  Fifo!Next
<1>1. /\ may_throw /\ popping = "move_out" /\ popping' = "idle"
      /\ UNCHANGED <<head, tail, storage, arg, out, destroyed, stale_loads, may_throw>>
  BY DEF MoveOutThrows, flags, indices
<1>2. Content' = Content
  BY <1>1, ContentKept
<1>3. Fifo!GoWithout(Consumer)
  BY <1>1, <1>2 DEF Fifo!GoWithout, Fifo!config
<1> QED
  BY <1>3 DEF Fifo!Next

LEMMA ReleaseReturns ==
  ASSUME IInv, Held, Release
  PROVE  Fifo!Next
<1>1. /\ popping = "release" /\ popping' = "idle" /\ out \in Values /\ out' = Empty
      /\ UNCHANGED <<arg, destroyed, stale_loads, may_throw>>
  BY DEF Release, Held, flags
<1>2. out # Empty
  BY <1>1, SpscEmptyAssumption
<1>3. Fifo!Return(Consumer)
  BY <1>1, <1>2, ContentAfterRelease DEF Fifo!Return, Fifo!config
<1> QED
  BY <1>3 DEF Fifo!Next

LEMMA DestroyDestroys ==
  ASSUME Held, Destroy
  PROVE  Fifo!Next
<1>1. /\ popping = "idle" /\ arg = Empty /\ out = Empty /\ destroyed' = TRUE
      /\ UNCHANGED <<popping, arg, out, stale_loads, may_throw>>
  BY DEF Destroy, Idle, Held, flags
<1>2. Content' = <<>>
  BY <1>1, ContentAfterDestroy
<1>3. Fifo!Destroy
  BY <1>1, <1>2 DEF Fifo!Destroy, Fifo!config
<1> QED
  BY <1>3 DEF Fifo!Next

\* The queue is a bounded FIFO, whatever its capacity, however its indices wrap and
\* whatever old values are loaded: values come out in the order in which they were
\* published, each one once; and with current loads and payloads that do not throw
\* a push fails only on a full queue or beside a pop under way, a pop only on an
\* empty queue.
THEOREM Refinement == Spec => ImplementsFifo
<1>1. ASSUME Init
      PROVE  Fifo!Init /\ Held
  <2>1. Content = <<>> /\ Held
    BY <1>1, InitIsEmpty
  <2> QED
    BY <1>1, <2>1 DEF Init, Fifo!Init, Fifo!config
<1>2. ASSUME IInv, Held, [Next]_vars
      PROVE  [Fifo!Next]_(Fifo!vars)
  <2>1. CASE UNCHANGED vars
    <3>1. UNCHANGED <<head, tail, storage, destroyed, popping, arg, out, stale_loads, may_throw>>
      BY <2>1 DEF vars, flags, indices
    <3>2. Content' = Content
      BY <3>1, ContentKept
    <3> QED
      BY <3>1, <3>2 DEF Fifo!vars, Fifo!config
  <2>2. CASE Next
    BY <1>2, <2>2, BeginEmplaceAsks, LoadHeadRefuses, ConstructIsInvisible,
       ConstructThrowsRefuses, PublishPuts, BeginTryPopWants, LoadTailGoesWithout, MoveOutGets,
       MoveOutThrowsGoesWithout, ReleaseReturns, DestroyDestroys
    DEF Next, Emplace, TryPop
  <2> QED
    BY <1>2, <2>1, <2>2
<1>3. IInv /\ Held /\ [Next]_vars => Held'
  BY HeldStep
<1> QED
  BY <1>1, <1>2, <1>3, InductiveInvariant, PTL DEF Spec, ImplementsFifo, Fifo!Spec

-----------------------------------------------------------------------------
(***************************************************************************)
(* The client: the two threads of the test.  They make some of the calls   *)
(* any client may make, so what is shown above of every client holds of    *)
(* them.                                                                   *)
(***************************************************************************)

LEMMA AppendAtEnd ==
  ASSUME NEW S, NEW a \in Seq(S), NEW b \in Seq(S), NEW c \in Seq(S), NEW e \in S
  PROVE  a \o b \o Append(c, e) = Append(a \o b \o c, e)
<1> DEFINE s == a \o b
<1>1. s \in Seq(S)
  BY ConcatProperties
<1> HIDE DEF s
<1>2. s \o Append(c, e) = Append(s \o c, e)
  BY <1>1
<1> QED
  BY <1>2 DEF s

LEMMA TakeFirst ==
  ASSUME NEW S, NEW a \in Seq(S), NEW c \in Seq(S), c # <<>>
  PROVE  a \o <<Head(c)>> \o Tail(c) = a \o <<>> \o c
<1> DEFINE h == <<Head(c)>> t == Tail(c)
<1>1. h \in Seq(S) /\ t \in Seq(S) /\ <<>> \in Seq(S)
  BY HeadTailProperties
<1>2. c = h \o t /\ a \o <<>> = a
  OBVIOUS
<1>3. (a \o h) \o t = a \o (h \o t)
  BY <1>1, ConcatAssociative
<1> QED
  BY <1>2, <1>3

LEMMA HandOver ==
  ASSUME NEW S, NEW a \in Seq(S), NEW c \in Seq(S), NEW e \in S
  PROVE  Append(a, e) \o <<>> \o c = a \o <<e>> \o c
<1>1. Append(a, e) \in Seq(S) /\ Append(a, e) = a \o <<e>>
  BY AppendProperties, AppendIsConcat
<1>2. Append(a, e) \o <<>> = Append(a, e)
  BY <1>1
<1> QED
  BY <1>1, <1>2

\* The values from 1 to n, in order.
UpToNat(n) == [i \in 1..n |-> i]

LEMMA OneMore ==
  ASSUME NEW n \in Nat
  PROVE  UpToNat(n) \in Seq(Nat) /\ Len(UpToNat(n)) = n
         /\ Append(UpToNat(n), n + 1) = UpToNat(n + 1)
BY DEF UpToNat

-----------------------------------------------------------------------------
(* The client's own state.                                                 *)

Progress ==
  /\ sent \in 0..Count /\ values \in Seq(Values)
  /\ pushing # "idle" => sent < Count /\ arg = sent + 1
  /\ ~may_throw

\* When the queue is destroyed, all values have been received.
EverythingReceived == destroyed => values = UpToNat(Count)

\* What the consumer is about to return.
Returning == IF popping = "release" THEN <<out>> ELSE <<>>

\* The client calls the queue as any client may.
LEMMA ClientSteps ==
  ASSUME Progress, [HNext]_hvars
  PROVE  [Next]_vars
<1>1. CASE Push
  <2>1. BeginEmplace(sent + 1)
    BY <1>1 DEF Push
  <2>2. sent + 1 \in Values
    BY <1>1, SpscHarnessAssumption DEF Push, Progress
  <2> QED
    BY <2>1, <2>2 DEF Next, Emplace
<1>2. CASE Pushing \/ Pushed
  BY <1>2 DEF Pushing, Pushed, Next, Emplace
<1>3. CASE Poll \/ Polling \/ Popped
  BY <1>3 DEF Poll, Polling, Popped, Next, TryPop
<1>4. CASE JoinAndDestroy
  BY <1>4 DEF JoinAndDestroy, Next
<1>5. CASE UNCHANGED hvars
  BY <1>5 DEF hvars, vars
<1> QED
  BY <1>1, <1>2, <1>3, <1>4, <1>5 DEF HNext, PushLoop, PopLoop

LEMMA ProgressStep ==
  ASSUME IInv, Held, Progress, [HNext]_hvars
  PROVE  Progress'
<1> USE DEF flags, indices
<1>1. CASE Push
  BY <1>1 DEF Push, Progress, BeginEmplace
<1>2. CASE Pushing
  BY <1>2 DEF Pushing, Progress, LoadHead, Construct
<1>3. CASE Pushed
  <2>1. Publish /\ pushing = "publish" /\ pushing' = "idle" /\ may_throw' = may_throw
        /\ sent' = sent + 1 /\ values' = values
    BY <1>3 DEF Pushed, Publish
  <2> QED
    BY <2>1, SpscHarnessAssumption DEF Progress
<1>4. CASE Poll \/ Polling
  BY <1>4 DEF Poll, Polling, Progress, BeginTryPop, LoadTail, MoveOut
<1>5. CASE Popped
  <2>1. /\ popping = "release" /\ values' = Append(values, out)
        /\ UNCHANGED <<sent, pushing, arg, may_throw>>
    BY <1>5 DEF Popped, Release
  <2>2. out \in Values
    BY <2>1 DEF Held
  <2> QED
    BY <2>1, <2>2 DEF Progress
<1>6. CASE JoinAndDestroy
  BY <1>6 DEF JoinAndDestroy, Progress, Destroy
<1>7. CASE UNCHANGED hvars
  BY <1>7 DEF hvars, vars, Progress
<1> QED
  BY <1>1, <1>2, <1>3, <1>4, <1>5, <1>6, <1>7 DEF HNext, PushLoop, PopLoop

LEMMA SafeInvariant == HSafeSpec => [](IInv /\ Held /\ Progress)
<1>1. HInit => Init
  BY DEF HInit
<1>2. ASSUME HInit
      PROVE  Progress
  <2>1. sent = 0 /\ values = <<>> /\ pushing = "idle" /\ ~may_throw
    BY <1>2 DEF HInit, Init
  <2> QED
    BY <2>1, EmptySeq, SpscHarnessAssumption DEF Progress
<1>3. Init => IInv /\ Held
  BY InitEstablishesInvariant, InitIsEmpty
<1>4. Progress /\ [HNext]_hvars => [Next]_vars
  BY ClientSteps
<1>5. IInv /\ Held /\ [Next]_vars => IInv' /\ Held'
  BY StepKeepsInvariant, HeldStep
<1>6. IInv /\ Held /\ Progress /\ [HNext]_hvars => Progress'
  BY ProgressStep
<1> QED
  BY <1>1, <1>2, <1>3, <1>4, <1>5, <1>6, PTL DEF HSafeSpec

-----------------------------------------------------------------------------
(* The values on their way.                                                *)

LEMMA Sequences ==
  ASSUME IInv, Held, Progress, ~destroyed
  PROVE  /\ values \in Seq(Objects) /\ Returning \in Seq(Objects)
         /\ Content \in Seq(Objects)
         /\ NothingLostOrReordered <=> values \o Returning \o Content = UpToNat(sent)
<1>1. values \in Seq(Objects)
  BY SeqMonotonic DEF Progress, Objects
<1>2. Returning \in Seq(Objects)
  <2>1. popping = "release" => out \in Objects
    BY DEF Held, Objects
  <2> QED
    BY <2>1, EmptySeq DEF Returning
<1>3. Content \in Seq(Objects)
  BY ContentIs
<1>4. NothingLostOrReordered <=> values \o Returning \o Content = UpToNat(sent)
  BY DEF NothingLostOrReordered, Returning, UpToNat
<1> QED
  BY <1>1, <1>2, <1>3, <1>4

LEMMA NothingLostStep ==
  ASSUME IInv, Held, Progress, IInv', Held', Progress',
         NothingLostOrReordered, [HNext]_hvars
  PROVE  NothingLostOrReordered'
<1> SUFFICES ASSUME ~destroyed'
             PROVE  NothingLostOrReordered'
  BY DEF NothingLostOrReordered
<1> DEFINE Account == values \o Returning \o Content = UpToNat(sent)
<1> USE DEF flags, indices
<1>1. NothingLostOrReordered' <=> Account'
  BY DEF NothingLostOrReordered, Returning, UpToNat
<1>2. ASSUME UNCHANGED <<head, tail, storage, destroyed, values, sent, out>>,
             popping' = "release" <=> popping = "release"
      PROVE  NothingLostOrReordered'
  <2>1. ~destroyed /\ Content' = Content /\ Returning' = Returning
    BY <1>2, ContentKept DEF Returning
  <2> QED
    BY <1>1, <1>2, <2>1, Sequences
<1>3. CASE Push \/ (Pushing /\ LoadHead)
           \/ Poll \/ (Polling /\ LoadTail)
           \/ UNCHANGED hvars
  BY <1>2, <1>3 DEF Push, Pushing, Poll, Polling, hvars, vars, BeginEmplace,
     LoadHead, BeginTryPop, LoadTail
<1>4. CASE Pushing /\ Construct
  <2>1. ~destroyed /\ UNCHANGED <<values, sent, popping, out>>
    BY <1>4 DEF Pushing, Construct
  <2>2. Content' = Content
    BY <1>4, ContentAfterConstruct
  <2> QED
    BY <1>1, <2>1, <2>2, Sequences DEF Returning
<1>5. CASE Pushed
  <2>1. /\ Publish /\ sent' = sent + 1 /\ arg = sent + 1 /\ arg \in Values
        /\ ~destroyed /\ UNCHANGED <<values, popping, out>>
    BY <1>5, SpscHarnessAssumption DEF Pushed, Publish, Progress
  <2>2. Content' = Append(Content, sent + 1)
    BY <2>1, ContentAfterPublish
  <2>3. sent + 1 \in Objects /\ sent \in Nat
    BY <2>1 DEF Progress, Objects
  <2>4. values \o Returning \o Content' = Append(UpToNat(sent), sent + 1)
    <3>1. /\ values \in Seq(Objects) /\ Returning \in Seq(Objects)
          /\ Content \in Seq(Objects)
          /\ values \o Returning \o Content = UpToNat(sent)
      BY <2>1, Sequences
    <3>2. \A a, b, c \in Seq(Objects) : \A e \in Objects :
            a \o b \o Append(c, e) = Append(a \o b \o c, e)
      BY AppendAtEnd
    <3>3. values \o Returning \o Append(Content, sent + 1)
            = Append(values \o Returning \o Content, sent + 1)
      BY <2>3, <3>1, <3>2
    <3> QED
      BY <2>2, <3>1, <3>3
  <2> QED
    BY <1>1, <2>1, <2>3, <2>4, OneMore DEF Returning
<1>6. CASE Polling /\ MoveOut
  <2>1. /\ popping = "move_out" /\ popping' = "release" /\ ~destroyed
        /\ UNCHANGED <<values, sent>>
    BY <1>6 DEF Polling, MoveOut
  <2>2. /\ Content # <<>> /\ out' = Head(Content)
        /\ Content' = Tail(Content)
    BY <1>6, ContentAfterMoveOut
  <2>3. Returning = <<>> /\ Returning' = <<Head(Content)>>
    BY <2>1, <2>2 DEF Returning
  <2>4. values \o <<Head(Content)>> \o Tail(Content) = values \o <<>> \o Content
    BY <2>1, <2>2, Sequences, TakeFirst
  <2> QED
    BY <1>1, <2>1, <2>2, <2>3, <2>4, Sequences
<1>7. CASE Popped
  <2>1. /\ Release /\ popping = "release" /\ popping' = "idle" /\ ~destroyed
        /\ values' = Append(values, out) /\ sent' = sent
    BY <1>7 DEF Popped, Release
  <2>2. Content' = Content
    BY <2>1, ContentAfterRelease
  <2>3. Returning = <<out>> /\ Returning' = <<>> /\ out \in Objects
    BY <2>1 DEF Returning, Held, Objects
  <2>4. Append(values, out) \o <<>> \o Content = values \o <<out>> \o Content
    BY <2>1, <2>3, Sequences, HandOver
  <2> QED
    BY <1>1, <2>1, <2>2, <2>3, <2>4, Sequences
<1>8. CASE JoinAndDestroy
  BY <1>8 DEF JoinAndDestroy, Destroy
<1> QED
  BY <1>3, <1>4, <1>5, <1>6, <1>7, <1>8 DEF HNext, PushLoop, PopLoop,
     Pushing, Polling

\* For any number of values, capacity and width of the indices, and whatever old
\* values are loaded: the values received, the one about to be returned and those
\* in the queue are those pushed, in order (queue_test.cpp looks at the end only).
THEOREM NothingLost == HSafeSpec => []NothingLostOrReordered
<1>1. ASSUME HInit
      PROVE  NothingLostOrReordered
  <2>1. Init /\ values = <<>> /\ sent = 0 /\ popping = "idle"
    BY <1>1 DEF HInit, Init
  <2>2. Content = <<>>
    BY <2>1, InitIsEmpty
  <2>3. [i \in 1..0 |-> i] = <<>> /\ <<>> \o <<>> \o <<>> = <<>>
    OBVIOUS
  <2> QED
    BY <2>1, <2>2, <2>3 DEF NothingLostOrReordered
<1>2. IInv /\ Held /\ Progress /\ IInv' /\ Held' /\ Progress'
      /\ NothingLostOrReordered /\ [HNext]_hvars
        => NothingLostOrReordered'
  BY NothingLostStep
<1> QED
  BY <1>1, <1>2, SafeInvariant, PTL DEF HSafeSpec

LEMMA Prefix ==
  ASSUME NEW S, NEW a \in Seq(S), NEW b \in Seq(S), NEW c \in Seq(S), NEW i \in 1..Len(a)
  PROVE  (a \o b \o c)[i] = a[i]
OBVIOUS

\* The test ends, if it ends, with all values received in order.
THEOREM EndsWithAll == HSafeSpec => []EverythingReceived
<1>1. HInit => EverythingReceived
  BY DEF HInit, Init, EverythingReceived
<1>2. ASSUME IInv, Held, Progress, NothingLostOrReordered, EverythingReceived,
             [HNext]_hvars
      PROVE  EverythingReceived'
  <2>1. CASE JoinAndDestroy
    <3>1. ~destroyed /\ sent = Count /\ Len(values) = Count /\ values' = values
      BY <2>1 DEF JoinAndDestroy, Destroy
    <3>2. values = UpToNat(Count)
      <4>1. /\ values \in Seq(Objects) /\ Returning \in Seq(Objects)
            /\ Content \in Seq(Objects)
            /\ values \o Returning \o Content = UpToNat(Count)
        BY <1>2, <3>1, Sequences
      <4>2. Count \in Nat /\ values \in [1..Count -> Objects]
        BY <3>1, <4>1, SpscHarnessAssumption, LenProperties
      <4>3. ASSUME NEW i \in 1..Count
            PROVE  values[i] = i
        <5>1. (values \o Returning \o Content)[i] = values[i]
          BY <3>1, <4>1, <4>2, Prefix
        <5> QED
          BY <4>1, <5>1 DEF UpToNat
      <4> QED
        BY <4>2, <4>3 DEF UpToNat
    <3> QED
      BY <3>1, <3>2 DEF EverythingReceived
  <2>2. CASE PushLoop \/ PopLoop
    <3>1. ~destroyed
      BY <1>2, <2>2 DEF IInv, Ready, PushLoop, PopLoop,
         Push, Pushing, Pushed, Poll, Polling, Popped, BeginEmplace, LoadHead, Construct, Publish,
         BeginTryPop, LoadTail, MoveOut, Release
    <3>2. destroyed' = destroyed
      BY <2>2 DEF PushLoop, PopLoop,
         Push, Pushing, Pushed, Poll, Polling, Popped, BeginEmplace, LoadHead, Construct, Publish,
         BeginTryPop, LoadTail, MoveOut, Release
    <3> QED
      BY <3>1, <3>2 DEF EverythingReceived
  <2>3. CASE UNCHANGED hvars
    BY <1>2, <2>3 DEF hvars, vars, EverythingReceived
  <2> QED
    BY <1>2, <2>1, <2>2, <2>3 DEF HNext
<1> QED
  BY <1>1, <1>2, SafeInvariant, NothingLost, PTL DEF HSafeSpec
=============================================================================
