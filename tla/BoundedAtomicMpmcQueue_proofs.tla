-------------------- MODULE BoundedAtomicMpmcQueue_proofs --------------------
(***************************************************************************)
(* Safety of the atomic MPMC queues, for any number of threads, any        *)
(* capacity >= 2, with stale loads and payloads that throw.                *)
(*                                                                         *)
(* The last Capacity positions claimed by pushes are the window: each has  *)
(* a cell of its own, and CellInvariant says what its sequence number and  *)
(* storage may be.  A step is one of three kinds: it leaves positions and  *)
(* cells alone (LocalStep); it claims a position, and the number the       *)
(* thread saw, which only ever grows, together with the window says that   *)
(* the cell is the thread's to use (EnqueueGetsRawCell,                    *)
(* DequeueGetsObject); or it works on the cell the thread has claimed,     *)
(* which disturbs nobody else (OwnCellStep).                               *)
(*                                                                         *)
(* A throw ends a claim and leaves its cell as it is, for ever: no other   *)
(* step neglects a position (NeglectIsThrown).  The refinement and what    *)
(* the destructor leaves behind are stated with the neglected positions,   *)
(* so that both hold for payloads that throw and for those that do not.    *)
(***************************************************************************)
EXTENDS BoundedAtomicMpmcQueue, SequenceTheorems, TLAPS

-----------------------------------------------------------------------------
(* Positions and cells.                                                    *)

\* Every position has a cell.
LEMMA CellType == ASSUME NEW p \in Int PROVE Cell(p) \in Cells
BY CapacityAssumption DEF Cell, Cells

\* Division with remainder, as the solver knows it.
LEMMA Division ==
  ASSUME NEW a \in Int, NEW n \in Nat, n >= 2
  PROVE  /\ a \div n \in Int
         /\ a % n \in 0..(n - 1)
         /\ a = n * (a \div n) + (a % n)
BY Z3

\* Multiples of n that are less than n apart are equal.
LEMMA CloseMultiples ==
  ASSUME NEW k \in Int, NEW n \in Nat, n >= 2, -n < n * k, n * k < n
  PROVE  k = 0
<1>1. k >= 1 => n * k >= n
  OBVIOUS
<1>2. k <= -1 => n * k <= -n
  <2> SUFFICES ASSUME k <= -1 PROVE n * k <= -n
    OBVIOUS
  <2> DEFINE j == -k
  <2>1. j \in Int /\ j >= 1 /\ k = -j
    OBVIOUS
  <2>2. n * j >= n
    BY <2>1
  <2>3. n * k = -(n * j)
    BY <2>1
  <2> QED
    BY <2>2, <2>3
<1> QED
  BY <1>1, <1>2

\* Positions less than a lap apart have different cells.
LEMMA CellInjective ==
  ASSUME NEW p \in Int, NEW q \in Int, p - q < Capacity, q - p < Capacity,
         Cell(p) = Cell(q)
  PROVE  p = q
<1> DEFINE k == (p \div Capacity) - (q \div Capacity)
<1>1. /\ p = Capacity * (p \div Capacity) + Cell(p)
      /\ q = Capacity * (q \div Capacity) + Cell(p)
      /\ p \div Capacity \in Int /\ q \div Capacity \in Int
  BY CapacityAssumption, Division DEF Cell
<1>2. p - q = Capacity * k /\ k \in Int
  BY <1>1, CellType, CapacityAssumption DEF Cells
<1>3. k = 0
  BY <1>2, CapacityAssumption, CloseMultiples
<1> QED
  BY <1>2, <1>3, CapacityAssumption

\* A position and the same position one lap later share their cell.
LEMMA CellLap ==
  ASSUME NEW p \in Int
  PROVE  Cell(p + Capacity) = Cell(p)
<1> DEFINE q == p + Capacity
           k == (q \div Capacity) - (p \div Capacity) - 1
<1>1. /\ p = Capacity * (p \div Capacity) + Cell(p)
      /\ p \div Capacity \in Int
      /\ Cell(p) \in 0..(Capacity - 1)
  BY CapacityAssumption, Division DEF Cell
<1>2. /\ q = Capacity * (q \div Capacity) + Cell(q)
      /\ q \div Capacity \in Int
      /\ Cell(q) \in 0..(Capacity - 1)
  <2>1. q \in Int
    BY CapacityAssumption
  <2> QED
    BY <2>1, CapacityAssumption, Division DEF Cell
<1>3. Cell(p) - Cell(q) = Capacity * k /\ k \in Int
  BY <1>1, <1>2, CapacityAssumption
<1>4. k = 0
  <2> HIDE DEF k, q
  <2>1. -Capacity < Capacity * k /\ Capacity * k < Capacity
    BY <1>1, <1>2, <1>3, CapacityAssumption
  <2> QED
    BY <2>1, <1>3, CapacityAssumption, CloseMultiples
<1> QED
  BY <1>1, <1>2, <1>3, <1>4, CapacityAssumption

-----------------------------------------------------------------------------
(* Steps that touch the thread's own variables only.                       *)

SharedCells == <<enqueue_pos, dequeue_pos, sequence, storage>>

\* What such a step leaves to be shown: its types and what t has seen.
LEMMA LocalStep ==
  ASSUME IInv, TypeOK', UNCHANGED SharedCells,
         NEW t \in Threads,
         \A u \in Threads \ {t} : /\ pc'[u] = pc[u]
                                  /\ pos'[u] = pos[u]
                                  /\ held'[u] = held[u],
         pc'[t] \notin {"construct", "publish", "move_out", "release"},
         pc'[t] = "e_cas" => sequence[Cell(pos'[t])] >= pos'[t],
         pc'[t] = "p_cas" => sequence[Cell(pos'[t])] >= pos'[t] + 1,
         pc'[t] \in {"e_pos", "e_seq", "e_cas"} => held'[t] \in Values
  PROVE  IInv'
<1> USE DEF SharedCells, Producing, Consuming, Claiming
<1>1. WithinOneLap'
  BY DEF IInv, WithinOneLap
<1>2. CellInvariant'
  BY DEF IInv, CellInvariant, Window, Cell
<1>3. ClaimInvariant'
  <2>1. ASSUME NEW u \in Threads, Claiming(u)'
        PROVE  u # t /\ Claiming(u) /\ pos'[u] = pos[u] /\ pc'[u] = pc[u]
    BY <2>1
  <2> QED
    BY <2>1 DEF IInv, ClaimInvariant, Cell
<1>4. SeenInvariant'
  BY DEF IInv, SeenInvariant, Cell
<1> QED
  BY <1>1, <1>2, <1>3, <1>4 DEF IInv

\* A load of the sequence number of pos[t]'s cell returns at most its value.
LEMMA LoadsAreOld ==
  ASSUME TypeOK, NEW t \in Threads, NEW seq \in LoadsOfSequence(Cell(pos[t]))
  PROVE  seq \in Nat /\ seq <= sequence[Cell(pos[t])]
<1>1. sequence[Cell(pos[t])] \in Nat
  BY CellType DEF TypeOK
<1> QED
  BY <1>1 DEF LoadsOfSequence

\* A call that ends without having changed positions or cells.
LEMMA LeaveStep ==
  ASSUME IInv, NEW t \in Threads, Leave(t), UNCHANGED <<SharedCells, closed>>,
         lifetime' \in {"alive", "draining", "gone"}
  PROVE  IInv'
<1>1. TypeOK'
  BY DEF IInv, TypeOK, Leave, Goto, Locations, SharedCells
<1> QED
  BY <1>1, LocalStep DEF IInv, TypeOK, Leave, Goto, SharedCells

\* The steps of emplace that only read shared state.
LEMMA EmplaceLocalSteps ==
  ASSUME IInv, NEW t \in Threads,
         \/ \E v \in Values : BeginEmplace(t, v)
         \/ LoadEnqueuePos(t)
         \/ EmplaceSeesFree(t)
         \/ EmplaceSeesFull(t)
         \/ EmplaceSeesTaken(t)
         \/ RetryEnqueue(t)
         \/ ConstructThrows(t)
  PROVE  IInv'
<1> USE DEF shared, SharedCells
<1>0. TypeOK /\ SeenInvariant
  BY DEF IInv
<1>1. CASE \E v \in Values : BeginEmplace(t, v)
  <2>1. TypeOK'
    BY <1>0, <1>1 DEF TypeOK, BeginEmplace, Goto, Locations
  <2> QED
    BY <1>0, <1>1, <2>1, LocalStep DEF TypeOK, BeginEmplace, Goto
<1>2. CASE LoadEnqueuePos(t)
  <2>1. TypeOK'
    BY <1>0, <1>2 DEF TypeOK, LoadEnqueuePos, LoadsOfPos, Goto, Locations
  <2> QED
    BY <1>0, <1>2, <2>1, LocalStep DEF TypeOK, SeenInvariant, LoadEnqueuePos, Goto
<1>3. CASE EmplaceSeesFree(t)
  <2>1. TypeOK'
    BY <1>0, <1>3 DEF TypeOK, EmplaceSeesFree, Goto, Locations
  <2>2. sequence[Cell(pos[t])] >= pos[t]
    BY <1>0, <1>3, LoadsAreOld DEF EmplaceSeesFree
  <2> QED
    BY <1>0, <1>3, <2>1, <2>2, LocalStep DEF TypeOK, SeenInvariant, EmplaceSeesFree, Goto
<1>4. CASE EmplaceSeesFull(t) \/ ConstructThrows(t)
  BY <1>0, <1>4, LeaveStep DEF EmplaceSeesFull, ConstructThrows, TypeOK
<1>5. CASE EmplaceSeesTaken(t)
  <2>1. TypeOK'
    BY <1>0, <1>5 DEF TypeOK, EmplaceSeesTaken, Goto, Locations
  <2> QED
    BY <1>0, <1>5, <2>1, LocalStep DEF TypeOK, SeenInvariant, EmplaceSeesTaken, Goto
<1>6. CASE RetryEnqueue(t)
  <2>1. TypeOK'
    BY <1>0, <1>6 DEF TypeOK, RetryEnqueue, LoadsOfPos, Goto, Locations
  <2> QED
    BY <1>0, <1>6, <2>1, LocalStep DEF TypeOK, SeenInvariant, RetryEnqueue, Goto
<1> QED
  BY <1>1, <1>2, <1>3, <1>4, <1>5, <1>6

\* The steps of try_pop that only read shared state.
LEMMA TryPopLocalSteps ==
  ASSUME IInv, NEW t \in Threads,
         \/ BeginTryPop(t)
         \/ LoadDequeuePos(t)
         \/ TryPopSeesItem(t)
         \/ TryPopSeesEmpty(t)
         \/ TryPopSeesTaken(t)
         \/ RetryDequeue(t)
         \/ MoveOutThrows(t)
  PROVE  IInv'
<1> USE DEF shared, SharedCells
<1>0. TypeOK /\ SeenInvariant
  BY DEF IInv
<1>1. CASE BeginTryPop(t)
  <2>1. TypeOK'
    BY <1>0, <1>1 DEF TypeOK, BeginTryPop, Goto, Locations
  <2> QED
    BY <1>0, <1>1, <2>1, LocalStep DEF TypeOK, BeginTryPop, Goto
<1>2. CASE LoadDequeuePos(t)
  <2>1. TypeOK'
    BY <1>0, <1>2 DEF TypeOK, LoadDequeuePos, LoadsOfPos, Goto, Locations
  <2> QED
    BY <1>0, <1>2, <2>1, LocalStep DEF TypeOK, LoadDequeuePos, Goto
<1>3. CASE TryPopSeesItem(t)
  <2>1. TypeOK'
    BY <1>0, <1>3 DEF TypeOK, TryPopSeesItem, Goto, Locations
  <2>2. sequence[Cell(pos[t])] >= pos[t] + 1
    BY <1>0, <1>3, LoadsAreOld DEF TryPopSeesItem
  <2> QED
    BY <1>0, <1>3, <2>1, <2>2, LocalStep DEF TypeOK, TryPopSeesItem, Goto
<1>4. CASE TryPopSeesEmpty(t) \/ MoveOutThrows(t)
  BY <1>0, <1>4, LeaveStep DEF TryPopSeesEmpty, MoveOutThrows, TypeOK
<1>5. CASE TryPopSeesTaken(t)
  <2>1. TypeOK'
    BY <1>0, <1>5 DEF TypeOK, TryPopSeesTaken, Goto, Locations
  <2> QED
    BY <1>0, <1>5, <2>1, LocalStep DEF TypeOK, TryPopSeesTaken, Goto
<1>6. CASE RetryDequeue(t)
  <2>1. TypeOK'
    BY <1>0, <1>6 DEF TypeOK, RetryDequeue, LoadsOfPos, Goto, Locations
  <2> QED
    BY <1>0, <1>6, <2>1, LocalStep DEF TypeOK, RetryDequeue, Goto
<1> QED
  BY <1>1, <1>2, <1>3, <1>4, <1>5, <1>6

-----------------------------------------------------------------------------
(* Steps that claim a position.                                            *)

\* A successful compare-and-swap on enqueue_pos_ gets a released, raw cell.
LEMMA EnqueueGetsRawCell ==
  ASSUME IInv, NEW t \in Threads, ClaimEnqueue(t)
  PROVE  /\ sequence[Cell(enqueue_pos)] = enqueue_pos
         /\ storage[Cell(enqueue_pos)] = Empty
         /\ enqueue_pos - Capacity < dequeue_pos
<1> DEFINE q == enqueue_pos - Capacity
<1>1. q \in Window /\ q \in Int /\ q + Capacity = enqueue_pos
  BY CapacityAssumption DEF IInv, TypeOK, Window
<1>2. Cell(enqueue_pos) = Cell(q)
  BY <1>1, CellLap
<1>3. sequence[Cell(q)] >= q + Capacity
  BY <1>1, <1>2 DEF IInv, SeenInvariant, ClaimEnqueue
<1>4. IF q >= dequeue_pos
        THEN sequence[Cell(q)] = q \/ sequence[Cell(q)] = q + 1
        ELSE \/ sequence[Cell(q)] = q + 1
             \/ sequence[Cell(q)] = q + Capacity /\ storage[Cell(q)] = Empty
  BY <1>1 DEF IInv, CellInvariant, Window
<1> QED
  BY <1>1, <1>2, <1>3, <1>4, CapacityAssumption DEF IInv, TypeOK

\* A successful compare-and-swap on dequeue_pos_ gets a published object.
LEMMA DequeueGetsObject ==
  ASSUME IInv, NEW t \in Threads, ClaimDequeue(t)
  PROVE  /\ dequeue_pos \in Window
         /\ sequence[Cell(dequeue_pos)] = dequeue_pos + 1
         /\ storage[Cell(dequeue_pos)] # Empty
<1>0. /\ enqueue_pos \in Nat /\ dequeue_pos \in Nat
      /\ dequeue_pos <= enqueue_pos /\ enqueue_pos <= dequeue_pos + Capacity
  BY DEF IInv, TypeOK, WithinOneLap
<1>1. sequence[Cell(dequeue_pos)] >= dequeue_pos + 1
  BY DEF IInv, SeenInvariant, ClaimDequeue
<1>2. dequeue_pos # enqueue_pos
  <2> SUFFICES ASSUME dequeue_pos = enqueue_pos PROVE FALSE
    OBVIOUS
  <2> DEFINE q == enqueue_pos - Capacity
  <2>1. q \in Window /\ q \in Int /\ q + Capacity = enqueue_pos /\ q < dequeue_pos
    BY <1>0, CapacityAssumption DEF Window
  <2>2. Cell(dequeue_pos) = Cell(q)
    BY <2>1, CellLap
  <2>3. sequence[Cell(q)] = q + 1 \/ sequence[Cell(q)] = q + Capacity
    BY <1>0, <2>1 DEF IInv, CellInvariant, Window
  <2> QED
    BY <1>0, <1>1, <2>1, <2>2, <2>3, CapacityAssumption
<1>3. dequeue_pos \in Window
  BY <1>0, <1>2, CapacityAssumption DEF Window
<1>4. \/ sequence[Cell(dequeue_pos)] = dequeue_pos
      \/ sequence[Cell(dequeue_pos)] = dequeue_pos + 1 /\ storage[Cell(dequeue_pos)] # Empty
  BY <1>0, <1>3 DEF IInv, CellInvariant, Window
<1> QED
  BY <1>0, <1>1, <1>3, <1>4

\* The push's compare-and-swap: the window moves on by one.
LEMMA ClaimEnqueueStep ==
  ASSUME IInv, NEW t \in Threads, ClaimEnqueue(t)
  PROVE  IInv'
<1> USE DEF Producing, Consuming, Claiming, Cell
<1>0. /\ TypeOK /\ WithinOneLap /\ CellInvariant /\ ClaimInvariant /\ SeenInvariant
      /\ enqueue_pos \in Nat /\ dequeue_pos \in Nat
  BY DEF IInv, TypeOK
<1>1. /\ enqueue_pos' = enqueue_pos + 1 /\ pos[t] = enqueue_pos
      /\ pc' = [pc EXCEPT ![t] = "construct"] /\ pc[t] = "e_cas"
      /\ UNCHANGED <<dequeue_pos, sequence, storage, closed, lifetime, pos, held>>
  BY DEF ClaimEnqueue, Goto
<1>2. TypeOK'
  BY <1>0, <1>1 DEF TypeOK, Locations
<1>3. WithinOneLap'
  BY <1>0, <1>1, EnqueueGetsRawCell, CapacityAssumption DEF WithinOneLap
<1>4. CellInvariant'
  <2>1. ASSUME NEW p \in (enqueue_pos + 1 - Capacity)..enqueue_pos
        PROVE  IF p >= dequeue_pos
                 THEN \/ sequence[Cell(p)] = p
                      \/ sequence[Cell(p)] = p + 1 /\ storage[Cell(p)] # Empty
                 ELSE \/ sequence[Cell(p)] = p + 1
                      \/ sequence[Cell(p)] = p + Capacity /\ storage[Cell(p)] = Empty
    <3> USE CapacityAssumption
    <3>1. CASE p = enqueue_pos
      BY <1>0, <3>1, EnqueueGetsRawCell DEF WithinOneLap
    <3>2. CASE p # enqueue_pos
      <4> HIDE DEF Cell
      <4>1. p \in (enqueue_pos - Capacity)..(enqueue_pos - 1)
        BY <1>0, <3>2
      <4> QED
        BY <1>0, <4>1 DEF CellInvariant, Window
    <3> QED
      BY <3>1, <3>2
  <2>2. (enqueue_pos' - Capacity)..(enqueue_pos' - 1) = (enqueue_pos + 1 - Capacity)..enqueue_pos
    BY <1>0, <1>1, CapacityAssumption
  <2> QED
    BY <1>1, <2>1, <2>2 DEF CellInvariant, Window
<1>5. ClaimInvariant'
  <2>1. ASSUME NEW u \in Threads, u # t
        PROVE  pc'[u] = pc[u]
    BY <1>0, <1>1, <2>1 DEF TypeOK
  <2>2. pc'[t] = "construct"
    BY <1>0, <1>1 DEF TypeOK
  <2>3. ASSUME NEW u \in Threads, Consuming(u)
        PROVE  enqueue_pos + 1 - Capacity <= pos[u]
    <3>1. /\ enqueue_pos - Capacity <= pos[u]
          /\ sequence[Cell(pos[u])] = pos[u] + 1
          /\ pos[u] \in Nat
      BY <1>0, <2>3 DEF ClaimInvariant, TypeOK
    <3>2. pos[u] # enqueue_pos - Capacity
      <4> SUFFICES ASSUME pos[u] = enqueue_pos - Capacity PROVE FALSE
        OBVIOUS
      <4>1. Cell(pos[u]) = Cell(enqueue_pos)
        BY <1>0, <3>1, CapacityAssumption, CellLap
      <4> QED
        BY <1>0, <3>1, <4>1, EnqueueGetsRawCell, CapacityAssumption
    <3> QED
      BY <1>0, <3>1, <3>2, CapacityAssumption
  <2>4. ASSUME NEW u \in Threads, Claiming(u)
        PROVE  pos[u] < enqueue_pos
    BY <1>0, <2>4 DEF ClaimInvariant, WithinOneLap, TypeOK
  <2>5. ASSUME NEW u \in Threads
        PROVE  /\ Producing(u)' =>
                    /\ dequeue_pos' <= pos'[u] /\ pos'[u] < enqueue_pos'
                    /\ sequence'[Cell(pos'[u])] = pos'[u]
                    /\ storage'[Cell(pos'[u])] = Empty <=> pc'[u] = "construct"
               /\ Consuming(u)' =>
                    /\ enqueue_pos' - Capacity <= pos'[u] /\ pos'[u] < dequeue_pos'
                    /\ sequence'[Cell(pos'[u])] = pos'[u] + 1
                    /\ storage'[Cell(pos'[u])] = Empty <=> pc'[u] = "release"
    <3>1. CASE u = t
      BY <1>0, <1>1, <2>2, <3>1, EnqueueGetsRawCell DEF WithinOneLap
    <3>2. CASE u # t
      <4>1. pos[u] \in Nat
        BY <1>0 DEF TypeOK
      <4>2. CASE Producing(u)
        <5>1. /\ dequeue_pos <= pos[u] /\ pos[u] < enqueue_pos
              /\ sequence[Cell(pos[u])] = pos[u]
              /\ storage[Cell(pos[u])] = Empty <=> pc[u] = "construct"
          BY <1>0, <4>2 DEF ClaimInvariant
        <5> QED
          BY <1>0, <1>1, <2>1, <3>2, <4>1, <4>2, <5>1
      <4>3. CASE Consuming(u)
        <5>1. /\ pos[u] < dequeue_pos
              /\ sequence[Cell(pos[u])] = pos[u] + 1
              /\ storage[Cell(pos[u])] = Empty <=> pc[u] = "release"
          BY <1>0, <4>3 DEF ClaimInvariant
        <5>2. enqueue_pos' - Capacity <= pos[u]
          BY <1>0, <1>1, <2>3, <4>1, <4>3, CapacityAssumption
        <5> QED
          BY <1>0, <1>1, <2>1, <3>2, <4>1, <4>3, <5>1, <5>2
      <4> QED
        BY <2>1, <3>2, <4>2, <4>3
    <3> QED
      BY <3>1, <3>2
  <2>6. ASSUME NEW u \in Threads, NEW w \in Threads,
               Claiming(u)', Claiming(w)', pos'[u] = pos'[w]
        PROVE  u = w
    <3>1. CASE u = t \/ w = t
      BY <1>0, <1>1, <2>1, <2>4, <2>6, <3>1
    <3>2. CASE u # t /\ w # t
      BY <1>0, <1>1, <2>1, <2>6, <3>2 DEF ClaimInvariant
    <3> QED
      BY <3>1, <3>2
  <2> QED
    BY <2>5, <2>6 DEF ClaimInvariant
<1>6. SeenInvariant'
  BY <1>0, <1>1 DEF SeenInvariant, TypeOK
<1> QED
  BY <1>2, <1>3, <1>4, <1>5, <1>6 DEF IInv

\* The pop's compare-and-swap: one position of the window becomes a popped one.
LEMMA ClaimDequeueStep ==
  ASSUME IInv, NEW t \in Threads, ClaimDequeue(t)
  PROVE  IInv'
<1> USE DEF Producing, Consuming, Claiming, Cell
<1>0. /\ TypeOK /\ WithinOneLap /\ CellInvariant /\ ClaimInvariant /\ SeenInvariant
      /\ enqueue_pos \in Nat /\ dequeue_pos \in Nat
  BY DEF IInv, TypeOK
<1>1. /\ dequeue_pos' = dequeue_pos + 1 /\ pos[t] = dequeue_pos
      /\ pc' = [pc EXCEPT ![t] = "move_out"] /\ pc[t] = "p_cas"
      /\ UNCHANGED <<enqueue_pos, sequence, storage, closed, lifetime, pos, held>>
  BY DEF ClaimDequeue, Goto
<1>2. TypeOK'
  BY <1>0, <1>1 DEF TypeOK, Locations
<1>3. WithinOneLap'
  BY <1>0, <1>1, DequeueGetsObject, CapacityAssumption DEF WithinOneLap, Window
<1>4. CellInvariant'
  <2>1. ASSUME NEW p \in (enqueue_pos - Capacity)..(enqueue_pos - 1)
        PROVE  IF p >= dequeue_pos + 1
                 THEN \/ sequence[Cell(p)] = p
                      \/ sequence[Cell(p)] = p + 1 /\ storage[Cell(p)] # Empty
                 ELSE \/ sequence[Cell(p)] = p + 1
                      \/ sequence[Cell(p)] = p + Capacity /\ storage[Cell(p)] = Empty
    <3> USE CapacityAssumption
    <3> HIDE DEF Cell
    <3>1. CASE p = dequeue_pos
      BY <1>0, <3>1, DequeueGetsObject
    <3>2. CASE p # dequeue_pos
      BY <1>0, <3>2 DEF CellInvariant, Window
    <3> QED
      BY <3>1, <3>2
  <2> QED
    BY <1>1, <2>1 DEF CellInvariant, Window
<1>5. ClaimInvariant'
  <2>1. ASSUME NEW u \in Threads, u # t
        PROVE  pc'[u] = pc[u]
    BY <1>0, <1>1, <2>1 DEF TypeOK
  <2>2. pc'[t] = "move_out"
    BY <1>0, <1>1 DEF TypeOK
  <2>3. ASSUME NEW u \in Threads, Producing(u)
        PROVE  dequeue_pos + 1 <= pos[u] /\ pos[u] # dequeue_pos
    <3>1. /\ dequeue_pos <= pos[u]
          /\ sequence[Cell(pos[u])] = pos[u]
          /\ pos[u] \in Nat
      BY <1>0, <2>3 DEF ClaimInvariant, TypeOK
    <3>2. pos[u] # dequeue_pos
      BY <1>0, <3>1, DequeueGetsObject
    <3> QED
      BY <1>0, <3>1, <3>2
  <2>4. ASSUME NEW u \in Threads, Consuming(u)
        PROVE  pos[u] < dequeue_pos /\ pos[u] \in Nat
    BY <1>0, <2>4 DEF ClaimInvariant, TypeOK
  <2>5. ASSUME NEW u \in Threads
        PROVE  /\ Producing(u)' =>
                    /\ dequeue_pos' <= pos'[u] /\ pos'[u] < enqueue_pos'
                    /\ sequence'[Cell(pos'[u])] = pos'[u]
                    /\ storage'[Cell(pos'[u])] = Empty <=> pc'[u] = "construct"
               /\ Consuming(u)' =>
                    /\ enqueue_pos' - Capacity <= pos'[u] /\ pos'[u] < dequeue_pos'
                    /\ sequence'[Cell(pos'[u])] = pos'[u] + 1
                    /\ storage'[Cell(pos'[u])] = Empty <=> pc'[u] = "release"
    <3>1. CASE u = t
      <4>1. enqueue_pos - Capacity <= dequeue_pos
        BY DequeueGetsObject, <1>0, CapacityAssumption DEF Window
      <4> QED
        BY <1>0, <1>1, <2>2, <3>1, <4>1, DequeueGetsObject
    <3>2. CASE u # t /\ Producing(u)
      <4>1. /\ pos[u] < enqueue_pos
            /\ sequence[Cell(pos[u])] = pos[u]
            /\ storage[Cell(pos[u])] = Empty <=> pc[u] = "construct"
        BY <1>0, <3>2 DEF ClaimInvariant
      <4> QED
        BY <1>1, <2>1, <2>3, <3>2, <4>1
    <3>3. CASE u # t /\ Consuming(u)
      <4>1. /\ enqueue_pos - Capacity <= pos[u]
            /\ sequence[Cell(pos[u])] = pos[u] + 1
            /\ storage[Cell(pos[u])] = Empty <=> pc[u] = "release"
        BY <1>0, <3>3 DEF ClaimInvariant
      <4>2. pos[u] < dequeue_pos'
        BY <1>0, <1>1, <2>4, <3>3
      <4> QED
        BY <1>1, <2>1, <3>3, <4>1, <4>2
    <3> QED
      BY <2>1, <3>1, <3>2, <3>3
  <2>6. ASSUME NEW u \in Threads, NEW w \in Threads,
               Claiming(u)', Claiming(w)', pos'[u] = pos'[w]
        PROVE  u = w
    <3>1. CASE u = t \/ w = t
      BY <1>0, <1>1, <2>1, <2>3, <2>4, <2>6, <3>1
    <3>2. CASE u # t /\ w # t
      BY <1>0, <1>1, <2>1, <2>6, <3>2 DEF ClaimInvariant
    <3> QED
      BY <3>1, <3>2
  <2> QED
    BY <2>5, <2>6 DEF ClaimInvariant
<1>6. SeenInvariant'
  BY <1>0, <1>1 DEF SeenInvariant, TypeOK
<1> QED
  BY <1>2, <1>3, <1>4, <1>5, <1>6 DEF IInv

-----------------------------------------------------------------------------
(* Steps inside a claimed cell.                                            *)

\* All claimed positions lie in the window, where different positions have
\* different cells.
LEMMA ClaimInWindow ==
  ASSUME IInv, NEW t \in Threads, Claiming(t)
  PROVE  /\ pos[t] \in Window
         /\ \A p \in Window : p # pos[t] => Cell(p) # Cell(pos[t])
<1>1. /\ enqueue_pos \in Nat /\ dequeue_pos \in Nat /\ pos[t] \in Nat
      /\ enqueue_pos - Capacity <= dequeue_pos /\ dequeue_pos <= enqueue_pos
  BY CapacityAssumption DEF IInv, TypeOK, WithinOneLap
<1>2. pos[t] \in Window
  <2>1. CASE Producing(t)
    <3>1. dequeue_pos <= pos[t] /\ pos[t] < enqueue_pos
      BY <2>1 DEF IInv, ClaimInvariant
    <3> QED
      BY <1>1, <3>1, CapacityAssumption DEF Window
  <2>2. CASE Consuming(t)
    <3>1. enqueue_pos - Capacity <= pos[t] /\ pos[t] < dequeue_pos
      BY <2>2 DEF IInv, ClaimInvariant
    <3> QED
      BY <1>1, <3>1, CapacityAssumption DEF Window
  <2> QED
    BY <2>1, <2>2 DEF Claiming
<1>3. ASSUME NEW p \in Window, Cell(p) = Cell(pos[t])
      PROVE  p = pos[t]
  <2>1. p \in Int /\ p - pos[t] < Capacity /\ pos[t] - p < Capacity
    BY <1>1, <1>2, CapacityAssumption DEF Window
  <2> QED
    BY <1>1, <1>3, <2>1, CellInjective
<1> QED
  BY <1>2, <1>3

\* A step of t inside the cell it has claimed disturbs no other cell and no
\* other thread, whatever it does to that cell; the cell itself must end up
\* right.
LEMMA OwnCellStep ==
  ASSUME IInv, TypeOK', NEW t \in Threads, Claiming(t),
         UNCHANGED <<enqueue_pos, dequeue_pos>>,
         \A i \in Cells \ {Cell(pos[t])} : /\ sequence'[i] = sequence[i]
                                           /\ storage'[i] = storage[i],
         sequence'[Cell(pos[t])] >= sequence[Cell(pos[t])],
         \A u \in Threads \ {t} : /\ pc'[u] = pc[u]
                                  /\ pos'[u] = pos[u]
                                  /\ held'[u] = held[u],
         LET seq == sequence'[Cell(pos[t])]
             raw == storage'[Cell(pos[t])] = Empty
         IN  /\ IF pos[t] >= dequeue_pos
                  THEN seq = pos[t] \/ (seq = pos[t] + 1 /\ ~raw)
                  ELSE seq = pos[t] + 1 \/ (seq = pos[t] + Capacity /\ raw)
             /\ \/ pc'[t] = "idle"
                \/ /\ pc'[t] = "publish" /\ Producing(t) /\ pos'[t] = pos[t]
                   /\ seq = pos[t] /\ ~raw
                \/ /\ pc'[t] = "release" /\ Consuming(t) /\ pos'[t] = pos[t]
                   /\ seq = pos[t] + 1 /\ raw
  PROVE  IInv'
<1>0. /\ TypeOK /\ WithinOneLap /\ CellInvariant /\ ClaimInvariant /\ SeenInvariant
      /\ enqueue_pos \in Nat /\ dequeue_pos \in Nat
  BY DEF IInv, TypeOK
<1>1. WithinOneLap'
  BY <1>0 DEF WithinOneLap
<1>2. ASSUME NEW p \in Int, Cell(p) # Cell(pos[t])
      PROVE  sequence'[Cell(p)] = sequence[Cell(p)] /\ storage'[Cell(p)] = storage[Cell(p)]
  BY <1>2, CellType
<1>3. CellInvariant'
  <2>1. ASSUME NEW p \in Window
        PROVE  IF p >= dequeue_pos
                 THEN \/ sequence'[Cell(p)] = p
                      \/ sequence'[Cell(p)] = p + 1 /\ storage'[Cell(p)] # Empty
                 ELSE \/ sequence'[Cell(p)] = p + 1
                      \/ sequence'[Cell(p)] = p + Capacity /\ storage'[Cell(p)] = Empty
    <3>1. CASE p = pos[t]
      BY <3>1
    <3>2. CASE p # pos[t]
      <4>1. p \in Int /\ Cell(p) # Cell(pos[t])
        BY <1>0, <3>2, ClaimInWindow, CapacityAssumption DEF Window
      <4>2. sequence'[Cell(p)] = sequence[Cell(p)] /\ storage'[Cell(p)] = storage[Cell(p)]
        BY <1>2, <4>1
      <4> QED
        BY <1>0, <4>2 DEF CellInvariant, Window
    <3> QED
      BY <3>1, <3>2
  <2> QED
    BY <2>1 DEF CellInvariant, Window, Cell
<1>4. ClaimInvariant'
  <2>1. ASSUME NEW u \in Threads, u # t
        PROVE  pc'[u] = pc[u] /\ pos'[u] = pos[u] /\ (Claiming(u)' <=> Claiming(u))
    BY <2>1 DEF Claiming, Producing, Consuming
  <2>2. ASSUME NEW u \in Threads, u # t, Claiming(u)
        PROVE  /\ sequence'[Cell(pos[u])] = sequence[Cell(pos[u])]
               /\ storage'[Cell(pos[u])] = storage[Cell(pos[u])]
    <3>1. pos[u] # pos[t]
      BY <1>0, <2>2 DEF ClaimInvariant
    <3>2. pos[u] \in Int /\ Cell(pos[u]) # Cell(pos[t])
      BY <1>0, <2>2, <3>1, ClaimInWindow, CapacityAssumption DEF Window
    <3> QED
      BY <1>2, <3>2
  <2>3. Claiming(t)' => pos'[t] = pos[t]
    BY DEF Claiming, Producing, Consuming
  <2>4. ASSUME NEW u \in Threads
        PROVE  /\ Producing(u)' =>
                    /\ dequeue_pos' <= pos'[u] /\ pos'[u] < enqueue_pos'
                    /\ sequence'[Cell(pos'[u])] = pos'[u]
                    /\ storage'[Cell(pos'[u])] = Empty <=> pc'[u] = "construct"
               /\ Consuming(u)' =>
                    /\ enqueue_pos' - Capacity <= pos'[u] /\ pos'[u] < dequeue_pos'
                    /\ sequence'[Cell(pos'[u])] = pos'[u] + 1
                    /\ storage'[Cell(pos'[u])] = Empty <=> pc'[u] = "release"
    <3>1. CASE u = t
      BY <1>0, <3>1 DEF ClaimInvariant, Producing, Consuming
    <3>2. CASE u # t
      <4>1. CASE Claiming(u)
        BY <1>0, <2>1, <2>2, <3>2, <4>1 DEF ClaimInvariant, Producing, Consuming
      <4>2. CASE ~Claiming(u)
        BY <2>1, <3>2, <4>2 DEF Claiming
      <4> QED
        BY <4>1, <4>2
    <3> QED
      BY <3>1, <3>2
  <2>5. ASSUME NEW u \in Threads, NEW w \in Threads,
               Claiming(u)', Claiming(w)', pos'[u] = pos'[w]
        PROVE  u = w
    BY <1>0, <2>1, <2>3, <2>5 DEF ClaimInvariant
  <2> QED
    BY <2>4, <2>5 DEF ClaimInvariant, Cell
<1>5. SeenInvariant'
  <2>1. ASSUME NEW u \in Threads
        PROVE  sequence'[Cell(pos[u])] >= sequence[Cell(pos[u])]
    <3>1. pos[u] \in Int /\ sequence[Cell(pos[u])] \in Nat
      BY <1>0, CellType DEF TypeOK
    <3> QED
      BY <1>2, <3>1
  <2>2. ASSUME NEW u \in Threads, u # t
        PROVE  /\ pc'[u] = pc[u] /\ pos'[u] = pos[u] /\ held'[u] = held[u]
               /\ pos[u] \in Nat /\ sequence[Cell(pos[u])] \in Nat
               /\ sequence'[Cell(pos[u])] \in Nat
    BY <1>0, <2>2, CellType DEF TypeOK
  <2> QED
    BY <1>0, <2>1, <2>2 DEF SeenInvariant, Cell
<1> QED
  BY <1>1, <1>3, <1>4, <1>5 DEF IInv

\* Construct, Publish, MoveOut and Release.
LEMMA ClaimedCellSteps ==
  ASSUME IInv, NEW t \in Threads,
         Construct(t) \/ Publish(t) \/ MoveOut(t) \/ Release(t)
  PROVE  IInv'
<1> DEFINE i == Cell(pos[t])
<1>0. TypeOK /\ ClaimInvariant /\ SeenInvariant
  BY DEF IInv
<1>1. /\ pos[t] \in Nat /\ dequeue_pos \in Nat /\ i \in Cells
      /\ sequence[i] \in Nat /\ storage[i] \in Values \cup {Empty}
  BY <1>0, CellType DEF TypeOK
<1>2. CASE Construct(t)
  <2>1. Producing(t) /\ Claiming(t) /\ pc[t] = "construct" /\ held[t] \in Values
    BY <1>0, <1>2 DEF Construct, Producing, Claiming, SeenInvariant
  <2>2. dequeue_pos <= pos[t] /\ sequence[i] = pos[t]
    BY <1>0, <2>1 DEF ClaimInvariant
  <2>3. storage'[i] = held[t] /\ held[t] # Empty
    BY <1>0, <1>1, <1>2, <2>1, EmptyAssumption DEF Construct, TypeOK
  <2>4. TypeOK'
    BY <1>0, <1>1, <1>2, <2>1 DEF TypeOK, Construct, Goto, Locations
  <2> QED
    BY <1>0, <1>1, <1>2, <2>1, <2>2, <2>3, <2>4, OwnCellStep DEF Construct, Goto, TypeOK
<1>3. CASE Publish(t)
  <2>1. Producing(t) /\ Claiming(t) /\ pc[t] = "publish"
    BY <1>3 DEF Publish, Producing, Claiming
  <2>2. dequeue_pos <= pos[t] /\ sequence[i] = pos[t] /\ storage[i] # Empty
    BY <1>0, <2>1 DEF ClaimInvariant
  <2>3. sequence'[i] = pos[t] + 1
    BY <1>0, <1>1, <1>3 DEF Publish, TypeOK
  <2>4. TypeOK'
    BY <1>0, <1>1, <1>3 DEF TypeOK, Publish, Leave, Goto, Locations
  <2> QED
    BY <1>0, <1>1, <1>3, <2>1, <2>2, <2>3, <2>4, OwnCellStep DEF Publish, Leave, Goto, TypeOK
<1>4. CASE MoveOut(t)
  <2>1. Consuming(t) /\ Claiming(t) /\ pc[t] = "move_out"
    BY <1>4 DEF MoveOut, Consuming, Claiming
  <2>2. pos[t] < dequeue_pos /\ sequence[i] = pos[t] + 1
    BY <1>0, <2>1 DEF ClaimInvariant
  <2>3. storage'[i] = Empty
    BY <1>0, <1>1, <1>4 DEF MoveOut, TypeOK
  <2>4. TypeOK'
    BY <1>0, <1>1, <1>4 DEF TypeOK, MoveOut, Goto, Locations
  <2> QED
    BY <1>0, <1>1, <1>4, <2>1, <2>2, <2>3, <2>4, OwnCellStep DEF MoveOut, Goto, TypeOK
<1>5. CASE Release(t)
  <2>1. Consuming(t) /\ Claiming(t) /\ pc[t] = "release"
    BY <1>5 DEF Release, Consuming, Claiming
  <2>2. pos[t] < dequeue_pos /\ sequence[i] = pos[t] + 1 /\ storage[i] = Empty
    BY <1>0, <2>1 DEF ClaimInvariant
  <2>3. sequence'[i] = pos[t] + Capacity
    BY <1>0, <1>1, <1>5 DEF Release, TypeOK
  <2>4. TypeOK'
    BY <1>0, <1>1, <1>5, CapacityAssumption DEF TypeOK, Release, Leave, Goto, Locations
  <2> QED
    BY <1>0, <1>1, <1>5, <2>1, <2>2, <2>3, <2>4, OwnCellStep, CapacityAssumption
       DEF Release, Leave, Goto, TypeOK
<1> QED
  BY <1>2, <1>3, <1>4, <1>5

-----------------------------------------------------------------------------
(* Theorems.                                                               *)

\* The window of a new queue is one lap of popped, released positions.
LEMMA InitialInvariant == Init => IInv
<1> SUFFICES ASSUME Init PROVE IInv
  OBVIOUS
<1> USE DEF Init
<1>1. TypeOK
  <2>1. Cells \subseteq Nat
    BY CapacityAssumption DEF Cells
  <2>2. sequence \in [Cells -> Nat] /\ storage \in [Cells -> Values \cup {Empty}]
    BY <2>1
  <2>3. pc \in [Threads -> Locations] /\ pos \in [Threads -> Nat]
    BY DEF Locations
  <2>4. held \in [Threads -> Values \cup {Empty}]
    OBVIOUS
  <2> QED
    BY <2>2, <2>3, <2>4 DEF TypeOK
<1>2. WithinOneLap
  BY CapacityAssumption DEF WithinOneLap
<1>3. CellInvariant
  <2> SUFFICES ASSUME NEW p \in (0 - Capacity)..(0 - 1)
               PROVE  sequence[Cell(p)] = p + Capacity /\ storage[Cell(p)] = Empty /\ ~(p >= 0)
    BY DEF CellInvariant, Window
  <2>1. p \in Int /\ p + Capacity \in 0..(Capacity - 1)
    BY CapacityAssumption
  <2>2. Cell(p) \in Cells /\ Cell(p) \in Int /\ p + Capacity \in Cells
    BY <2>1, CellType, CapacityAssumption DEF Cells
  <2>3. Cell(p + Capacity) = p + Capacity
    BY <2>1, CapacityAssumption DEF Cell
  <2>4. Cell(p) = p + Capacity
    BY <2>1, <2>3, CellLap
  <2> QED
    BY <2>1, <2>2, <2>4
<1>4. ClaimInvariant /\ SeenInvariant
  BY DEF ClaimInvariant, SeenInvariant, Claiming, Producing, Consuming
<1> QED
  BY <1>1, <1>2, <1>3, <1>4 DEF IInv

\* Every step keeps the invariant.
LEMMA InvariantStep ==
  ASSUME IInv, [Next]_vars
  PROVE  IInv'
<1>1. ASSUME NEW t \in Producers, Emplace(t) PROVE IInv'
  BY <1>1, EmplaceLocalSteps, ClaimEnqueueStep, ClaimedCellSteps DEF Emplace, Threads
<1>2. ASSUME NEW t \in Poppers, TryPop(t) PROVE IInv'
  BY <1>2, TryPopLocalSteps, ClaimDequeueStep, ClaimedCellSteps DEF TryPop, Threads
<1>3. ASSUME UNCHANGED <<SharedCells, pc, pos, held>>,
             closed' \in BOOLEAN, lifetime' \in {"alive", "draining", "gone"}
      PROVE  IInv'
  BY <1>3 DEF SharedCells, IInv, TypeOK, WithinOneLap, CellInvariant, Window, ClaimInvariant,
              SeenInvariant, Claiming, Producing, Consuming, Cell
<1>4. CASE Close \/ BeginDestructor
  BY <1>3, <1>4 DEF Close, BeginDestructor, SharedCells, IInv, TypeOK
<1>5. CASE UNCHANGED vars
  BY <1>3, <1>5 DEF vars, shared, SharedCells, IInv, TypeOK
<1> QED
  BY <1>1, <1>2, <1>4, <1>5 DEF Next

\* The invariant holds of every run, whatever loads return and whoever throws.
THEOREM InductiveInvariant == Spec => []IInv
<1>1. IInv /\ [Next]_vars => IInv'
  BY InvariantStep
<1> QED
  BY <1>1, InitialInvariant, PTL DEF Spec

\* Positions, sequence numbers, cells and threads keep their types.
THEOREM TypeCorrect == Spec => []TypeOK
<1>1. IInv => TypeOK
  BY DEF IInv
<1> QED
  BY <1>1, InductiveInvariant, PTL

\* Pops never overtake pushes; pushes never lap pops.
THEOREM PositionsWithinOneLap == Spec => []WithinOneLap
<1>1. IInv => WithinOneLap
  BY DEF IInv
<1> QED
  BY <1>1, InductiveInvariant, PTL

\* Each claimed cell belongs to one thread; construction meets raw storage,
\* moving out a live object.
THEOREM CellsAreOwned == Spec => []CellOwnership
<1>1. IInv => CellOwnership
  <2> SUFFICES ASSUME IInv PROVE CellOwnership
    OBVIOUS
  <2>1. ASSUME NEW t \in Threads, NEW u \in Threads, Claiming(t), Claiming(u),
               Cell(pos[t]) = Cell(pos[u])
        PROVE  t = u
    <3>1. pos[t] = pos[u]
      BY <2>1, ClaimInWindow
    <3> QED
      BY <2>1, <3>1 DEF IInv, ClaimInvariant
  <2>2. ASSUME NEW t \in Threads
        PROVE  /\ pc[t] = "construct" => storage[Cell(pos[t])] = Empty
               /\ pc[t] = "move_out" => storage[Cell(pos[t])] # Empty
    BY DEF IInv, ClaimInvariant, Producing, Consuming
  <2> QED
    BY <2>1, <2>2 DEF CellOwnership
<1> QED
  BY <1>1, InductiveInvariant, PTL

-----------------------------------------------------------------------------
(* Who is where.                                                           *)

Objects == Values \cup {Empty}

\* Where each thread is, and what it holds there.
Roles ==
  /\ \A t \in Producers :
       /\ pc[t] \in {"idle", "e_pos", "e_seq", "e_cas", "construct", "publish"}
       /\ IF pc[t] = "idle" THEN held[t] = Empty ELSE held[t] \in Values
       /\ pc[t] \in {"e_seq", "e_cas"} => pos[t] <= enqueue_pos
  /\ \A t \in Poppers :
       /\ pc[t] \in {"idle", "p_pos", "p_seq", "p_cas", "move_out", "release"}
       /\ IF pc[t] = "release" THEN held[t] \in Values ELSE held[t] = Empty
       /\ pc[t] \in {"p_seq", "p_cas"} => pos[t] <= dequeue_pos

\* The invariant of the refinement.
RInv == IInv /\ Roles

LEMMA Members ==
  /\ Producers \subseteq Threads /\ Poppers \subseteq Threads
  /\ Producers \cap Poppers = {} /\ Main \in Poppers
BY RolesAssumption DEF Threads, Poppers

LEMMA Positions ==
  ASSUME IInv
  PROVE  /\ Capacity \in Nat /\ Capacity >= 2
         /\ enqueue_pos \in Nat /\ dequeue_pos \in Nat
         /\ dequeue_pos <= enqueue_pos /\ enqueue_pos - dequeue_pos \in 0..Capacity
         /\ pc \in [Threads -> Locations] /\ pos \in [Threads -> Nat]
         /\ held \in [Threads -> Objects] /\ storage \in [Cells -> Objects]
         /\ sequence \in [Cells -> Nat]
BY CapacityAssumption DEF IInv, TypeOK, WithinOneLap, Objects

LEMMA RolesOfPushers ==
  ASSUME IInv, Roles, NEW t \in Producers, Emplace(t)
  PROVE  Roles'
<1>0. t \in Threads /\ t \notin Poppers
  BY Members
<1>1. \A u \in Threads \ {t} : pc'[u] = pc[u] /\ held'[u] = held[u] /\ pos'[u] = pos[u]
  BY <1>0, Positions DEF Emplace, BeginEmplace, LoadEnqueuePos, EmplaceSeesFree, EmplaceSeesFull,
     EmplaceSeesTaken, ClaimEnqueue, RetryEnqueue, Construct, ConstructThrows, Publish, Goto, Leave
<1>2. dequeue_pos' = dequeue_pos /\ enqueue_pos' \in Nat /\ enqueue_pos <= enqueue_pos'
  BY Positions DEF Emplace, BeginEmplace, LoadEnqueuePos, EmplaceSeesFree, EmplaceSeesFull,
     EmplaceSeesTaken, ClaimEnqueue, RetryEnqueue, Construct, ConstructThrows, Publish, shared
<1>3. /\ pc'[t] \in {"idle", "e_pos", "e_seq", "e_cas", "construct", "publish"}
      /\ IF pc'[t] = "idle" THEN held'[t] = Empty ELSE held'[t] \in Values
      /\ pc'[t] \in {"e_seq", "e_cas"} => pos'[t] <= enqueue_pos'
  <2> USE <1>0, Positions DEF Roles, Goto, Leave
  <2>1. CASE \E v \in Values : BeginEmplace(t, v)
    BY <2>1 DEF BeginEmplace
  <2>2. CASE LoadEnqueuePos(t) \/ RetryEnqueue(t)
    BY <2>2 DEF LoadEnqueuePos, RetryEnqueue, LoadsOfPos, shared
  <2>3. CASE EmplaceSeesFree(t) \/ EmplaceSeesTaken(t)
    BY <2>3 DEF EmplaceSeesFree, EmplaceSeesTaken, shared
  <2>4. CASE EmplaceSeesFull(t) \/ ConstructThrows(t) \/ Publish(t)
    BY <2>4 DEF EmplaceSeesFull, ConstructThrows, Publish
  <2>5. CASE ClaimEnqueue(t) \/ Construct(t)
    BY <2>5 DEF ClaimEnqueue, Construct
  <2> QED
    BY <2>1, <2>2, <2>3, <2>4, <2>5 DEF Emplace
<1>4. \A u \in Producers : pos[u] \in Nat
  BY Members, Positions
<1> QED
  BY <1>0, <1>1, <1>2, <1>3, <1>4, Members, Positions DEF Roles

LEMMA RolesOfPoppers ==
  ASSUME IInv, Roles, NEW t \in Poppers, TryPop(t)
  PROVE  Roles'
<1>0. t \in Threads /\ t \notin Producers
  BY Members
<1>1. \A u \in Threads \ {t} : pc'[u] = pc[u] /\ held'[u] = held[u] /\ pos'[u] = pos[u]
  BY <1>0, Positions DEF TryPop, BeginTryPop, LoadDequeuePos, TryPopSeesItem, TryPopSeesEmpty,
     TryPopSeesTaken, ClaimDequeue, RetryDequeue, MoveOut, MoveOutThrows, Release, Goto, Leave
<1>2. enqueue_pos' = enqueue_pos /\ dequeue_pos' \in Nat /\ dequeue_pos <= dequeue_pos'
  BY Positions DEF TryPop, BeginTryPop, LoadDequeuePos, TryPopSeesItem, TryPopSeesEmpty,
     TryPopSeesTaken, ClaimDequeue, RetryDequeue, MoveOut, MoveOutThrows, Release, shared
<1>3. /\ pc'[t] \in {"idle", "p_pos", "p_seq", "p_cas", "move_out", "release"}
      /\ IF pc'[t] = "release" THEN held'[t] \in Values ELSE held'[t] = Empty
      /\ pc'[t] \in {"p_seq", "p_cas"} => pos'[t] <= dequeue_pos'
  <2> USE <1>0, Positions DEF Roles, Goto, Leave
  <2>1. CASE BeginTryPop(t)
    BY <2>1 DEF BeginTryPop
  <2>2. CASE LoadDequeuePos(t) \/ RetryDequeue(t)
    BY <2>2 DEF LoadDequeuePos, RetryDequeue, LoadsOfPos, shared
  <2>3. CASE TryPopSeesItem(t) \/ TryPopSeesTaken(t)
    BY <2>3 DEF TryPopSeesItem, TryPopSeesTaken, shared
  <2>4. CASE TryPopSeesEmpty(t) \/ MoveOutThrows(t) \/ Release(t)
    BY <2>4 DEF TryPopSeesEmpty, MoveOutThrows, Release
  <2>5. CASE ClaimDequeue(t)
    BY <2>5 DEF ClaimDequeue
  <2>6. CASE MoveOut(t)
    <3>1. storage[Cell(pos[t])] # Empty
      BY <2>6 DEF MoveOut, IInv, ClaimInvariant, Consuming
    <3>2. storage[Cell(pos[t])] \in Values
      <4>1. Cell(pos[t]) \in Cells
        BY CellType
      <4> QED
        BY <3>1, <4>1 DEF Objects
    <3> QED
      BY <2>6, <3>2 DEF MoveOut
  <2> QED
    BY <2>1, <2>2, <2>3, <2>4, <2>5, <2>6 DEF TryPop
<1>4. \A u \in Poppers : pos[u] \in Nat
  BY Members, Positions
<1> QED
  BY <1>0, <1>1, <1>2, <1>3, <1>4, Members, Positions DEF Roles

LEMMA RInvStep ==
  ASSUME RInv, [Next]_vars
  PROVE  RInv'
<1>0. IInv /\ Roles
  BY DEF RInv
<1>1. IInv'
  BY <1>0, InvariantStep
<1>2. Roles'
  <2>1. CASE \E t \in Producers : Emplace(t)
    BY <1>0, <2>1, RolesOfPushers
  <2>2. CASE \E t \in Poppers : TryPop(t)
    BY <1>0, <2>2, RolesOfPoppers
  <2>3. CASE Close \/ BeginDestructor \/ UNCHANGED vars
    BY <1>0, <2>3 DEF Close, BeginDestructor, vars, shared, Roles
  <2> QED
    BY <2>1, <2>2, <2>3 DEF Next
<1> QED
  BY <1>1, <1>2 DEF RInv

LEMMA InitHasRInv ==
  ASSUME Init
  PROVE  RInv
<1>1. Roles
  BY Members DEF Init, Roles
<1> QED
  BY <1>1, InitialInvariant DEF RInv

LEMMA RefinementInvariant == Spec => []RInv
<1>1. Init => RInv
  BY InitHasRInv
<1>2. RInv /\ [Next]_vars => RInv'
  BY RInvStep
<1> QED
  BY <1>1, <1>2, PTL DEF Spec

-----------------------------------------------------------------------------
(***************************************************************************)
(* Neglect.                                                                *)
(*                                                                         *)
(* A position that waits for a call that is over waits for ever: the       *)
(* number in its cell lets neither a push nor a pop claim it, and nobody   *)
(* else writes there.  And it takes a throw to get there: any other end of *)
(* a claim writes the number that hands the cell on.                       *)
(***************************************************************************)

NeglectKept == Abandoned' = Abandoned /\ Unreleased' = Unreleased

\* Steps that write no sequence number and neither begin nor end a claim.
LEMMA NeglectUntouched ==
  ASSUME NEW t \in Threads, UNCHANGED <<enqueue_pos, dequeue_pos, sequence>>,
         \A u \in Threads \ {t} : pc'[u] = pc[u] /\ pos'[u] = pos[u],
         Producing(t)' <=> Producing(t), Consuming(t)' <=> Consuming(t),
         Claiming(t) => pos'[t] = pos[t]
  PROVE  NeglectKept
<1>1. ASSUME NEW u \in Threads
      PROVE  /\ Producing(u)' <=> Producing(u)
             /\ Consuming(u)' <=> Consuming(u)
             /\ Claiming(u) => pos'[u] = pos[u]
  BY DEF Producing, Consuming
<1>2. ASSUME NEW p
      PROVE  (HasPusher(p)' <=> HasPusher(p)) /\ (HasPopper(p)' <=> HasPopper(p))
  BY <1>1, Members DEF HasPusher, HasPopper, Claiming
<1> QED
  BY <1>2 DEF NeglectKept, Abandoned, Unreleased, Cell

\* The claimant of a position tends it, and the one that a push steps over, a lap
\* before, has been released.
LEMMA NeglectAfterClaimEnqueue ==
  ASSUME IInv, NEW t \in Producers, ClaimEnqueue(t)
  PROVE  NeglectKept
<1>0. t \in Threads /\ t \notin Poppers
  BY Members
<1>1. /\ enqueue_pos' = enqueue_pos + 1 /\ UNCHANGED <<dequeue_pos, sequence, pos>>
      /\ pos[t] = enqueue_pos
      /\ pc' = [pc EXCEPT ![t] = "construct"] /\ pc[t] = "e_cas"
      /\ enqueue_pos \in Nat /\ dequeue_pos \in Nat /\ Capacity \in Nat /\ Capacity >= 2
      /\ dequeue_pos <= enqueue_pos
  BY Positions DEF ClaimEnqueue, Goto
<1>2. \A u \in Threads \ {t} : (Producing(u)' <=> Producing(u)) /\ (Consuming(u)' <=> Consuming(u))
  BY <1>1, Positions DEF Producing, Consuming
<1>3. Producing(t)' /\ ~Producing(t)
  BY <1>0, <1>1, Positions DEF Producing
<1>4. \A p : HasPopper(p)' <=> HasPopper(p)
  BY <1>0, <1>1, <1>2, Members DEF HasPopper
<1>5. \A p : p # enqueue_pos => (HasPusher(p)' <=> HasPusher(p))
  BY <1>0, <1>1, <1>2, <1>3, Members DEF HasPusher
<1>6. \A p : p = enqueue_pos => HasPusher(p)'
  BY <1>1, <1>3 DEF HasPusher
<1>7. sequence[Cell(enqueue_pos - Capacity)] # enqueue_pos - Capacity + 1
  <2>1. Cell(enqueue_pos - Capacity) = Cell(enqueue_pos)
    <3>1. Cell(enqueue_pos - Capacity + Capacity) = Cell(enqueue_pos - Capacity)
      BY <1>1, CellLap
    <3> QED
      BY <1>1, <3>1
  <2> QED
    BY <1>0, <1>1, <2>1, EnqueueGetsRawCell
<1>8. Abandoned' = Abandoned
  BY <1>1, <1>5, <1>6 DEF Abandoned, Cell
<1>9. Unreleased' = Unreleased
  BY <1>1, <1>4, <1>7 DEF Unreleased, Cell
<1> QED
  BY <1>8, <1>9 DEF NeglectKept

\* A pop claims a published position.
LEMMA NeglectAfterClaimDequeue ==
  ASSUME IInv, NEW t \in Poppers, ClaimDequeue(t)
  PROVE  NeglectKept
<1>0. t \in Threads /\ t \notin Producers
  BY Members
<1>1. /\ dequeue_pos' = dequeue_pos + 1 /\ UNCHANGED <<enqueue_pos, sequence, pos>>
      /\ pos[t] = dequeue_pos
      /\ pc' = [pc EXCEPT ![t] = "move_out"] /\ pc[t] = "p_cas"
      /\ enqueue_pos \in Nat /\ dequeue_pos \in Nat /\ Capacity \in Nat /\ Capacity >= 2
      /\ dequeue_pos <= enqueue_pos
  BY Positions DEF ClaimDequeue, Goto
<1>2. \A u \in Threads \ {t} : (Producing(u)' <=> Producing(u)) /\ (Consuming(u)' <=> Consuming(u))
  BY <1>1, Positions DEF Producing, Consuming
<1>3. Consuming(t)' /\ ~Consuming(t)
  BY <1>0, <1>1, Positions DEF Consuming
<1>4. \A p : HasPusher(p)' <=> HasPusher(p)
  BY <1>0, <1>1, <1>2, Members DEF HasPusher
<1>5. \A p : p # dequeue_pos => (HasPopper(p)' <=> HasPopper(p))
  BY <1>0, <1>1, <1>2, <1>3, Members DEF HasPopper
<1>6. \A p : p = dequeue_pos => HasPopper(p)'
  BY <1>1, <1>3 DEF HasPopper
<1>7. sequence[Cell(dequeue_pos)] # dequeue_pos
  BY <1>0, <1>1, DequeueGetsObject
<1>8. Abandoned' = Abandoned
  BY <1>1, <1>4, <1>7 DEF Abandoned, Cell
<1>9. Unreleased' = Unreleased
  BY <1>1, <1>5, <1>6 DEF Unreleased, Cell
<1> QED
  BY <1>8, <1>9 DEF NeglectKept

\* The other positions have other cells and other claimants.
LEMMA OthersAfterHandOver ==
  ASSUME IInv, NEW t \in Threads, Publish(t) \/ Release(t), NEW p \in Window, p # pos[t]
  PROVE  /\ HasPusher(p)' <=> HasPusher(p)
         /\ HasPopper(p)' <=> HasPopper(p)
         /\ sequence'[Cell(p)] = sequence[Cell(p)]
<1>0. Cell(pos[t]) \in Cells /\ Cell(p) \in Cells
  BY Positions, CellType DEF Window
<1>1. /\ \A u \in Threads \ {t} : pc'[u] = pc[u] /\ pos'[u] = pos[u]
      /\ Claiming(t) /\ pc'[t] = "idle"
      /\ \A j \in Cells \ {Cell(pos[t])} : sequence'[j] = sequence[j]
  BY <1>0, Positions DEF Publish, Release, Leave, Goto, Claiming, Producing, Consuming
<1>2. Cell(p) # Cell(pos[t])
  BY <1>1, ClaimInWindow
<1>3. ASSUME NEW u \in Threads
      PROVE  /\ Producing(u)' /\ pos'[u] = p <=> Producing(u) /\ pos[u] = p
             /\ Consuming(u)' /\ pos'[u] = p <=> Consuming(u) /\ pos[u] = p
  BY <1>1 DEF Producing, Consuming
<1> QED
  BY <1>0, <1>1, <1>2, <1>3, Members DEF HasPusher, HasPopper

\* The number that ends a claim is final for its position.
LEMMA NeglectAfterPublish ==
  ASSUME IInv, NEW t \in Producers, Publish(t)
  PROVE  NeglectKept
<1>0. /\ t \in Threads
      /\ enqueue_pos \in Nat /\ dequeue_pos \in Nat /\ pos[t] \in Nat /\ Cell(pos[t]) \in Cells
      /\ dequeue_pos <= enqueue_pos /\ enqueue_pos - Capacity <= dequeue_pos /\ Capacity \in Nat
  BY Members, Positions, CellType
<1>1. /\ UNCHANGED <<enqueue_pos, dequeue_pos>>
      /\ sequence'[Cell(pos[t])] = pos[t] + 1
      /\ Producing(t) /\ dequeue_pos <= pos[t]
  BY <1>0, Positions DEF Publish, Leave, Goto, Producing, IInv, ClaimInvariant
<1>2. ASSUME NEW p \in Window, p # pos[t]
      PROVE  /\ HasPusher(p)' <=> HasPusher(p)
             /\ HasPopper(p)' <=> HasPopper(p)
             /\ sequence'[Cell(p)] = sequence[Cell(p)]
  BY <1>0, <1>2, OthersAfterHandOver
<1>3. HasPusher(pos[t])
  BY <1>1 DEF HasPusher
<1>4. ASSUME NEW p \in dequeue_pos..(enqueue_pos - 1)
      PROVE  p \in Abandoned' <=> p \in Abandoned
  <2>1. p \in Window /\ p \in Int
    BY <1>0 DEF Window
  <2>2. CASE p = pos[t]
    BY <1>0, <1>1, <1>3, <2>2 DEF Abandoned, Cell
  <2>3. CASE p # pos[t]
    BY <1>1, <1>2, <2>1, <2>3 DEF Abandoned, Cell
  <2> QED
    BY <2>2, <2>3
<1>5. ASSUME NEW p \in (enqueue_pos - Capacity)..(dequeue_pos - 1)
      PROVE  p \in Unreleased' <=> p \in Unreleased
  <2>1. p \in Window /\ p # pos[t]
    BY <1>0, <1>1 DEF Window
  <2> QED
    BY <1>1, <1>2, <2>1 DEF Unreleased, Cell
<1>6. /\ Abandoned \subseteq dequeue_pos..(enqueue_pos - 1)
      /\ Abandoned' \subseteq dequeue_pos..(enqueue_pos - 1)
      /\ Unreleased \subseteq (enqueue_pos - Capacity)..(dequeue_pos - 1)
      /\ Unreleased' \subseteq (enqueue_pos - Capacity)..(dequeue_pos - 1)
  BY <1>1 DEF Abandoned, Unreleased
<1> QED
  BY <1>4, <1>5, <1>6 DEF NeglectKept

LEMMA NeglectAfterRelease ==
  ASSUME IInv, NEW t \in Poppers, Release(t)
  PROVE  NeglectKept
<1>0. /\ t \in Threads
      /\ enqueue_pos \in Nat /\ dequeue_pos \in Nat /\ pos[t] \in Nat /\ Cell(pos[t]) \in Cells
      /\ dequeue_pos <= enqueue_pos /\ enqueue_pos - Capacity <= dequeue_pos
      /\ Capacity \in Nat /\ Capacity >= 2
  BY Members, Positions, CellType
<1>1. /\ UNCHANGED <<enqueue_pos, dequeue_pos>>
      /\ sequence'[Cell(pos[t])] = pos[t] + Capacity
      /\ Consuming(t) /\ pos[t] < dequeue_pos
  BY <1>0, Positions DEF Release, Leave, Goto, Consuming, IInv, ClaimInvariant
<1>2. ASSUME NEW p \in Window, p # pos[t]
      PROVE  /\ HasPusher(p)' <=> HasPusher(p)
             /\ HasPopper(p)' <=> HasPopper(p)
             /\ sequence'[Cell(p)] = sequence[Cell(p)]
  BY <1>0, <1>2, OthersAfterHandOver
<1>3. HasPopper(pos[t])
  BY <1>1 DEF HasPopper
<1>4. ASSUME NEW p \in dequeue_pos..(enqueue_pos - 1)
      PROVE  p \in Abandoned' <=> p \in Abandoned
  <2>1. p \in Window /\ p # pos[t]
    BY <1>0, <1>1 DEF Window
  <2> QED
    BY <1>1, <1>2, <2>1 DEF Abandoned, Cell
<1>5. ASSUME NEW p \in (enqueue_pos - Capacity)..(dequeue_pos - 1)
      PROVE  p \in Unreleased' <=> p \in Unreleased
  <2>1. p \in Window /\ p \in Int
    BY <1>0 DEF Window
  <2>2. CASE p = pos[t]
    BY <1>0, <1>1, <1>3, <2>2 DEF Unreleased, Cell
  <2>3. CASE p # pos[t]
    BY <1>1, <1>2, <2>1, <2>3 DEF Unreleased, Cell
  <2> QED
    BY <2>2, <2>3
<1>6. /\ Abandoned \subseteq dequeue_pos..(enqueue_pos - 1)
      /\ Abandoned' \subseteq dequeue_pos..(enqueue_pos - 1)
      /\ Unreleased \subseteq (enqueue_pos - Capacity)..(dequeue_pos - 1)
      /\ Unreleased' \subseteq (enqueue_pos - Capacity)..(dequeue_pos - 1)
  BY <1>1 DEF Abandoned, Unreleased
<1> QED
  BY <1>4, <1>5, <1>6 DEF NeglectKept

\* All steps of emplace that throw nothing, and all such steps of try_pop.
LEMMA QuietPushes ==
  ASSUME IInv, NEW t \in Producers, Emplace(t), ~ConstructThrows(t)
  PROVE  NeglectKept
<1>0. t \in Threads
  BY Members
<1>1. CASE ClaimEnqueue(t)
  BY <1>1, NeglectAfterClaimEnqueue
<1>2. CASE Publish(t)
  BY <1>2, NeglectAfterPublish
<1>3. CASE Construct(t)
  BY <1>0, <1>3, Positions, NeglectUntouched
  DEF Construct, Goto, Claiming, Producing, Consuming
<1>4. CASE \/ \E v \in Values : BeginEmplace(t, v)
           \/ LoadEnqueuePos(t) \/ EmplaceSeesFree(t) \/ EmplaceSeesFull(t)
           \/ EmplaceSeesTaken(t) \/ RetryEnqueue(t)
  BY <1>0, <1>4, Positions, NeglectUntouched
  DEF BeginEmplace, LoadEnqueuePos, EmplaceSeesFree, EmplaceSeesFull, EmplaceSeesTaken,
      RetryEnqueue, shared, Goto, Leave, Claiming, Producing, Consuming
<1> QED
  BY <1>1, <1>2, <1>3, <1>4 DEF Emplace

LEMMA QuietPops ==
  ASSUME IInv, NEW t \in Poppers, TryPop(t), ~MoveOutThrows(t)
  PROVE  NeglectKept
<1>0. t \in Threads
  BY Members
<1>1. CASE ClaimDequeue(t)
  BY <1>1, NeglectAfterClaimDequeue
<1>2. CASE Release(t)
  BY <1>2, NeglectAfterRelease
<1>3. CASE MoveOut(t)
  BY <1>0, <1>3, Positions, NeglectUntouched
  DEF MoveOut, Goto, Claiming, Producing, Consuming
<1>4. CASE \/ BeginTryPop(t) \/ LoadDequeuePos(t) \/ TryPopSeesItem(t)
           \/ TryPopSeesEmpty(t) \/ TryPopSeesTaken(t) \/ RetryDequeue(t)
  BY <1>0, <1>4, Positions, NeglectUntouched
  DEF BeginTryPop, LoadDequeuePos, TryPopSeesItem, TryPopSeesEmpty, TryPopSeesTaken,
      RetryDequeue, shared, Goto, Leave, Claiming, Producing, Consuming
<1> QED
  BY <1>1, <1>2, <1>3, <1>4 DEF TryPop

\* The thrown calls, one position each.
LEMMA ConstructThrowsNeglects ==
  ASSUME IInv, NEW t \in Producers, ConstructThrows(t)
  PROVE  Abandoned' = Abandoned \cup {pos[t]} /\ Unreleased' = Unreleased
<1>0. t \in Threads /\ t \notin Poppers
  BY Members
<1>1. /\ UNCHANGED <<enqueue_pos, dequeue_pos, sequence>>
      /\ \A u \in Threads \ {t} : pc'[u] = pc[u] /\ pos'[u] = pos[u]
      /\ Producing(t) /\ ~Producing(t)'
  BY <1>0, Positions DEF ConstructThrows, Leave, Goto, Producing, shared
<1>2. /\ sequence[Cell(pos[t])] = pos[t]
      /\ pos[t] \in dequeue_pos..(enqueue_pos - 1)
  BY <1>0, <1>1, Positions DEF IInv, ClaimInvariant
<1>3. \A u \in Producers \ {t} : Producing(u) => pos[u] # pos[t]
  BY <1>0, <1>1, Members DEF IInv, ClaimInvariant, Claiming
<1>4. ASSUME NEW u \in Threads \ {t}
      PROVE  (Producing(u)' <=> Producing(u)) /\ (Consuming(u)' <=> Consuming(u))
  BY <1>1 DEF Producing, Consuming
<1>5. \A p : HasPopper(p)' <=> HasPopper(p)
  BY <1>0, <1>1, <1>4, Members DEF HasPopper
<1>6. \A p : HasPusher(p)' <=> HasPusher(p) /\ p # pos[t]
  BY <1>0, <1>1, <1>3, <1>4, Members DEF HasPusher
<1>7. Abandoned' = Abandoned \cup {pos[t]}
  BY <1>1, <1>2, <1>6 DEF Abandoned, Cell
<1>8. Unreleased' = Unreleased
  BY <1>1, <1>5 DEF Unreleased, Cell
<1> QED
  BY <1>7, <1>8

LEMMA MoveOutThrowsNeglects ==
  ASSUME IInv, NEW t \in Poppers, MoveOutThrows(t)
  PROVE  Abandoned' = Abandoned /\ Unreleased' = Unreleased \cup {pos[t]}
<1>0. t \in Threads /\ t \notin Producers
  BY Members
<1>1. /\ UNCHANGED <<enqueue_pos, dequeue_pos, sequence>>
      /\ \A u \in Threads \ {t} : pc'[u] = pc[u] /\ pos'[u] = pos[u]
      /\ Consuming(t) /\ ~Consuming(t)'
  BY <1>0, Positions DEF MoveOutThrows, Leave, Goto, Consuming, shared
<1>2. /\ sequence[Cell(pos[t])] = pos[t] + 1
      /\ pos[t] \in (enqueue_pos - Capacity)..(dequeue_pos - 1)
  BY <1>0, <1>1, Positions DEF IInv, ClaimInvariant
<1>3. \A u \in Poppers \ {t} : Consuming(u) => pos[u] # pos[t]
  BY <1>0, <1>1, Members DEF IInv, ClaimInvariant, Claiming
<1>4. ASSUME NEW u \in Threads \ {t}
      PROVE  (Producing(u)' <=> Producing(u)) /\ (Consuming(u)' <=> Consuming(u))
  BY <1>1 DEF Producing, Consuming
<1>5. \A p : HasPusher(p)' <=> HasPusher(p)
  BY <1>0, <1>1, <1>4, Members DEF HasPusher
<1>6. \A p : HasPopper(p)' <=> HasPopper(p) /\ p # pos[t]
  BY <1>0, <1>1, <1>3, <1>4, Members DEF HasPopper
<1>7. Unreleased' = Unreleased \cup {pos[t]}
  BY <1>1, <1>2, <1>6 DEF Unreleased, Cell
<1>8. Abandoned' = Abandoned
  BY <1>1, <1>5 DEF Abandoned, Cell
<1> QED
  BY <1>7, <1>8

\* No step is two throws, and what is no throw is not one for anybody else either.
LEMMA ThrowsAlone ==
  ASSUME IInv, NEW t \in Threads, \A u \in Threads \ {t} : pc'[u] = pc[u]
  PROVE  /\ \A u \in Producers : ConstructThrows(u) => u = t
         /\ \A u \in Consumers : MoveOutThrows(u) => u = t
BY Members, Positions DEF ConstructThrows, MoveOutThrows, Leave, Goto, Poppers

LEMMA NeglectStep ==
  ASSUME IInv, [Next]_vars
  PROVE  /\ Abandoned' = Abandoned \cup {pos[t] : t \in {u \in Producers : ConstructThrows(u)}}
         /\ Unreleased' = Unreleased \cup {pos[t] : t \in {u \in Consumers : MoveOutThrows(u)}}
<1> DEFINE P == {u \in Producers : ConstructThrows(u)}
           C == {u \in Consumers : MoveOutThrows(u)}
<1>1. ASSUME NEW t \in Producers, Emplace(t)
      PROVE  /\ Abandoned' = Abandoned \cup {pos[u] : u \in P}
             /\ Unreleased' = Unreleased \cup {pos[u] : u \in C}
  <2>1. t \in Threads /\ t \notin Consumers
    BY Members DEF Poppers
  <2>2. \A u \in Threads \ {t} : pc'[u] = pc[u]
    BY <1>1, Positions DEF Emplace, BeginEmplace, LoadEnqueuePos, EmplaceSeesFree, EmplaceSeesFull,
       EmplaceSeesTaken, ClaimEnqueue, RetryEnqueue, Construct, ConstructThrows, Publish, Goto, Leave
  <2>3. P \subseteq {t} /\ C = {}
    BY <2>1, <2>2, ThrowsAlone
  <2>4. CASE ConstructThrows(t)
    <3>1. P = {t}
      BY <2>3, <2>4
    <3>2. {pos[u] : u \in P} = {pos[t]} /\ {pos[u] : u \in C} = {}
      BY <2>3, <3>1
    <3> QED
      BY <2>4, <3>2, ConstructThrowsNeglects
  <2>5. CASE ~ConstructThrows(t)
    <3>1. P = {}
      BY <2>3, <2>5
    <3> QED
      BY <1>1, <2>3, <2>5, <3>1, QuietPushes DEF NeglectKept
  <2> QED
    BY <2>4, <2>5
<1>2. ASSUME NEW t \in Poppers, TryPop(t)
      PROVE  /\ Abandoned' = Abandoned \cup {pos[u] : u \in P}
             /\ Unreleased' = Unreleased \cup {pos[u] : u \in C}
  <2>1. t \in Threads /\ t \notin Producers
    BY Members
  <2>2. \A u \in Threads \ {t} : pc'[u] = pc[u]
    BY <1>2, Positions DEF TryPop, BeginTryPop, LoadDequeuePos, TryPopSeesItem, TryPopSeesEmpty,
       TryPopSeesTaken, ClaimDequeue, RetryDequeue, MoveOut, MoveOutThrows, Release, Goto, Leave
  <2>3. P = {} /\ C \subseteq {t}
    BY <2>1, <2>2, ThrowsAlone
  <2>4. CASE MoveOutThrows(t)
    <3>1. C = {t}
      BY <2>3, <2>4 DEF MoveOutThrows, Poppers
    <3>2. {pos[u] : u \in C} = {pos[t]} /\ {pos[u] : u \in P} = {}
      BY <2>3, <3>1
    <3> QED
      BY <2>4, <3>2, MoveOutThrowsNeglects
  <2>5. CASE ~MoveOutThrows(t)
    <3>1. C = {}
      BY <2>3, <2>5
    <3> QED
      BY <1>2, <2>3, <2>5, <3>1, QuietPops DEF NeglectKept
  <2> QED
    BY <2>4, <2>5
<1>3. CASE Close \/ BeginDestructor \/ UNCHANGED vars
  <2>1. UNCHANGED <<enqueue_pos, dequeue_pos, sequence, pc, pos>>
    BY <1>3 DEF Close, BeginDestructor, vars, shared
  <2>2. P = {} /\ C = {}
    BY <2>1, Members, Positions DEF ConstructThrows, MoveOutThrows, Leave, Goto, Poppers
  <2>3. NeglectKept
    BY <2>1 DEF NeglectKept, Abandoned, Unreleased, HasPusher, HasPopper, Producing, Consuming, Cell
  <2> QED
    BY <2>2, <2>3 DEF NeglectKept
<1> QED
  BY <1>1, <1>2, <1>3 DEF Next

\* Only a call that throws leaves a position neglected, whatever overlaps with it
\* and however old the values it has loaded; and no later call makes up for it.
THEOREM NeglectIsThrown == Spec => OnlyThrowsNeglect
<1>1. IInv /\ [Next]_vars =>
        [/\ Abandoned' = Abandoned \cup {pos[t] : t \in {u \in Producers : ConstructThrows(u)}}
         /\ Unreleased' = Unreleased \cup {pos[t] : t \in {u \in Consumers : MoveOutThrows(u)}}]_vars
  BY NeglectStep
<1> QED
  BY <1>1, InductiveInvariant, PTL DEF Spec, OnlyThrowsNeglect

\* Nothing is neglected to begin with: the numbers are those of a lap before.
LEMMA InitNeglectsNothing ==
  ASSUME Init
  PROVE  Abandoned = {} /\ Unreleased = {}
<1>1. enqueue_pos = 0 /\ dequeue_pos = 0 /\ sequence = [i \in Cells |-> i]
  BY DEF Init
<1>2. dequeue_pos..(enqueue_pos - 1) = {}
  BY <1>1
<1>3. ASSUME NEW p \in (enqueue_pos - Capacity)..(dequeue_pos - 1)
      PROVE  sequence[Cell(p)] # p + 1
  <2>1. p \in Int /\ p + Capacity \in 0..(Capacity - 1)
    BY <1>1, CapacityAssumption
  <2>2. Cell(p + Capacity) = p + Capacity /\ p + Capacity \in Cells
    BY <2>1, CapacityAssumption DEF Cell, Cells
  <2>3. sequence[Cell(p)] = p + Capacity
    BY <1>1, <2>1, <2>2, CellLap
  <2> QED
    BY <2>1, <2>3, CapacityAssumption
<1> QED
  BY <1>2, <1>3 DEF Abandoned, Unreleased

\* Nothing thrown, nothing neglected.
Tended == Abandoned = {} /\ Unreleased = {}

LEMMA InitIsTended == Init => Tended
BY InitNeglectsNothing DEF Tended

LEMMA TendedStep ==
  ASSUME ~MayThrow, IInv, Tended, [Next]_vars
  PROVE  Tended'
<1>1. {u \in Producers : ConstructThrows(u)} = {} /\ {u \in Consumers : MoveOutThrows(u)} = {}
  BY DEF ConstructThrows, MoveOutThrows
<1> QED
  BY <1>1, NeglectStep DEF Tended

LEMMA TendedInvariant ==
  ASSUME ~MayThrow
  PROVE  Spec => []Tended
<1>1. IInv /\ Tended /\ [Next]_vars => Tended'
  BY TendedStep
<1> QED
  BY <1>1, InitIsTended, InductiveInvariant, PTL DEF Spec

-----------------------------------------------------------------------------
(***************************************************************************)
(* The refinement of BoundedFifo.                                          *)
(*                                                                         *)
(* A push takes effect when it claims its position and a pop likewise, so  *)
(* the content is read off the claimed positions: some of the values are   *)
(* still with their pushers, and an abandoned position is a hole.  A       *)
(* refusal needs an excuse in the abstract queue: IInv says what a         *)
(* sequence number can be, and one that is not final is some thread's to   *)
(* write, or neglected.                                                    *)
(***************************************************************************)

\* The values of the positions as a function, and as a function after a step.
ValueOf == [p \in Int |-> ValueAt(p)]

LEMMA ValueOfIs ==
  ASSUME NEW p \in Int
  PROVE  ValueOf[p] = ValueAt(p) /\ ValueOf'[p] = ValueAt(p)'
BY DEF ValueOf

\* The value of a claimed position is in its cell, or with the one thread that is
\* about to construct it there, or it is none.
LEMMA ValueIsStored ==
  ASSUME NEW p \in Int, p \notin Abandoned, storage[Cell(p)] # Empty
  PROVE  ValueOf[p] = storage[Cell(p)]
BY ValueOfIs DEF ValueAt

LEMMA ValueIsHeld ==
  ASSUME IInv, NEW t \in Producers, pc[t] = "construct"
  PROVE  ValueOf[pos[t]] = held[t]
<1>0. pos[t] \in Int
  BY Members, Positions
<1>1. storage[Cell(pos[t])] = Empty
  BY Members DEF IInv, ClaimInvariant, Producing
<1>2. \A u \in Producers : pc[u] = "construct" /\ pos[u] = pos[t] => u = t
  BY Members DEF IInv, ClaimInvariant, Claiming, Producing
<1>3. (CHOOSE u \in Producers : pc[u] = "construct" /\ pos[u] = pos[t]) = t
  BY <1>2
<1>4. pos[t] \notin Abandoned
  BY DEF Abandoned, HasPusher, Producing
<1> QED
  BY <1>0, <1>1, <1>3, <1>4, ValueOfIs DEF ValueAt

\* One of the first two is the case, unless the position is abandoned.
LEMMA ValueIsSomewhere ==
  ASSUME IInv, NEW p \in dequeue_pos..(enqueue_pos - 1), p \notin Abandoned
  PROVE  \/ storage[Cell(p)] # Empty
         \/ \E t \in Producers : pc[t] = "construct" /\ pos[t] = p
<1>1. p \in Window
  BY Positions DEF Window
<1>2. sequence[Cell(p)] = p \/ (sequence[Cell(p)] = p + 1 /\ storage[Cell(p)] # Empty)
  BY <1>1, Positions DEF IInv, CellInvariant, Window
<1>3. CASE sequence[Cell(p)] = p
  <2>1. PICK t \in Producers : Producing(t) /\ pos[t] = p
    BY <1>3 DEF Abandoned, HasPusher
  <2>2. storage[Cell(p)] = Empty <=> pc[t] = "construct"
    BY <2>1, Members DEF IInv, ClaimInvariant
  <2> QED
    BY <2>1, <2>2
<1> QED
  BY <1>2, <1>3

\* A step keeps the value of a position if it keeps its cell, or its constructor,
\* and does not abandon it.
LEMMA ValueKept ==
  ASSUME IInv, IInv', NEW p \in dequeue_pos..(enqueue_pos - 1),
         p \in Abandoned' <=> p \in Abandoned,
         storage[Cell(p)] # Empty => storage'[Cell(p)] = storage[Cell(p)],
         \A t \in Producers : pc[t] = "construct" /\ pos[t] = p =>
           \/ pc'[t] = "construct" /\ pos'[t] = p /\ held'[t] = held[t]
           \/ storage'[Cell(p)] = held[t] /\ held[t] # Empty
  PROVE  ValueOf'[p] = ValueOf[p]
<1>0. p \in Int
  BY Positions
<1>0a. CASE p \in Abandoned
  BY <1>0, <1>0a, ValueOfIs DEF ValueAt
<1>1. CASE p \notin Abandoned /\ storage[Cell(p)] # Empty
  BY <1>0, <1>1, ValueOfIs DEF ValueAt, Cell
<1>2. CASE p \notin Abandoned /\ storage[Cell(p)] = Empty
  <2>1. PICK t \in Producers : pc[t] = "construct" /\ pos[t] = p
    BY <1>2, ValueIsSomewhere
  <2>2. ValueOf[p] = held[t]
    BY <2>1, ValueIsHeld
  <2>3. CASE pc'[t] = "construct" /\ pos'[t] = p /\ held'[t] = held[t]
    <3>1. storage'[Cell(p)] = Empty
      BY <2>3, Members DEF IInv, ClaimInvariant, Producing, Cell
    <3>2. \A u \in Producers : pc'[u] = "construct" /\ pos'[u] = p => u = t
      BY <2>3, Members DEF IInv, ClaimInvariant, Claiming, Producing
    <3>3. (CHOOSE u \in Producers : pc'[u] = "construct" /\ pos'[u] = p) = t
      BY <2>3, <3>2
    <3>4. ValueOf'[p] = held'[t]
      BY <1>0, <1>2, <3>1, <3>3, ValueOfIs DEF ValueAt, Cell
    <3> QED
      BY <2>2, <2>3, <3>4
  <2>4. CASE storage'[Cell(p)] = held[t] /\ held[t] # Empty
    BY <1>0, <1>2, <2>2, <2>4, ValueOfIs DEF ValueAt, Cell
  <2> QED
    BY <2>1, <2>3, <2>4
<1> QED
  BY <1>0a, <1>1, <1>2

\* A claimed value is a value, an abandoned one a hole.
LEMMA ValueIsValue ==
  ASSUME RInv, NEW p \in dequeue_pos..(enqueue_pos - 1)
  PROVE  IF p \in Abandoned THEN ValueOf[p] = Empty ELSE ValueOf[p] \in Values
<1>0. p \in Int /\ Cell(p) \in Cells
  BY Positions, CellType DEF RInv
<1>0a. CASE p \in Abandoned
  BY <1>0, <1>0a, ValueOfIs DEF ValueAt
<1>1. CASE p \notin Abandoned /\ storage[Cell(p)] # Empty
  BY <1>0, <1>1, ValueIsStored, Positions DEF Objects, RInv
<1>2. CASE p \notin Abandoned /\ storage[Cell(p)] = Empty
  <2>1. PICK t \in Producers : pc[t] = "construct" /\ pos[t] = p
    BY <1>2, ValueIsSomewhere DEF RInv
  <2> QED
    BY <1>2, <2>1, ValueIsHeld DEF RInv, Roles
<1> QED
  BY <1>0a, <1>1, <1>2

LEMMA ContentIs ==
  ASSUME RInv
  PROVE  /\ Content \in Seq(Objects)
         /\ Len(Content) = enqueue_pos - dequeue_pos
         /\ \A i \in 1..(enqueue_pos - dequeue_pos) : Content[i] = ValueOf[dequeue_pos + i - 1]
<1> DEFINE n == enqueue_pos - dequeue_pos
<1>1. n \in Nat /\ IInv
  BY Positions DEF RInv
<1>2. ASSUME NEW i \in 1..n
      PROVE  ValueOf[dequeue_pos + i - 1] \in Objects
  <2>1. dequeue_pos + i - 1 \in dequeue_pos..(enqueue_pos - 1)
    BY <1>1, Positions
  <2> QED
    BY <2>1, ValueIsValue DEF Objects
<1>3. Content = [i \in 1..n |-> ValueOf[dequeue_pos + i - 1]]
  BY <1>1, Positions, ValueOfIs DEF Content
<1>4. Content \in [1..n -> Objects]
  BY <1>2, <1>3
<1>5. Content \in Seq(Objects)
  BY <1>1, <1>4, SeqDef
<1>6. DOMAIN Content = 1..n /\ DOMAIN Content = 1..Len(Content) /\ Len(Content) \in Nat
  BY <1>4, <1>5, LenProperties
<1>7. Len(Content) = n
  BY <1>1, <1>6
<1> QED
  BY <1>3, <1>5, <1>7

\* Without holes it is one of values.
LEMMA ContentOfValues ==
  ASSUME RInv, Abandoned = {}
  PROVE  Content \in Seq(Values)
<1> DEFINE n == enqueue_pos - dequeue_pos
<1>1. /\ Content \in Seq(Objects) /\ Len(Content) = n /\ n \in Nat /\ IInv
      /\ \A i \in 1..n : Content[i] = ValueOf[dequeue_pos + i - 1]
  BY ContentIs, Positions DEF RInv
<1>2. ASSUME NEW i \in 1..n
      PROVE  Content[i] \in Values
  <2>1. dequeue_pos + i - 1 \in dequeue_pos..(enqueue_pos - 1)
    BY <1>1, Positions
  <2> QED
    BY <1>1, <2>1, ValueIsValue
<1> HIDE DEF Content
<1>3. Content \in [1..n -> Objects]
  BY <1>1, LenProperties
<1>4. Content \in [1..n -> Values]
  BY <1>2, <1>3
<1> QED
  BY <1>1, <1>4, SeqDef

LEMMA ContentKept ==
  ASSUME RInv, UNCHANGED <<enqueue_pos, dequeue_pos>>,
         \A p \in dequeue_pos..(enqueue_pos - 1) : ValueOf'[p] = ValueOf[p]
  PROVE  Content' = Content
<1>1. ASSUME NEW i \in 1..(enqueue_pos - dequeue_pos)
      PROVE  ValueOf'[dequeue_pos + i - 1] = ValueOf[dequeue_pos + i - 1]
  <2>1. dequeue_pos + i - 1 \in dequeue_pos..(enqueue_pos - 1)
    BY Positions DEF RInv
  <2> QED
    BY <2>1
<1>2. \A i \in 1..(enqueue_pos - dequeue_pos) : dequeue_pos + i - 1 \in Int
  BY Positions DEF RInv
<1> QED
  BY <1>1, <1>2, ValueOfIs DEF Content

\* The same of the content after a step.
ContentShape ==
  /\ Content \in Seq(Objects)
  /\ Len(Content) = enqueue_pos - dequeue_pos
  /\ \A i \in 1..(enqueue_pos - dequeue_pos) : Content[i] = ValueOf[dequeue_pos + i - 1]

PushersHold == \A t \in Producers : pc[t] = "construct" => ValueOf[pos[t]] = held[t]

LEMMA ContentIsNext == RInv' => ContentShape' /\ PushersHold'
<1>1. RInv => ContentShape /\ PushersHold
  BY ContentIs, ValueIsHeld DEF ContentShape, PushersHold, RInv
<1> QED
  BY <1>1, PTL

\* The push that claims a position brings its value there.
LEMMA ContentAfterClaimEnqueue ==
  ASSUME RInv, RInv', NEW t \in Producers, ClaimEnqueue(t)
  PROVE  Len(Content) < Capacity /\ Content' = Append(Content, held[t])
<1> DEFINE n == enqueue_pos - dequeue_pos
           s == Append(Content, held[t])
<1>0. /\ IInv /\ IInv' /\ t \in Threads
      /\ enqueue_pos \in Nat /\ dequeue_pos \in Nat /\ n \in Nat /\ Capacity \in Nat
      /\ Abandoned' = Abandoned
  BY Members, Positions, NeglectAfterClaimEnqueue DEF RInv, NeglectKept
<1>1. /\ enqueue_pos' = enqueue_pos + 1 /\ UNCHANGED <<dequeue_pos, storage, pos, held>>
      /\ pos[t] = enqueue_pos /\ pc[t] = "e_cas" /\ pc'[t] = "construct"
      /\ \A u \in Threads \ {t} : pc'[u] = pc[u]
      /\ held[t] \in Values
  BY <1>0, Positions DEF ClaimEnqueue, Goto, RInv, Roles
<1>2. n < Capacity
  BY <1>0, EnqueueGetsRawCell
<1>3. \A p \in dequeue_pos..(enqueue_pos - 1) : ValueOf'[p] = ValueOf[p]
  BY <1>0, <1>1, Members, ValueKept
<1>4. ValueOf'[enqueue_pos] = held[t]
  <2>1. ValueOf'[pos[t]] = held'[t]
    BY <1>1, ContentIsNext DEF PushersHold
  <2> QED
    BY <1>1, <2>1
<1>5. /\ Content \in Seq(Objects) /\ Len(Content) = n
      /\ \A i \in 1..n : Content[i] = ValueOf[dequeue_pos + i - 1]
  BY ContentIs
<1>6. /\ Content' \in Seq(Objects) /\ Len(Content') = n + 1
      /\ \A i \in 1..(n + 1) : Content'[i] = ValueOf'[dequeue_pos + i - 1]
  <2>1. enqueue_pos' - dequeue_pos' = n + 1
    BY <1>0, <1>1
  <2> QED
    BY <1>1, <2>1, ContentIsNext DEF ContentShape
<1>7. /\ s \in Seq(Objects) /\ Len(s) = n + 1 /\ s[n + 1] = held[t]
      /\ \A i \in 1..n : s[i] = Content[i]
  <2>1. held[t] \in Objects
    BY <1>1 DEF Objects
  <2> QED
    BY <1>0, <1>5, <2>1
<1>8. ASSUME NEW i \in 1..(n + 1)
      PROVE  Content'[i] = s[i]
  <2>1. CASE i = n + 1
    <3>1. dequeue_pos + i - 1 = enqueue_pos
      BY <1>0, <2>1
    <3> QED
      BY <1>0, <1>4, <1>6, <1>7, <2>1, <3>1
  <2>2. CASE i # n + 1
    <3>1. i \in 1..n /\ dequeue_pos + i - 1 \in dequeue_pos..(enqueue_pos - 1)
      BY <1>0, <2>2
    <3> QED
      BY <1>3, <1>5, <1>6, <1>7, <3>1
  <2> QED
    BY <2>1, <2>2
<1>9. Content' = s
  BY <1>6, <1>7, <1>8, SeqEqual
<1> QED
  BY <1>2, <1>5, <1>9

\* The pop that claims a position gets the oldest object, which is in its cell.
LEMMA ContentAfterClaimDequeue ==
  ASSUME RInv, RInv', NEW t \in Poppers, ClaimDequeue(t)
  PROVE  /\ Content # <<>> /\ Content' = Tail(Content)
         /\ Head(Content) = storage[Cell(pos[t])] /\ Head(Content) # Empty
<1> DEFINE n == enqueue_pos - dequeue_pos
<1>0. /\ IInv /\ IInv' /\ t \in Threads /\ t \notin Producers
      /\ enqueue_pos \in Nat /\ dequeue_pos \in Nat /\ n \in Nat
      /\ Abandoned' = Abandoned
  BY Members, Positions, NeglectAfterClaimDequeue DEF RInv, NeglectKept
<1>1. /\ dequeue_pos' = dequeue_pos + 1 /\ UNCHANGED <<enqueue_pos, storage, pos, held>>
      /\ pos[t] = dequeue_pos
      /\ \A u \in Threads \ {t} : pc'[u] = pc[u]
  BY <1>0, Positions DEF ClaimDequeue, Goto
<1>2. n >= 1 /\ storage[Cell(dequeue_pos)] # Empty /\ dequeue_pos \notin Abandoned
  BY <1>0, DequeueGetsObject DEF Window, Abandoned
<1>3. \A p \in dequeue_pos..(enqueue_pos - 1) : ValueOf'[p] = ValueOf[p]
  BY <1>0, <1>1, Members, ValueKept
<1>4. /\ Content \in Seq(Objects) /\ Len(Content) = n
      /\ \A i \in 1..n : Content[i] = ValueOf[dequeue_pos + i - 1]
  BY ContentIs
<1>5. /\ Content' \in Seq(Objects) /\ Len(Content') = n - 1
      /\ \A i \in 1..(n - 1) : Content'[i] = ValueOf'[dequeue_pos + i]
  <2>1. enqueue_pos' - dequeue_pos' = n - 1
    BY <1>0, <1>1
  <2>2. \A i \in 1..(n - 1) : dequeue_pos' + i - 1 = dequeue_pos + i
    BY <1>0, <1>1
  <2>3. \A i \in 1..(n - 1) : Content'[i] = ValueOf'[dequeue_pos' + i - 1]
    BY <2>1, ContentIsNext DEF ContentShape
  <2> QED
    BY <2>1, <2>2, <2>3, ContentIsNext DEF ContentShape
<1>6. Content # <<>>
  BY <1>2, <1>4, EmptySeq
<1>7. /\ Tail(Content) \in Seq(Objects) /\ Len(Tail(Content)) = n - 1
      /\ \A i \in 1..(n - 1) : Tail(Content)[i] = Content[i + 1]
  BY <1>4, <1>6, HeadTailProperties
<1>8. ASSUME NEW i \in 1..(n - 1)
      PROVE  Content'[i] = Tail(Content)[i]
  <2>1. /\ i + 1 \in 1..n /\ dequeue_pos + i \in dequeue_pos..(enqueue_pos - 1)
        /\ dequeue_pos + (i + 1) - 1 = dequeue_pos + i
    BY <1>0
  <2> QED
    BY <1>3, <1>4, <1>5, <1>7, <2>1
<1>9. Content' = Tail(Content)
  BY <1>5, <1>7, <1>8, SeqEqual
<1>10. Head(Content) = storage[Cell(dequeue_pos)]
  <2>1. Content[1] = ValueOf[dequeue_pos]
    BY <1>0, <1>2, <1>4
  <2> QED
    BY <1>0, <1>2, <1>4, <1>6, <2>1, ValueIsStored
<1> QED
  BY <1>1, <1>2, <1>6, <1>9, <1>10

LEMMA Distributes ==
  ASSUME NEW n \in Int, NEW i \in Int, NEW j \in Int, NEW l \in Int
  PROVE  n * (i - j + l) = n * i - n * j + n * l
OBVIOUS

\* Every position shares its cell with one of the window.
LEMMA CellInWindow ==
  ASSUME enqueue_pos \in Nat, NEW x \in Nat
  PROVE  \E p \in Window : Cell(p) = Cell(x)
<1> DEFINE first == enqueue_pos - Capacity
           r == (x - first) % Capacity
           k == (x - first) \div Capacity
           p == first + r
           m == (p \div Capacity) - (x \div Capacity) + k
<1>0. Capacity \in Nat /\ Capacity >= 2 /\ first \in Int /\ x - first \in Int
  BY CapacityAssumption
<1>1. k \in Int /\ r \in 0..(Capacity - 1) /\ x - first = Capacity * k + r
  BY <1>0, Division
<1>2. p \in Window /\ p \in Int
  BY <1>0, <1>1 DEF Window
<1>3. /\ p \div Capacity \in Int /\ Cell(p) \in 0..(Capacity - 1)
      /\ p = Capacity * (p \div Capacity) + Cell(p)
  BY <1>0, <1>2, Division DEF Cell
<1>4. /\ x \div Capacity \in Int /\ Cell(x) \in 0..(Capacity - 1)
      /\ x = Capacity * (x \div Capacity) + Cell(x)
  BY <1>0, Division DEF Cell
<1> HIDE DEF p
<1>5. m \in Int
  BY <1>1, <1>3, <1>4
<1>6. x - p = Capacity * k
  BY <1>0, <1>1 DEF p
<1>7. Capacity * m = Capacity * (p \div Capacity) - Capacity * (x \div Capacity) + Capacity * k
  <2> DEFINE i == p \div Capacity
             j == x \div Capacity
  <2>1. Capacity \in Int /\ i \in Int /\ j \in Int /\ k \in Int
    BY <1>0, <1>1, <1>3, <1>4
  <2>2. m = i - j + k
    OBVIOUS
  <2> HIDE DEF i, j, k, m
  <2>3. Capacity * (i - j + k) = Capacity * i - Capacity * j + Capacity * k
    BY <2>1, Distributes
  <2>4. Capacity * m = Capacity * i - Capacity * j + Capacity * k
    BY <2>2, <2>3
  <2> QED
    BY <2>4 DEF i, j
<1>8. Capacity * m = Cell(x) - Cell(p)
  <2> DEFINE a == Capacity * (p \div Capacity)
             b == Capacity * (x \div Capacity)
             c == Capacity * k
  <2>1. a \in Int /\ b \in Int /\ c \in Int
    BY <1>0, <1>1, <1>3, <1>4
  <2>2. p = a + Cell(p) /\ x = b + Cell(x) /\ x - p = c /\ Capacity * m = a - b + c
    BY <1>3, <1>4, <1>6, <1>7
  <2>3. Cell(p) \in Int /\ Cell(x) \in Int
    BY <1>0, <1>3, <1>4
  <2> HIDE DEF a, b, c, m
  <2> QED
    BY <1>2, <2>1, <2>2, <2>3
<1>9. m = 0
  BY <1>0, <1>3, <1>4, <1>5, <1>8, CloseMultiples
<1> QED
  BY <1>0, <1>2, <1>3, <1>4, <1>8, <1>9

-----------------------------------------------------------------------------
(* The calls.                                                              *)

\* What the step of a producer does to the calls, seen from outside.
LEMMA PusherMoves ==
  ASSUME NEW t \in Producers,
         \A u \in Threads \ {t} : pc'[u] = pc[u] /\ pos'[u] = pos[u] /\ held'[u] = held[u],
         \A c \in Poppers : pc[c] = "move_out" => storage'[Cell(pos[c])] = storage[Cell(pos[c])]
  PROVE  /\ Asked' = [Asked EXCEPT ![t] = IF pc'[t] \in {"e_pos", "e_seq", "e_cas"}
                                            THEN held'[t] ELSE Empty]
         /\ Settling' = [Settling EXCEPT ![t] = IF pc'[t] \in {"construct", "publish"}
                                                  THEN held'[t] ELSE Empty]
         /\ Wanting' = Wanting /\ Got' = Got
<1>1. /\ t \in Threads /\ \A u \in Producers \ {t} : u \in Threads \ {t}
      /\ \A c \in Poppers : c \in Threads \ {t}
  BY Members
<1>2. Wanting' = Wanting /\ Got' = Got
  BY <1>1 DEF Wanting, Got, Cell
<1> QED
  BY <1>1, <1>2 DEF Asked, Settling, Producing

\* The same of a step of a thread that pops.
LEMMA PopperMoves ==
  ASSUME NEW t \in Poppers,
         \A u \in Threads \ {t} : pc'[u] = pc[u] /\ pos'[u] = pos[u] /\ held'[u] = held[u],
         \A c \in Poppers \ {t} :
           pc[c] = "move_out" => storage'[Cell(pos[c])] = storage[Cell(pos[c])]
  PROVE  /\ Got' = [Got EXCEPT ![t] = IF pc'[t] = "move_out" THEN storage'[Cell(pos'[t])]
                                                             ELSE held'[t]]
         /\ Wanting' = IF pc'[t] \in {"p_pos", "p_seq", "p_cas"} THEN Wanting \cup {t}
                                                                 ELSE Wanting \ {t}
         /\ Asked' = Asked /\ Settling' = Settling
<1>1. /\ t \in Threads /\ \A u \in Poppers \ {t} : u \in Threads \ {t}
      /\ \A p \in Producers : p \in Threads \ {t}
  BY Members
<1>2. Asked' = Asked /\ Settling' = Settling
  BY <1>1 DEF Asked, Settling, Producing
<1> QED
  BY <1>1, <1>2 DEF Got, Wanting, Cell

\* Steps that touch neither positions nor cells, and of no thread that constructs.
LEMMA ContentUntouched ==
  ASSUME RInv, RInv', NEW t \in Threads, NeglectKept,
         UNCHANGED <<enqueue_pos, dequeue_pos, storage>>,
         \A u \in Threads \ {t} : pc'[u] = pc[u] /\ pos'[u] = pos[u] /\ held'[u] = held[u],
         pc[t] # "construct"
  PROVE  Content' = Content
BY Members, ValueKept, ContentKept DEF RInv, NeglectKept

-----------------------------------------------------------------------------
(* The steps of emplace.                                                   *)

LEMMA BeginEmplaceAsks ==
  ASSUME RInv, RInv', NEW t \in Producers, NEW v \in Values, BeginEmplace(t, v)
  PROVE  Fifo!Next
<1>0. NeglectKept
  BY QuietPushes DEF RInv, Emplace, BeginEmplace, ConstructThrows
<1>1. /\ t \in Threads /\ pc[t] = "idle" /\ pc'[t] = "e_pos" /\ held'[t] = v
      /\ ~closed \/ StaleLoads
      /\ \A u \in Threads \ {t} : pc'[u] = pc[u] /\ pos'[u] = pos[u] /\ held'[u] = held[u]
      /\ UNCHANGED <<enqueue_pos, dequeue_pos, storage, closed>>
  BY Members, Positions DEF RInv, BeginEmplace, MayLookOpen, SeesOld, Goto, shared
<1>2. Content' = Content
  BY <1>0, <1>1, ContentUntouched
<1>3. /\ Asked' = [Asked EXCEPT ![t] = v] /\ Settling' = [Settling EXCEPT ![t] = Empty]
      /\ Wanting' = Wanting /\ Got' = Got
  BY <1>1, PusherMoves
<1>4. Asked[t] = Empty /\ Settling[t] = Empty /\ Settling' = Settling
  BY <1>1, <1>3 DEF Asked, Settling, Producing
<1>5. Fifo!Ask(t, v)
  BY <1>0, <1>1, <1>2, <1>3, <1>4 DEF Fifo!Ask, Fifo!config, NeglectKept
<1> QED
  BY <1>5 DEF Fifo!Next

LEMMA SearchingIsInvisible ==
  ASSUME RInv, RInv', NEW t \in Producers,
         LoadEnqueuePos(t) \/ EmplaceSeesFree(t) \/ EmplaceSeesTaken(t) \/ RetryEnqueue(t)
  PROVE  UNCHANGED Fifo!vars
<1>0. NeglectKept
  BY QuietPushes DEF RInv, Emplace, LoadEnqueuePos, EmplaceSeesFree, EmplaceSeesTaken,
     RetryEnqueue, ConstructThrows
<1>1. /\ t \in Threads /\ pc[t] \in {"e_pos", "e_seq", "e_cas"} /\ held' = held
      /\ pc'[t] \in {"e_pos", "e_seq", "e_cas"}
      /\ \A u \in Threads \ {t} : pc'[u] = pc[u] /\ pos'[u] = pos[u] /\ held'[u] = held[u]
      /\ UNCHANGED <<enqueue_pos, dequeue_pos, storage, closed>>
  BY Members, Positions DEF RInv, LoadEnqueuePos, EmplaceSeesFree, EmplaceSeesTaken, RetryEnqueue,
     Goto, shared
<1>2. Content' = Content
  BY <1>0, <1>1, ContentUntouched
<1>3. /\ Asked' = [Asked EXCEPT ![t] = held[t]] /\ Settling' = [Settling EXCEPT ![t] = Empty]
      /\ Wanting' = Wanting /\ Got' = Got
  BY <1>1, PusherMoves
<1>4. Asked[t] = held[t] /\ Settling[t] = Empty
  BY <1>1 DEF Asked, Settling, Producing
<1>5. Asked' = Asked /\ Settling' = Settling
  BY <1>3, <1>4 DEF Asked, Settling
<1> QED
  BY <1>0, <1>1, <1>2, <1>3, <1>5 DEF Fifo!vars, Fifo!config, NeglectKept

\* A push that is refused has seen the last lap's number, up to date or not.  If it
\* is, the cell's last position is unpopped, and the queue full, or unreleased: by a
\* pop under way, or by one that has thrown.
LEMMA FullHasAReason ==
  ASSUME RInv, NEW t \in Producers, EmplaceSeesFull(t), ~StaleLoads
  PROVE  \/ Len(Content) = Capacity
         \/ \E c \in Poppers : Got[c] # Empty
         \/ Unreleased # {}
<1> DEFINE q == enqueue_pos - Capacity
<1>0. /\ IInv /\ t \in Threads /\ enqueue_pos \in Nat /\ dequeue_pos \in Nat
      /\ Capacity \in Nat /\ Capacity >= 2 /\ pos[t] \in Nat /\ pos[t] <= enqueue_pos
      /\ enqueue_pos - dequeue_pos \in 0..Capacity
  BY Members, Positions DEF RInv, Roles, EmplaceSeesFull
<1>1. sequence[Cell(pos[t])] < pos[t]
  BY DEF EmplaceSeesFull, LoadsOfSequence, SeesOld
<1>2. pos[t] = enqueue_pos
  <2> SUFFICES ASSUME pos[t] # enqueue_pos PROVE FALSE
    OBVIOUS
  <2>1. PICK p \in Window : Cell(p) = Cell(pos[t])
    BY <1>0, CellInWindow
  <2>2. p \in Int /\ sequence[Cell(p)] \in {p, p + 1, p + Capacity}
    BY <1>0, <2>1 DEF IInv, CellInvariant, Window
  <2>3. p < pos[t]
    BY <1>0, <1>1, <2>1, <2>2
  <2> QED
    BY <1>0, <2>1, <2>2, <2>3, CellInjective DEF Window
<1>3. q \in Window /\ q \in Int /\ q + Capacity = enqueue_pos
  BY <1>0 DEF Window
<1>4. Cell(q) = Cell(pos[t])
  BY <1>2, <1>3, CellLap
<1>5. CASE q >= dequeue_pos
  BY <1>0, <1>5, ContentIs
<1>6. CASE q < dequeue_pos
  <2>1. sequence[Cell(q)] = q + 1
    BY <1>0, <1>1, <1>2, <1>3, <1>4, <1>6 DEF IInv, CellInvariant, Window
  <2>2. q \in (enqueue_pos - Capacity)..(dequeue_pos - 1)
    BY <1>0, <1>6
  <2> SUFFICES ASSUME q \notin Unreleased
               PROVE  \E c \in Poppers : Got[c] # Empty
    OBVIOUS
  <2>3. PICK c \in Poppers : Consuming(c) /\ pos[c] = q
    BY <2>1, <2>2 DEF Unreleased, HasPopper
  <2>4. storage[Cell(pos[c])] = Empty <=> pc[c] = "release"
    BY <1>0, <2>3, Members DEF IInv, ClaimInvariant
  <2>5. pc[c] = "release" => held[c] # Empty
    BY EmptyAssumption DEF RInv, Roles
  <2>6. Got[c] # Empty
    BY <2>3, <2>4, <2>5 DEF Got, Consuming
  <2> QED
    BY <2>6
<1> QED
  BY <1>0, <1>3, <1>5, <1>6

LEMMA EmplaceSeesFullRefuses ==
  ASSUME RInv, RInv', NEW t \in Producers, EmplaceSeesFull(t)
  PROVE  Fifo!Next
<1>0. NeglectKept
  BY QuietPushes DEF RInv, Emplace, EmplaceSeesFull, ConstructThrows
<1>1. /\ t \in Threads /\ pc[t] = "e_seq" /\ pc'[t] = "idle" /\ held[t] # Empty
      /\ \A u \in Threads \ {t} : pc'[u] = pc[u] /\ pos'[u] = pos[u] /\ held'[u] = held[u]
      /\ UNCHANGED <<enqueue_pos, dequeue_pos, storage, closed>>
  BY Members, Positions, EmptyAssumption DEF RInv, Roles, EmplaceSeesFull, Leave, Goto, shared
<1>2. Content' = Content
  BY <1>0, <1>1, ContentUntouched
<1>3. /\ Asked' = [Asked EXCEPT ![t] = Empty] /\ Settling' = [Settling EXCEPT ![t] = Empty]
      /\ Wanting' = Wanting /\ Got' = Got
  BY <1>1, PusherMoves
<1>4. Asked[t] # Empty /\ Settling' = Settling
  BY <1>1, <1>3 DEF Asked, Settling, Producing
<1>5. \/ Len(Content) = Capacity
      \/ \E c \in Poppers : Got[c] # Empty
      \/ Unreleased # {}
      \/ StaleLoads
  BY FullHasAReason
<1>6. Fifo!Refuse(t)
  BY <1>0, <1>1, <1>2, <1>3, <1>4, <1>5 DEF Fifo!Refuse, Fifo!config, NeglectKept
<1> QED
  BY <1>6 DEF Fifo!Next

LEMMA ClaimEnqueuePuts ==
  ASSUME RInv, RInv', NEW t \in Producers, ClaimEnqueue(t)
  PROVE  Fifo!Next
<1>0. NeglectKept
  BY NeglectAfterClaimEnqueue DEF RInv
<1>1. /\ t \in Threads /\ pc[t] = "e_cas" /\ pc'[t] = "construct" /\ held[t] # Empty /\ held' = held
      /\ \A u \in Threads \ {t} : pc'[u] = pc[u] /\ pos'[u] = pos[u] /\ held'[u] = held[u]
      /\ UNCHANGED <<storage, closed>>
  BY Members, Positions, EmptyAssumption DEF RInv, Roles, ClaimEnqueue, Goto
<1>2. Len(Content) < Capacity /\ Content' = Append(Content, held[t])
  BY ContentAfterClaimEnqueue
<1>3. /\ Asked' = [Asked EXCEPT ![t] = Empty] /\ Settling' = [Settling EXCEPT ![t] = held[t]]
      /\ Wanting' = Wanting /\ Got' = Got
  BY <1>1, PusherMoves
<1>4. Asked[t] = held[t]
  BY <1>1 DEF Asked
<1>5. Fifo!Put(t)
  BY <1>0, <1>1, <1>2, <1>3, <1>4 DEF Fifo!Put, Fifo!config, NeglectKept
<1> QED
  BY <1>5 DEF Fifo!Next

LEMMA ConstructIsInvisible ==
  ASSUME RInv, RInv', NEW t \in Producers, Construct(t)
  PROVE  UNCHANGED Fifo!vars
<1> DEFINE i == Cell(pos[t])
<1>0. t \in Threads /\ IInv /\ IInv' /\ i \in Cells /\ NeglectKept
  <2>1. NeglectKept
    BY Members, Positions, QuietPushes DEF RInv, Emplace, Construct, ConstructThrows, Goto, Leave
  <2> QED
    BY <2>1, Members, Positions, CellType DEF RInv
<1>1. /\ pc[t] = "construct" /\ pc'[t] = "publish" /\ held' = held /\ pos' = pos
      /\ \A u \in Threads \ {t} : pc'[u] = pc[u] /\ pos'[u] = pos[u] /\ held'[u] = held[u]
      /\ UNCHANGED <<enqueue_pos, dequeue_pos, closed>>
      /\ storage' = [storage EXCEPT ![i] = held[t]]
      /\ held[t] # Empty
  BY <1>0, Positions, EmptyAssumption DEF RInv, Roles, Construct, Goto
<1>2. storage[i] = Empty /\ storage'[i] = held[t] /\ \A j \in Cells \ {i} : storage'[j] = storage[j]
  BY <1>0, <1>1, Positions DEF IInv, ClaimInvariant, Producing
<1>3. ASSUME NEW p \in dequeue_pos..(enqueue_pos - 1)
      PROVE  ValueOf'[p] = ValueOf[p]
  <2>1. Cell(p) \in Cells
    BY <1>0, Positions, CellType
  <2>2. storage[Cell(p)] # Empty => storage'[Cell(p)] = storage[Cell(p)]
    BY <1>2, <2>1
  <2>3. ASSUME NEW u \in Producers, pc[u] = "construct", pos[u] = p
        PROVE  \/ pc'[u] = "construct" /\ pos'[u] = p /\ held'[u] = held[u]
               \/ storage'[Cell(p)] = held[u] /\ held[u] # Empty
    BY <1>1, <1>2, <2>3, Members
  <2> QED
    BY <1>0, <2>2, <2>3, ValueKept DEF NeglectKept
<1>4. Content' = Content
  BY <1>1, <1>3, ContentKept
<1>5. ASSUME NEW c \in Poppers, pc[c] = "move_out"
      PROVE  storage'[Cell(pos[c])] = storage[Cell(pos[c])]
  <2>1. storage[Cell(pos[c])] # Empty /\ Cell(pos[c]) \in Cells
    BY <1>0, <1>5, Members, Positions, CellType DEF IInv, ClaimInvariant, Consuming
  <2> QED
    BY <1>2, <2>1
<1>6. /\ Asked' = [Asked EXCEPT ![t] = Empty] /\ Settling' = [Settling EXCEPT ![t] = held[t]]
      /\ Wanting' = Wanting /\ Got' = Got
  BY <1>1, <1>5, PusherMoves
<1>7. Asked[t] = Empty /\ Settling[t] = held[t]
  BY <1>1 DEF Asked, Settling, Producing
<1>8. Asked' = Asked /\ Settling' = Settling
  BY <1>6, <1>7 DEF Asked, Settling
<1> QED
  BY <1>0, <1>1, <1>4, <1>6, <1>8 DEF Fifo!vars, Fifo!config, NeglectKept

LEMMA PublishSettles ==
  ASSUME RInv, RInv', NEW t \in Producers, Publish(t)
  PROVE  Fifo!Next
<1>0. NeglectKept
  BY QuietPushes DEF RInv, Emplace, Publish, ConstructThrows
<1>1. /\ t \in Threads /\ held[t] # Empty /\ pc[t] = "publish" /\ pc'[t] = "idle"
      /\ \A u \in Threads \ {t} : pc'[u] = pc[u] /\ pos'[u] = pos[u] /\ held'[u] = held[u]
      /\ UNCHANGED <<enqueue_pos, dequeue_pos, storage, closed>>
  BY Members, Positions, EmptyAssumption DEF RInv, Roles, Publish, Leave, Goto
<1>2. Content' = Content
  BY <1>0, <1>1, ContentUntouched
<1>3. /\ Asked' = [Asked EXCEPT ![t] = Empty] /\ Settling' = [Settling EXCEPT ![t] = Empty]
      /\ Wanting' = Wanting /\ Got' = Got
  BY <1>1, PusherMoves
<1>4. Asked[t] = Empty /\ Settling[t] # Empty
  BY <1>1 DEF Asked, Settling, Producing
<1>5. Asked' = Asked
  BY <1>3, <1>4 DEF Asked
<1>6. Fifo!Settle(t)
  BY <1>0, <1>1, <1>2, <1>3, <1>4, <1>5 DEF Fifo!Settle, Fifo!config, NeglectKept
<1> QED
  BY <1>6 DEF Fifo!Next

\* The constructor that throws leaves a hole where its value was.
LEMMA ConstructThrowsSpoils ==
  ASSUME RInv, RInv', NEW t \in Producers, ConstructThrows(t)
  PROVE  Fifo!Next
<1> DEFINE n == enqueue_pos - dequeue_pos
           k == pos[t] - dequeue_pos + 1
           s == [Content EXCEPT ![k] = Empty]
<1>0. /\ IInv /\ IInv' /\ t \in Threads
      /\ enqueue_pos \in Nat /\ dequeue_pos \in Nat /\ n \in Nat /\ pos[t] \in Nat
      /\ Abandoned' = Abandoned \cup {pos[t]} /\ Unreleased' = Unreleased
  BY Members, Positions, ConstructThrowsNeglects DEF RInv
<1>1. /\ pc[t] = "construct" /\ pc'[t] = "idle" /\ held[t] # Empty
      /\ \A u \in Threads \ {t} : pc'[u] = pc[u] /\ pos'[u] = pos[u] /\ held'[u] = held[u]
      /\ UNCHANGED <<enqueue_pos, dequeue_pos, storage, closed>>
      /\ MayThrow
  BY <1>0, Positions, EmptyAssumption DEF RInv, Roles, ConstructThrows, Leave, Goto, shared
<1>2. k \in 1..n /\ dequeue_pos + k - 1 = pos[t]
  BY <1>0, <1>1 DEF IInv, ClaimInvariant, Producing
<1>3. /\ Content \in Seq(Objects) /\ Len(Content) = n
      /\ \A i \in 1..n : Content[i] = ValueOf[dequeue_pos + i - 1]
  BY ContentIs
<1>4. /\ Content' \in Seq(Objects) /\ Len(Content') = n
      /\ \A i \in 1..n : Content'[i] = ValueOf'[dequeue_pos + i - 1]
  BY <1>1, ContentIsNext DEF ContentShape
<1>5. ASSUME NEW i \in 1..n, i # k
      PROVE  Content'[i] = Content[i]
  <2> DEFINE p == dequeue_pos + i - 1
  <2>1. p \in dequeue_pos..(enqueue_pos - 1) /\ p # pos[t]
    BY <1>0, <1>5
  <2>2. ValueOf'[p] = ValueOf[p]
    <3>1. p \in Abandoned' <=> p \in Abandoned
      BY <1>0, <2>1
    <3> HIDE DEF p
    <3> QED
      BY <1>0, <1>1, <2>1, <3>1, Members, ValueKept
  <2> QED
    BY <1>3, <1>4, <2>2
<1>6. Content'[k] = Empty
  <2>1. \A p \in Int : p \in Abandoned' => ValueOf'[p] = Empty
    BY ValueOfIs DEF ValueAt
  <2>2. ValueOf'[pos[t]] = Empty
    BY <1>0, <2>1
  <2> QED
    BY <1>2, <1>4, <2>2
<1>7. /\ s \in Seq(Objects) /\ Len(s) = n /\ s[k] = Empty
      /\ \A i \in 1..n : i # k => s[i] = Content[i]
  <2>1. Empty \in Objects
    BY DEF Objects
  <2> QED
    BY <1>0, <1>2, <1>3, <2>1
<1>8. Content' = s
  <2>1. \A i \in 1..n : Content'[i] = s[i]
    BY <1>5, <1>6, <1>7
  <2> HIDE DEF s
  <2> QED
    BY <1>4, <1>7, <2>1, SeqEqual
<1>9. k \in DOMAIN Content /\ Content[k] = held[t]
  <2>1. ValueOf[pos[t]] = held[t]
    BY <1>0, <1>1, ValueIsHeld
  <2> QED
    BY <1>2, <1>3, <2>1
<1>10. /\ Asked' = [Asked EXCEPT ![t] = Empty] /\ Settling' = [Settling EXCEPT ![t] = Empty]
       /\ Wanting' = Wanting /\ Got' = Got
  BY <1>1, PusherMoves
<1>11. Asked' = Asked /\ Settling[t] = held[t]
  BY <1>1, <1>10 DEF Asked, Settling, Producing
<1>12. Fifo!Spoil(t)
  <2> HIDE DEF k
  <2> QED
    BY <1>0, <1>1, <1>8, <1>9, <1>10, <1>11 DEF Fifo!Spoil, Fifo!config
<1> QED
  BY <1>12 DEF Fifo!Next

-----------------------------------------------------------------------------
(* The steps of try_pop.                                                   *)

LEMMA BeginTryPopWants ==
  ASSUME RInv, RInv', NEW t \in Poppers, BeginTryPop(t)
  PROVE  Fifo!Next
<1>0. NeglectKept
  BY QuietPops DEF RInv, TryPop, BeginTryPop, MoveOutThrows
<1>1. /\ t \in Threads /\ pc[t] = "idle" /\ pc'[t] = "p_pos" /\ held[t] = Empty /\ held' = held
      /\ \A u \in Threads \ {t} : pc'[u] = pc[u] /\ pos'[u] = pos[u] /\ held'[u] = held[u]
      /\ UNCHANGED <<enqueue_pos, dequeue_pos, storage, closed>>
  BY Members, Positions DEF RInv, Roles, BeginTryPop, Goto, shared
<1>2. Content' = Content
  BY <1>0, <1>1, ContentUntouched
<1>3. /\ Got' = [Got EXCEPT ![t] = Empty] /\ Wanting' = Wanting \cup {t}
      /\ Asked' = Asked /\ Settling' = Settling
  BY <1>1, PopperMoves
<1>4. Got[t] = Empty
  BY <1>1 DEF Got
<1>5. Got' = Got
  BY <1>3, <1>4 DEF Got
<1>6. Fifo!Want(t)
  BY <1>0, <1>1, <1>2, <1>3, <1>4, <1>5 DEF Fifo!Want, Fifo!config, NeglectKept
<1> QED
  BY <1>6 DEF Fifo!Next

LEMMA LookingIsInvisible ==
  ASSUME RInv, RInv', NEW t \in Poppers,
         LoadDequeuePos(t) \/ TryPopSeesItem(t) \/ TryPopSeesTaken(t) \/ RetryDequeue(t)
  PROVE  UNCHANGED Fifo!vars
<1>0. NeglectKept
  BY QuietPops DEF RInv, TryPop, LoadDequeuePos, TryPopSeesItem, TryPopSeesTaken,
     RetryDequeue, MoveOutThrows
<1>1. /\ t \in Threads /\ pc[t] \in {"p_pos", "p_seq", "p_cas"} /\ held[t] = Empty /\ held' = held
      /\ pc'[t] \in {"p_pos", "p_seq", "p_cas"}
      /\ \A u \in Threads \ {t} : pc'[u] = pc[u] /\ pos'[u] = pos[u] /\ held'[u] = held[u]
      /\ UNCHANGED <<enqueue_pos, dequeue_pos, storage, closed>>
  BY Members, Positions DEF RInv, Roles, LoadDequeuePos, TryPopSeesItem, TryPopSeesTaken,
     RetryDequeue, Goto, shared
<1>2. Content' = Content
  BY <1>0, <1>1, ContentUntouched
<1>3. /\ Got' = [Got EXCEPT ![t] = Empty] /\ Wanting' = Wanting \cup {t}
      /\ Asked' = Asked /\ Settling' = Settling
  BY <1>1, PopperMoves
<1>4. Got[t] = Empty /\ t \in Wanting
  BY <1>1 DEF Got, Wanting
<1>5. Got' = Got /\ Wanting' = Wanting
  BY <1>3, <1>4 DEF Got
<1> QED
  BY <1>0, <1>1, <1>2, <1>3, <1>5 DEF Fifo!vars, Fifo!config, NeglectKept

\* A pop that goes without has seen a number that is not published, up to date or
\* not.  If it is, the position is the front of the queue: unclaimed, or its
\* pusher's to publish, or abandoned.
LEMMA EmptyHasAReason ==
  ASSUME RInv, NEW t \in Poppers, TryPopSeesEmpty(t), ~StaleLoads
  PROVE  \/ Content = <<>>
         \/ dequeue_pos \in Abandoned /\ Head(Content) = Empty
         \/ \E p \in Producers : Settling[p] # Empty
<1>0. /\ IInv /\ t \in Threads /\ enqueue_pos \in Nat /\ dequeue_pos \in Nat
      /\ Capacity \in Nat /\ Capacity >= 2 /\ pos[t] \in Nat /\ pos[t] <= dequeue_pos
      /\ dequeue_pos <= enqueue_pos /\ enqueue_pos - dequeue_pos \in 0..Capacity
  BY Members, Positions DEF RInv, Roles, TryPopSeesEmpty
<1>1. sequence[Cell(pos[t])] < pos[t] + 1
  BY DEF TryPopSeesEmpty, LoadsOfSequence, SeesOld
<1>2. CASE dequeue_pos = enqueue_pos
  <2>1. Content \in Seq(Objects) /\ Len(Content) = 0
    BY <1>0, <1>2, ContentIs
  <2> QED
    BY <2>1, EmptySeq
<1>3. CASE dequeue_pos # enqueue_pos
  <2>1. pos[t] = dequeue_pos
    <3> SUFFICES ASSUME pos[t] # dequeue_pos PROVE FALSE
      OBVIOUS
    <3>1. PICK p \in Window : Cell(p) = Cell(pos[t])
      BY <1>0, CellInWindow
    <3>2. p \in Int /\ IF p >= dequeue_pos
                         THEN sequence[Cell(p)] \in {p, p + 1}
                         ELSE sequence[Cell(p)] \in {p + 1, p + Capacity}
      BY <1>0, <3>1 DEF IInv, CellInvariant, Window
    <3>3. p < pos[t]
      BY <1>0, <1>1, <3>1, <3>2
    <3> QED
      BY <1>0, <3>1, <3>2, <3>3, CellInjective DEF Window
  <2>2. dequeue_pos \in Window /\ dequeue_pos \in dequeue_pos..(enqueue_pos - 1)
    BY <1>0, <1>3 DEF Window
  <2>3. sequence[Cell(dequeue_pos)] = dequeue_pos
    BY <1>0, <1>1, <2>1, <2>2 DEF IInv, CellInvariant, Window
  <2>4. CASE dequeue_pos \in Abandoned
    <3>1. ValueOf[dequeue_pos] = Empty
      BY <2>2, <2>4, ValueIsValue
    <3>2. Content \in Seq(Objects) /\ Len(Content) # 0 /\ Content[1] = ValueOf[dequeue_pos]
      BY <1>0, <1>3, ContentIs
    <3>3. Content # <<>> /\ Head(Content) = Content[1]
      BY <3>2, EmptySeq, HeadTailProperties
    <3> QED
      BY <2>4, <3>1, <3>2, <3>3
  <2>5. CASE dequeue_pos \notin Abandoned
    <3>1. PICK u \in Producers : Producing(u)
      BY <2>2, <2>3, <2>5 DEF Abandoned, HasPusher
    <3>2. held[u] # Empty
      BY <3>1, EmptyAssumption DEF RInv, Roles, Producing
    <3> QED
      BY <3>1, <3>2 DEF Settling
  <2> QED
    BY <2>4, <2>5
<1> QED
  BY <1>2, <1>3

LEMMA TryPopSeesEmptyGoesWithout ==
  ASSUME RInv, RInv', NEW t \in Poppers, TryPopSeesEmpty(t)
  PROVE  Fifo!Next
<1>0. NeglectKept
  BY QuietPops DEF RInv, TryPop, TryPopSeesEmpty, MoveOutThrows
<1>1. /\ t \in Threads /\ pc[t] = "p_seq" /\ pc'[t] = "idle" /\ held[t] = Empty /\ held'[t] = Empty
      /\ \A u \in Threads \ {t} : pc'[u] = pc[u] /\ pos'[u] = pos[u] /\ held'[u] = held[u]
      /\ UNCHANGED <<enqueue_pos, dequeue_pos, storage, closed>>
  BY Members, Positions DEF RInv, Roles, TryPopSeesEmpty, Leave, Goto
<1>2. Content' = Content
  BY <1>0, <1>1, ContentUntouched
<1>3. /\ Got' = [Got EXCEPT ![t] = Empty] /\ Wanting' = Wanting \ {t}
      /\ Asked' = Asked /\ Settling' = Settling
  BY <1>1, PopperMoves
<1>4. Got[t] = Empty /\ t \in Wanting
  BY <1>1 DEF Got, Wanting
<1>5. Got' = Got
  BY <1>3, <1>4 DEF Got
<1>6. \/ Content = <<>> \/ Head(Content) = Empty
      \/ \E p \in Producers : Settling[p] # Empty
      \/ StaleLoads
  BY EmptyHasAReason
<1>7. Fifo!GoWithout(t)
  BY <1>0, <1>1, <1>2, <1>3, <1>4, <1>5, <1>6 DEF Fifo!GoWithout, Fifo!config, NeglectKept
<1> QED
  BY <1>7 DEF Fifo!Next

LEMMA ClaimDequeueGets ==
  ASSUME RInv, RInv', NEW t \in Poppers, ClaimDequeue(t)
  PROVE  Fifo!Next
<1>0. NeglectKept
  BY NeglectAfterClaimDequeue DEF RInv
<1>1. /\ t \in Threads /\ pc[t] = "p_cas" /\ pc'[t] = "move_out" /\ pos' = pos
      /\ \A u \in Threads \ {t} : pc'[u] = pc[u] /\ pos'[u] = pos[u] /\ held'[u] = held[u]
      /\ UNCHANGED <<storage, closed>>
  BY Members, Positions DEF RInv, ClaimDequeue, Goto
<1>2. /\ Content # <<>> /\ Content' = Tail(Content)
      /\ Head(Content) = storage[Cell(pos[t])] /\ Head(Content) # Empty
  BY ContentAfterClaimDequeue
<1>3. /\ Got' = [Got EXCEPT ![t] = Head(Content)] /\ Wanting' = Wanting \ {t}
      /\ Asked' = Asked /\ Settling' = Settling
  BY <1>1, <1>2, PopperMoves
<1>4. t \in Wanting
  BY <1>1 DEF Wanting
<1>5. Fifo!Get(t)
  BY <1>0, <1>1, <1>2, <1>3, <1>4 DEF Fifo!Get, Fifo!config, NeglectKept
<1> QED
  BY <1>5 DEF Fifo!Next

LEMMA MoveOutIsInvisible ==
  ASSUME RInv, RInv', NEW t \in Poppers, MoveOut(t)
  PROVE  UNCHANGED Fifo!vars
<1> DEFINE i == Cell(pos[t])
<1>0. /\ t \in Threads /\ t \notin Producers /\ IInv /\ IInv' /\ i \in Cells
      /\ enqueue_pos \in Nat /\ dequeue_pos \in Nat
      /\ NeglectKept
  <2>1. NeglectKept
    BY Members, Positions, QuietPops DEF RInv, TryPop, MoveOut, MoveOutThrows, Goto, Leave
  <2> QED
    BY <2>1, Members, Positions, CellType DEF RInv
<1>1. /\ pc[t] = "move_out" /\ pc'[t] = "release" /\ held'[t] = storage[i]
      /\ \A u \in Threads \ {t} : pc'[u] = pc[u] /\ pos'[u] = pos[u] /\ held'[u] = held[u]
      /\ UNCHANGED <<enqueue_pos, dequeue_pos, closed>>
      /\ storage' = [storage EXCEPT ![i] = Empty]
  BY <1>0, Positions DEF RInv, MoveOut, Goto
<1>2. \A j \in Cells \ {i} : storage'[j] = storage[j]
  BY <1>0, <1>1, Positions
<1>3. /\ pos[t] < dequeue_pos /\ pos[t] \in Nat
      /\ \A p \in Window : p # pos[t] => Cell(p) # i
  BY <1>0, <1>1, Positions, ClaimInWindow DEF IInv, ClaimInvariant, Claiming, Consuming
<1>4. ASSUME NEW p \in dequeue_pos..(enqueue_pos - 1)
      PROVE  ValueOf'[p] = ValueOf[p]
  <2>1. p \in Window /\ p # pos[t] /\ Cell(p) \in Cells
    BY <1>0, <1>3, Positions, CellType DEF Window
  <2>2. storage'[Cell(p)] = storage[Cell(p)]
    BY <1>2, <1>3, <2>1
  <2> QED
    BY <1>0, <1>1, <2>2, Members, ValueKept DEF NeglectKept
<1>5. Content' = Content
  BY <1>1, <1>4, ContentKept
<1>6. ASSUME NEW c \in Poppers \ {t}, pc[c] = "move_out"
      PROVE  storage'[Cell(pos[c])] = storage[Cell(pos[c])]
  <2>1. c \in Threads /\ Claiming(c) /\ Claiming(t) /\ c # t
    BY <1>1, <1>6, Members DEF Claiming, Consuming
  <2>2. pos[c] # pos[t]
    BY <1>0, <2>1 DEF IInv, ClaimInvariant
  <2>3. pos[c] \in Window /\ Cell(pos[c]) \in Cells
    BY <1>0, <2>1, ClaimInWindow, Positions, CellType
  <2> QED
    BY <1>2, <1>3, <2>2, <2>3
<1>7. /\ Got' = [Got EXCEPT ![t] = storage[i]] /\ Wanting' = Wanting \ {t}
      /\ Asked' = Asked /\ Settling' = Settling
  BY <1>1, <1>6, PopperMoves
<1>8. Got[t] = storage[i] /\ t \notin Wanting
  BY <1>1 DEF Got, Wanting
<1>9. Got' = Got /\ Wanting' = Wanting
  BY <1>7, <1>8 DEF Got
<1> QED
  BY <1>0, <1>1, <1>5, <1>7, <1>9 DEF Fifo!vars, Fifo!config, NeglectKept

LEMMA ReleaseReturns ==
  ASSUME RInv, RInv', NEW t \in Poppers, Release(t)
  PROVE  Fifo!Next
<1>0. NeglectKept
  BY QuietPops DEF RInv, TryPop, Release, MoveOutThrows
<1>1. /\ t \in Threads /\ pc[t] = "release" /\ pc'[t] = "idle" /\ held[t] # Empty /\ held'[t] = Empty
      /\ \A u \in Threads \ {t} : pc'[u] = pc[u] /\ pos'[u] = pos[u] /\ held'[u] = held[u]
      /\ UNCHANGED <<enqueue_pos, dequeue_pos, storage, closed>>
  BY Members, Positions, EmptyAssumption DEF RInv, Roles, Release, Leave, Goto
<1>2. Content' = Content
  BY <1>0, <1>1, ContentUntouched
<1>3. /\ Got' = [Got EXCEPT ![t] = Empty] /\ Wanting' = Wanting \ {t}
      /\ Asked' = Asked /\ Settling' = Settling
  BY <1>1, PopperMoves
<1>4. Got[t] # Empty /\ t \notin Wanting
  BY <1>1 DEF Got, Wanting
<1>5. Fifo!Return(t)
  BY <1>0, <1>1, <1>2, <1>3, <1>4 DEF Fifo!Return, Fifo!config, NeglectKept
<1> QED
  BY <1>5 DEF Fifo!Next

\* The assignment that throws leaves its object behind, in a cell nobody releases.
LEMMA MoveOutThrowsLoses ==
  ASSUME RInv, RInv', NEW t \in Poppers, MoveOutThrows(t)
  PROVE  Fifo!Next
<1>0. /\ t \in Threads /\ t \notin Producers
      /\ Abandoned' = Abandoned /\ Unreleased' = Unreleased \cup {pos[t]}
  BY Members, MoveOutThrowsNeglects DEF RInv
<1>1. /\ pc[t] = "move_out" /\ pc'[t] = "idle" /\ held'[t] = Empty
      /\ \A u \in Threads \ {t} : pc'[u] = pc[u] /\ pos'[u] = pos[u] /\ held'[u] = held[u]
      /\ UNCHANGED <<enqueue_pos, dequeue_pos, storage, closed>>
      /\ MayThrow
  BY <1>0, Positions DEF RInv, MoveOutThrows, Leave, Goto, shared
<1>2. Content' = Content
  <2>1. \A p \in dequeue_pos..(enqueue_pos - 1) : ValueOf'[p] = ValueOf[p]
    BY <1>0, <1>1, Members, ValueKept DEF RInv
  <2> QED
    BY <1>1, <2>1, ContentKept
<1>3. /\ Got' = [Got EXCEPT ![t] = Empty] /\ Wanting' = Wanting \ {t}
      /\ Asked' = Asked /\ Settling' = Settling
  BY <1>1, PopperMoves
<1>4. Got[t] # Empty /\ t \notin Wanting
  <2>1. storage[Cell(pos[t])] # Empty
    BY <1>0, <1>1 DEF RInv, IInv, ClaimInvariant, Consuming
  <2> QED
    BY <1>1, <2>1 DEF Got, Wanting
<1>5. Fifo!Lose(t)
  BY <1>0, <1>1, <1>2, <1>3, <1>4 DEF Fifo!Lose, Fifo!config
<1> QED
  BY <1>5 DEF Fifo!Next

\* Closing is closing; entering the destructor cannot be seen.
LEMMA CloseCloses ==
  ASSUME RInv, Close \/ BeginDestructor \/ UNCHANGED vars
  PROVE  [Fifo!Next]_(Fifo!vars)
<1>1. UNCHANGED <<enqueue_pos, dequeue_pos, sequence, storage, pc, pos, held>>
  BY DEF Close, BeginDestructor, vars, shared
<1>2. /\ Content' = Content /\ Asked' = Asked /\ Settling' = Settling
      /\ Wanting' = Wanting /\ Got' = Got /\ NeglectKept
  BY <1>1 DEF Content, ValueAt, Asked, Settling, Wanting, Got, Producing, Consuming, Cell,
     NeglectKept, Abandoned, Unreleased, HasPusher, HasPopper
<1>3. CASE Close
  <2>1. Fifo!Close
    BY <1>2, <1>3 DEF Close, Fifo!Close, Fifo!config, NeglectKept
  <2> QED
    BY <2>1 DEF Fifo!Next
<1>4. CASE BeginDestructor \/ UNCHANGED vars
  BY <1>2, <1>4 DEF BeginDestructor, vars, shared, Fifo!vars, Fifo!config, NeglectKept
<1> QED
  BY <1>3, <1>4

\* The queue is a bounded FIFO, for any number of threads and any capacity: values
\* come out in the order in which positions were claimed, each one once; with current
\* loads a push fails only on a full queue, beside a pop under way or after one that
\* threw, a pop only on an empty queue, beside a push or at the hole left by one that
\* threw.  What a throw spoils is the place of its own call, and that for ever.  A
\* push that begins after close fails, if its load of closed_ is current.
THEOREM Refinement == Spec => ImplementsFifo
<1>1. ASSUME Init
      PROVE  Fifo!Init
  <2>1. RInv
    BY <1>1, InitHasRInv
  <2>2. Content = <<>>
    BY <1>1, <2>1, ContentIs, EmptySeq DEF Init
  <2>3. /\ Asked = [t \in Producers |-> Empty] /\ Settling = [t \in Producers |-> Empty]
        /\ Wanting = {} /\ Got = [t \in Poppers |-> Empty]
    BY <1>1, Members DEF Init, Asked, Settling, Wanting, Got, Producing
  <2>4. Unreleased = {}
    BY <1>1, InitNeglectsNothing
  <2> QED
    BY <1>1, <2>2, <2>3, <2>4, FlagsAssumption DEF Init, Fifo!Init
<1>2. ASSUME RInv, RInv', [Next]_vars
      PROVE  [Fifo!Next]_(Fifo!vars)
  <2>1. CASE \E t \in Producers : Emplace(t)
    BY <1>2, <2>1, BeginEmplaceAsks, SearchingIsInvisible, EmplaceSeesFullRefuses,
       ClaimEnqueuePuts, ConstructIsInvisible, ConstructThrowsSpoils, PublishSettles DEF Emplace
  <2>2. CASE \E t \in Poppers : TryPop(t)
    BY <1>2, <2>2, BeginTryPopWants, LookingIsInvisible, TryPopSeesEmptyGoesWithout,
       ClaimDequeueGets, MoveOutIsInvisible, MoveOutThrowsLoses, ReleaseReturns DEF TryPop
  <2>3. CASE Close \/ BeginDestructor \/ UNCHANGED vars
    BY <1>2, <2>3, CloseCloses
  <2> QED
    BY <1>2, <2>1, <2>2, <2>3 DEF Next
<1> QED
  BY <1>1, <1>2, RefinementInvariant, PTL DEF Spec, ImplementsFifo, Fifo!Spec

-----------------------------------------------------------------------------
(***************************************************************************)
(* What the destructor leaves alive.                                       *)
(*                                                                         *)
(* drain_remaining runs alone, on current values, and stops at the first   *)
(* position it finds unpublished.  Nobody is left to publish it, so it is  *)
(* the end of the queue or abandoned; and a popped cell that is not raw is *)
(* one that nobody is left to release.                                     *)
(***************************************************************************)

\* Abandoned cells are raw, unreleased ones hold the object that could not be moved.
NeglectedCells ==
  /\ \A p \in Abandoned : storage[Cell(p)] = Empty
  /\ \A p \in Unreleased : storage[Cell(p)] # Empty

\* A call works on the cell it has claimed, and a neglected one is nobody's.
LEMMA NeglectedUntouched ==
  ASSUME IInv, [Next]_vars, NEW p \in Abandoned \cup Unreleased
  PROVE  storage'[Cell(p)] = storage[Cell(p)]
<1>0. /\ p \in Window /\ Cell(p) \in Cells
      /\ p \in Abandoned => p >= dequeue_pos /\ ~HasPusher(p)
      /\ p \in Unreleased => p < dequeue_pos /\ ~HasPopper(p)
  BY Positions, CellType DEF Abandoned, Unreleased, Window
<1>1. ASSUME NEW t \in Threads, Claiming(t), pos[t] # p,
             \A j \in Cells \ {Cell(pos[t])} : storage'[j] = storage[j]
      PROVE  storage'[Cell(p)] = storage[Cell(p)]
  <2>1. Cell(p) # Cell(pos[t])
    BY <1>0, <1>1, ClaimInWindow
  <2> QED
    BY <1>0, <1>1, <2>1
<1>2. ASSUME NEW t \in Producers, Construct(t)
      PROVE  storage'[Cell(p)] = storage[Cell(p)]
  <2>1. t \in Threads /\ Producing(t) /\ Claiming(t) /\ pos[t] >= dequeue_pos
    BY <1>2, Members DEF Construct, Producing, Claiming, IInv, ClaimInvariant
  <2>2. pos[t] # p
    BY <1>0, <2>1, Positions DEF HasPusher, Abandoned, Unreleased
  <2>3. \A j \in Cells \ {Cell(pos[t])} : storage'[j] = storage[j]
    BY <1>2, Positions DEF Construct
  <2> QED
    BY <1>1, <2>1, <2>2, <2>3
<1>3. ASSUME NEW t \in Poppers, MoveOut(t)
      PROVE  storage'[Cell(p)] = storage[Cell(p)]
  <2>1. t \in Threads /\ Consuming(t) /\ Claiming(t) /\ pos[t] < dequeue_pos
    BY <1>3, Members DEF MoveOut, Consuming, Claiming, IInv, ClaimInvariant
  <2>2. pos[t] # p
    BY <1>0, <2>1, Positions DEF HasPopper, Abandoned, Unreleased
  <2>3. \A j \in Cells \ {Cell(pos[t])} : storage'[j] = storage[j]
    BY <1>3, Positions DEF MoveOut
  <2> QED
    BY <1>1, <2>1, <2>2, <2>3
<1>4. CASE UNCHANGED storage
  BY <1>4
<1>5. \/ \E t \in Producers : Construct(t)
      \/ \E t \in Poppers : MoveOut(t)
      \/ UNCHANGED storage
  BY DEF Next, Emplace, TryPop, BeginEmplace, LoadEnqueuePos, EmplaceSeesFree,
     EmplaceSeesFull, EmplaceSeesTaken, ClaimEnqueue, RetryEnqueue, ConstructThrows, Publish,
     BeginTryPop, LoadDequeuePos, TryPopSeesItem, TryPopSeesEmpty, TryPopSeesTaken,
     ClaimDequeue, RetryDequeue, MoveOutThrows, Release, Close, BeginDestructor, vars, shared
<1> QED
  BY <1>2, <1>3, <1>4, <1>5

LEMMA NeglectedCellsStep ==
  ASSUME IInv, NeglectedCells, [Next]_vars
  PROVE  NeglectedCells'
<1>1. ASSUME NEW p \in Abandoned'
      PROVE  storage'[Cell(p)] = Empty
  <2>1. CASE p \in Abandoned
    BY <2>1, NeglectedUntouched DEF NeglectedCells
  <2>2. CASE p \notin Abandoned
    <3>1. PICK t \in Producers : ConstructThrows(t) /\ p = pos[t]
      BY <1>1, <2>2, NeglectStep
    <3> QED
      BY <3>1, Members DEF ConstructThrows, shared, IInv, ClaimInvariant, Producing
  <2> QED
    BY <2>1, <2>2
<1>2. ASSUME NEW p \in Unreleased'
      PROVE  storage'[Cell(p)] # Empty
  <2>1. CASE p \in Unreleased
    BY <2>1, NeglectedUntouched DEF NeglectedCells
  <2>2. CASE p \notin Unreleased
    <3>1. PICK t \in Consumers : MoveOutThrows(t) /\ p = pos[t]
      BY <1>2, <2>2, NeglectStep
    <3> QED
      BY <3>1, Members DEF MoveOutThrows, shared, IInv, ClaimInvariant, Consuming, Poppers
  <2> QED
    BY <2>1, <2>2
<1> QED
  BY <1>1, <1>2 DEF NeglectedCells, Cell

\* Alone in the queue, and where its loop has got to.
Drains ==
  /\ lifetime # "alive" => \A t \in Threads \ {Main} : pc[t] = "idle"
  /\ pc[Main] # "idle" => lifetime = "draining"
  /\ pc[Main] \in {"p_seq", "p_cas"} => pos[Main] = dequeue_pos

LInv == IInv /\ NeglectedCells /\ Drains /\ OnlyNeglectedLeaks

\* The objects that are alive where the destructor's try_pop finds nothing.
LEMMA DrainedTo ==
  ASSUME IInv, NeglectedCells, Drains, TryPopSeesEmpty(Main)
  PROVE  /\ dequeue_pos = enqueue_pos \/ dequeue_pos \in Abandoned
         /\ \A p \in Window :
              storage[Cell(p)] # Empty <=> p \in Unreleased \/ (p >= dequeue_pos /\ p \notin Abandoned)
<1>0. /\ pc[Main] = "p_seq" /\ pos[Main] = dequeue_pos
      /\ lifetime = "draining" /\ \A t \in Threads \ {Main} : pc[t] = "idle"
      /\ enqueue_pos \in Nat /\ dequeue_pos \in Nat /\ Capacity \in Nat /\ Capacity >= 2
      /\ dequeue_pos <= enqueue_pos /\ enqueue_pos - dequeue_pos \in 0..Capacity
  BY Positions DEF Drains, TryPopSeesEmpty
<1>1. sequence[Cell(dequeue_pos)] < dequeue_pos + 1
  BY <1>0 DEF TryPopSeesEmpty, LoadsOfSequence, SeesOld
<1>2. \A t \in Threads : ~Producing(t) /\ ~Consuming(t)
  BY <1>0 DEF Producing, Consuming
<1>3. \A p : ~HasPusher(p) /\ ~HasPopper(p)
  BY <1>2, Members DEF HasPusher, HasPopper
<1>4. dequeue_pos = enqueue_pos \/ dequeue_pos \in Abandoned
  <2> SUFFICES ASSUME dequeue_pos # enqueue_pos PROVE dequeue_pos \in Abandoned
    OBVIOUS
  <2>1. dequeue_pos \in Window /\ dequeue_pos \in dequeue_pos..(enqueue_pos - 1)
    BY <1>0 DEF Window
  <2>2. sequence[Cell(dequeue_pos)] = dequeue_pos
    BY <1>0, <1>1, <2>1 DEF IInv, CellInvariant, Window
  <2> QED
    BY <1>3, <2>1, <2>2 DEF Abandoned
<1>5. ASSUME NEW p \in Window
      PROVE  storage[Cell(p)] # Empty <=> p \in Unreleased \/ (p >= dequeue_pos /\ p \notin Abandoned)
  <2>0. p \in Int /\ enqueue_pos - Capacity <= p /\ p <= enqueue_pos - 1
    BY <1>0 DEF Window
  <2>1. CASE p >= dequeue_pos
    <3>1. p \notin Unreleased /\ p \in dequeue_pos..(enqueue_pos - 1)
      BY <1>0, <2>0, <2>1 DEF Unreleased
    <3>2. sequence[Cell(p)] = p \/ (sequence[Cell(p)] = p + 1 /\ storage[Cell(p)] # Empty)
      BY <2>1 DEF IInv, CellInvariant
    <3>3. p \in Abandoned <=> sequence[Cell(p)] = p
      BY <1>3, <3>1 DEF Abandoned
    <3> QED
      BY <2>0, <2>1, <3>1, <3>2, <3>3 DEF NeglectedCells
  <2>2. CASE p < dequeue_pos
    <3>1. p \in (enqueue_pos - Capacity)..(dequeue_pos - 1)
      BY <1>0, <2>0, <2>2
    <3>2. sequence[Cell(p)] = p + 1 \/ (sequence[Cell(p)] = p + Capacity /\ storage[Cell(p)] = Empty)
      BY <1>0, <2>0, <2>2 DEF IInv, CellInvariant
    <3>3. p \in Unreleased <=> sequence[Cell(p)] = p + 1
      BY <1>3, <3>1 DEF Unreleased
    <3> QED
      BY <1>0, <2>0, <2>2, <3>2, <3>3 DEF NeglectedCells
  <2> QED
    BY <1>0, <2>0, <2>1, <2>2
<1> QED
  BY <1>4, <1>5

\* The steps of other threads, all of them in an alive queue.
LEMMA OthersBeforeDestruction ==
  ASSUME IInv, Drains, NEW t \in Threads \ {Main},
         (t \in Producers /\ Emplace(t)) \/ (t \in Poppers /\ TryPop(t))
  PROVE  Drains' /\ OnlyNeglectedLeaks'
<1>0. TypeOK /\ Main \in Threads /\ t # Main
  BY Members DEF IInv
<1>1. lifetime = "alive" /\ pc[Main] = "idle"
  BY <1>0 DEF Drains, Emplace, TryPop, BeginEmplace, LoadEnqueuePos, EmplaceSeesFree,
     EmplaceSeesFull, EmplaceSeesTaken, ClaimEnqueue, RetryEnqueue, Construct, ConstructThrows,
     Publish, BeginTryPop, LoadDequeuePos, TryPopSeesItem, TryPopSeesEmpty, TryPopSeesTaken,
     ClaimDequeue, RetryDequeue, MoveOut, MoveOutThrows, Release
<1>2. lifetime' = "alive" /\ pc'[Main] = "idle"
  <2>1. CASE t \in Producers /\ Emplace(t)
    BY <1>0, <1>1, <2>1 DEF TypeOK, Emplace, BeginEmplace, LoadEnqueuePos, EmplaceSeesFree,
       EmplaceSeesFull, EmplaceSeesTaken, ClaimEnqueue, RetryEnqueue, Construct,
       ConstructThrows, Publish, Goto, Leave, shared
  <2>2. CASE t \in Poppers /\ TryPop(t)
    BY <1>0, <1>1, <2>2 DEF TypeOK, TryPop, BeginTryPop, LoadDequeuePos, TryPopSeesItem,
       TryPopSeesEmpty, TryPopSeesTaken, ClaimDequeue, RetryDequeue, MoveOut, MoveOutThrows,
       Release, Goto, Leave, shared
  <2> QED
    BY <2>1, <2>2
<1> QED
  BY <1>2 DEF Drains, OnlyNeglectedLeaks

\* The steps of the destructor's loop.
LEMMA DrainStep ==
  ASSUME IInv, NeglectedCells, Drains, TryPop(Main)
  PROVE  Drains' /\ OnlyNeglectedLeaks'
<1>0. TypeOK /\ Main \in Threads /\ Main \in Poppers
      /\ pc \in [Threads -> Locations] /\ pos \in [Threads -> Nat]
  BY Members, Positions DEF IInv
<1>1. lifetime = "draining" /\ ~SeesOld
  BY DEF Drains, TryPop, BeginTryPop, LoadDequeuePos, TryPopSeesItem, TryPopSeesEmpty,
     TryPopSeesTaken, ClaimDequeue, RetryDequeue, MoveOut, MoveOutThrows, Release, SeesOld
<1>2. \A t \in Threads \ {Main} : pc'[t] = "idle"
  BY <1>0, <1>1 DEF Drains, TryPop, BeginTryPop, LoadDequeuePos, TryPopSeesItem,
     TryPopSeesEmpty, TryPopSeesTaken, ClaimDequeue, RetryDequeue, MoveOut, MoveOutThrows,
     Release, Goto, Leave
<1>3. CASE TryPopSeesEmpty(Main)
  <2>1. pc'[Main] = "idle" /\ UNCHANGED <<enqueue_pos, dequeue_pos, storage>>
    BY <1>0, <1>3 DEF TryPopSeesEmpty, Leave, Goto
  <2>2. NeglectKept
    BY <1>0, <1>3, QuietPops DEF TryPopSeesEmpty, MoveOutThrows
  <2>3. OnlyNeglectedLeaks'
    BY <1>3, <2>1, <2>2, DrainedTo DEF OnlyNeglectedLeaks, NeglectKept, Window, Cell
  <2> QED
    BY <1>2, <2>1, <2>3 DEF Drains
<1>4. CASE LoadDequeuePos(Main) \/ RetryDequeue(Main)
  <2>1. lifetime' = "draining" /\ pos'[Main] = dequeue_pos'
    BY <1>0, <1>1, <1>4 DEF LoadDequeuePos, RetryDequeue, LoadsOfPos, shared
  <2> QED
    BY <1>2, <2>1 DEF Drains, OnlyNeglectedLeaks
<1>5. CASE TryPopSeesItem(Main)
  <2>1. lifetime' = "draining" /\ pos'[Main] = dequeue_pos'
    BY <1>0, <1>1, <1>5 DEF Drains, TryPopSeesItem, shared
  <2> QED
    BY <1>2, <2>1 DEF Drains, OnlyNeglectedLeaks
<1>6. CASE \/ BeginTryPop(Main) \/ TryPopSeesTaken(Main) \/ ClaimDequeue(Main)
           \/ MoveOut(Main) \/ MoveOutThrows(Main) \/ Release(Main)
  <2>1. lifetime' = "draining" /\ pc'[Main] \notin {"p_seq", "p_cas"}
    BY <1>0, <1>1, <1>6 DEF BeginTryPop, TryPopSeesTaken, ClaimDequeue, MoveOut, MoveOutThrows,
       Release, Goto, Leave, shared
  <2> QED
    BY <1>2, <2>1 DEF Drains, OnlyNeglectedLeaks
<1> QED
  BY <1>3, <1>4, <1>5, <1>6 DEF TryPop

LEMMA LInvStep ==
  ASSUME LInv, [Next]_vars
  PROVE  LInv'
<1>0. Main \in Threads /\ \A t \in Producers : t # Main
  BY Members
<1>1. IInv' /\ NeglectedCells'
  BY InvariantStep, NeglectedCellsStep DEF LInv
<1>2. Drains' /\ OnlyNeglectedLeaks'
  <2>1. CASE \E t \in Producers : Emplace(t)
    BY <1>0, <2>1, Members, OthersBeforeDestruction DEF LInv
  <2>2. CASE \E t \in Poppers : TryPop(t)
    BY <2>2, Members, OthersBeforeDestruction, DrainStep DEF LInv
  <2>3. CASE Close
    BY <2>3 DEF LInv, Close, Drains, OnlyNeglectedLeaks
  <2>4. CASE BeginDestructor
    BY <1>0, <2>4 DEF LInv, BeginDestructor, Drains, OnlyNeglectedLeaks
  <2>5. CASE UNCHANGED vars
    <3>1. UNCHANGED <<enqueue_pos, dequeue_pos, storage, lifetime, pc, pos, Abandoned, Unreleased, Window>>
      BY <2>5 DEF vars, shared, Abandoned, Unreleased, HasPusher, HasPopper, Producing, Consuming,
         Cell, Window
    <3> QED
      BY <3>1 DEF LInv, Drains, OnlyNeglectedLeaks, Cell
  <2> QED
    BY <2>1, <2>2, <2>3, <2>4, <2>5 DEF Next
<1> QED
  BY <1>1, <1>2 DEF LInv

LEMMA LeakInvariant == Spec => []LInv
<1>1. ASSUME Init
      PROVE  LInv
  <2>1. IInv
    BY <1>1, InitialInvariant
  <2>2. NeglectedCells
    BY <1>1, InitNeglectsNothing DEF NeglectedCells
  <2> QED
    BY <1>1, <2>1, <2>2, Members DEF Init, LInv, Drains, OnlyNeglectedLeaks
<1>2. LInv /\ [Next]_vars => LInv'
  BY LInvStep
<1> QED
  BY <1>1, <1>2, PTL DEF Spec

\* What a destroyed queue leaves alive is exactly what a throw made it leave: the
\* objects that could not be moved out, and all that was pushed behind the place of
\* a constructor that threw.
THEOREM DestructionLeavesTheNeglected == Spec => []OnlyNeglectedLeaks
<1>1. LInv => OnlyNeglectedLeaks
  BY DEF LInv
<1> QED
  BY <1>1, LeakInvariant, PTL

LEMMA CellOfCell ==
  ASSUME NEW i \in Cells
  PROVE  i \in Nat /\ Cell(i) = i
BY CapacityAssumption DEF Cells, Cell

\* So nothing leaks where nothing throws, whatever calls came before: pushes and pops
\* that lost their race, on old loads or new ones, have left no cell half done.
THEOREM DestructionLeavesNothing ==
  ASSUME ~MayThrow
  PROVE  Spec => []NothingLeaks
<1>1. ASSUME LInv, Tended, lifetime = "gone", NEW i \in Cells
      PROVE  storage[i] = Empty
  <2>0. enqueue_pos \in Nat /\ dequeue_pos \in Nat
    BY <1>1, Positions DEF LInv
  <2>1. PICK p \in Window : Cell(p) = i
    BY <2>0, CellOfCell, CellInWindow
  <2>2. p < dequeue_pos
    BY <1>1, <2>0, CapacityAssumption DEF LInv, OnlyNeglectedLeaks, Tended, Window
  <2> QED
    BY <1>1, <2>0, <2>1, <2>2, CapacityAssumption DEF LInv, OnlyNeglectedLeaks, Tended, Window
<1>2. LInv /\ Tended => NothingLeaks
  BY <1>1 DEF NothingLeaks
<1> QED
  BY <1>2, LeakInvariant, TendedInvariant, PTL
=============================================================================
