------------------------- MODULE NormalizeCapacity -------------------------
(***************************************************************************)
(* normalize_capacity, with which the constructors of the atomic queues    *)
(* and of SpscBoundedQueue make the requested capacity a power of two, so  *)
(* that pos & (capacity_ - 1) picks a cell.  One step per iteration of its *)
(* loop, on unsigned integers modulo Words.                                *)
(***************************************************************************)
EXTENDS Naturals

CONSTANTS Words,        \* number of values of std::size_t
          PowersOfTwo   \* the ones a std::size_t can hold

\* What is used of the powers of two: doubling leads from each to the next, and
\* from the last to Words.
ASSUME WordsAssumption ==
  /\ Words \in Nat /\ Words > 2
  /\ PowersOfTwo \subseteq 1..(Words - 1)
  /\ 1 \in PowersOfTwo
  /\ \A p \in PowersOfTwo : 2 * p \in PowersOfTwo \cup {Words}
  /\ \A p, q \in PowersOfTwo : p < q => 2 * p <= q

VARIABLES capacity,    \* the argument
          normalized,  \* the local variable
          returned     \* the call has returned normalized

vars == <<capacity, normalized, returned>>

Init ==
  /\ capacity \in 0..(Words - 1)
  /\ normalized = 1
  /\ returned = FALSE

\* Mutant of Shift: the loop goes on until normalized exceeds the capacity.
Shift_BeyondEqual ==
  /\ ~returned
  /\ normalized <= capacity
  /\ normalized' = (2 * normalized) % Words
  /\ UNCHANGED <<capacity, returned>>

\* Mutant of Shift: an increment.
Shift_PlusOne ==
  /\ ~returned
  /\ normalized < capacity
  /\ normalized' = (normalized + 1) % Words
  /\ UNCHANGED <<capacity, returned>>

\* normalized <<= 1U drops the highest bit.
Shift ==
  /\ ~returned
  /\ normalized < capacity
  /\ normalized' = (2 * normalized) % Words
  /\ UNCHANGED <<capacity, returned>>

\* Mutant of Return: the loop also ends when the shift has lost the bit.
Return_OnOverflow ==
  /\ ~returned
  /\ normalized >= capacity \/ normalized = 0
  /\ normalized' = IF normalized < 2 THEN 2 ELSE normalized
  /\ returned' = TRUE
  /\ UNCHANGED capacity

Return ==
  /\ ~returned
  /\ normalized >= capacity
  /\ normalized' = IF normalized < 2 THEN 2 ELSE normalized
  /\ returned' = TRUE
  /\ UNCHANGED capacity

Next == Shift \/ Return

SafeSpec == Init /\ [][Next]_vars
Spec == SafeSpec /\ WF_vars(Next)

-----------------------------------------------------------------------------
(* Properties.                                                             *)

TypeOK ==
  /\ capacity \in 0..(Words - 1)
  /\ normalized \in 0..(Words - 1)
  /\ returned \in BOOLEAN

Representable == \E p \in PowersOfTwo : p >= capacity

\* normalized is a power of two and those below it were too small; or all of them
\* were, and it is 0.
IInv ==
  /\ TypeOK
  /\ normalized # 0 =>
       /\ normalized \in PowersOfTwo
       /\ \A p \in PowersOfTwo : p < normalized => p < capacity \/ normalized = 2
  /\ normalized = 0 => ~returned /\ ~Representable
  /\ returned => normalized >= 2 /\ normalized >= capacity

\* The queue gets the smallest power of two, from two on, that holds what was
\* asked for; there is one.
SmallestPowerOfTwo ==
  returned =>
    /\ normalized \in PowersOfTwo
    /\ normalized >= 2 /\ normalized >= capacity
    /\ \A p \in PowersOfTwo : p >= 2 /\ p >= capacity => normalized <= p

\* The constructor comes to an end exactly when such a power of two exists: for a
\* capacity above half of Words the loop goes on with 0 for ever.
ReturnsIfRepresentable ==
  /\ Representable => <>returned
  /\ ~Representable => []~returned
=============================================================================
