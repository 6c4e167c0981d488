---------------------- MODULE NormalizeCapacity_proofs ----------------------
(***************************************************************************)
(* normalize_capacity for words of any width.  Of the powers of two only   *)
(* WordsAssumption is used.                                                *)
(***************************************************************************)
EXTENDS NormalizeCapacity, TLAPS

\* Nothing but the last power of two loses its bit when it is doubled.
LEMMA Doubling ==
  ASSUME NEW p \in PowersOfTwo
  PROVE  /\ p \in Nat /\ p > 0
         /\ 2 * p \in PowersOfTwo => (2 * p) % Words = 2 * p
         /\ 2 * p \notin PowersOfTwo => 2 * p = Words /\ (2 * p) % Words = 0
<1>1. p \in 1..(Words - 1) /\ Words \in Nat
  BY WordsAssumption
<1>2. CASE 2 * p \in PowersOfTwo
  <2>1. 2 * p < Words
    BY <1>1, <1>2, WordsAssumption
  <2> QED
    BY <1>1, <1>2, <2>1
<1>3. CASE 2 * p \notin PowersOfTwo
  <2>1. 2 * p = Words
    BY <1>3, WordsAssumption
  <2>2. Words % Words = 0
    BY <1>1
  <2> QED
    BY <1>1, <1>3, <2>1, <2>2
<1> QED
  BY <1>2, <1>3

\* The loop keeps IInv.
LEMMA ShiftKeepsInvariant ==
  ASSUME IInv, Shift
  PROVE  IInv'
<1>1. /\ capacity \in Nat /\ normalized \in Nat /\ Words \in Nat /\ Words > 2
      /\ \A p \in PowersOfTwo : p \in Nat
  BY WordsAssumption DEF IInv, TypeOK
<1>2. /\ capacity' = capacity /\ normalized < capacity
      /\ normalized' = (2 * normalized) % Words
      /\ returned = FALSE /\ returned' = FALSE
  BY DEF Shift, IInv, TypeOK
<1>3. CASE normalized = 0
  <2>1. normalized' = 0
    BY <1>1, <1>2, <1>3
  <2> QED
    BY <1>2, <1>3, <2>1 DEF IInv, TypeOK, Representable
<1>4. CASE normalized # 0 /\ 2 * normalized \in PowersOfTwo
  <2>1. normalized \in PowersOfTwo
    BY <1>4 DEF IInv
  <2>2. normalized' = 2 * normalized
    BY <1>2, <1>4, <2>1, Doubling
  <2>3. ASSUME NEW p \in PowersOfTwo, p < normalized'
        PROVE  p < capacity
    <3>1. ~(normalized < p)
      BY <1>1, <2>1, <2>2, <2>3, WordsAssumption
    <3> QED
      BY <1>1, <1>2, <3>1
  <2>4. normalized' \in 0..(Words - 1) /\ normalized' # 0
    BY <1>1, <1>4, <2>2, WordsAssumption
  <2> QED
    BY <1>2, <1>4, <2>2, <2>3, <2>4 DEF IInv, TypeOK
<1>5. CASE normalized # 0 /\ 2 * normalized \notin PowersOfTwo
  <2>1. normalized \in PowersOfTwo
    BY <1>5 DEF IInv
  <2>2. normalized' = 0 /\ 2 * normalized = Words
    BY <1>2, <1>5, <2>1, Doubling
  <2>3. ASSUME NEW p \in PowersOfTwo, p >= capacity
        PROVE  FALSE
    <3>1. normalized < p
      BY <1>1, <1>2, <2>3
    <3>2. 2 * normalized <= p
      BY <2>1, <3>1, WordsAssumption
    <3> QED
      BY <1>1, <2>2, <3>2, WordsAssumption
  <2>4. TypeOK'
    <3>1. 0 \in 0..(Words - 1)
      BY <1>1
    <3> QED
      BY <1>2, <2>2, <3>1 DEF IInv, TypeOK
  <2> QED
    BY <1>2, <2>2, <2>3, <2>4 DEF IInv, Representable
<1> QED
  BY <1>3, <1>4, <1>5

\* So does the last line of the function.
LEMMA ReturnKeepsInvariant ==
  ASSUME IInv, Return
  PROVE  IInv'
<1>1. /\ capacity \in Nat /\ normalized \in Nat /\ Words \in Nat /\ Words > 2
      /\ \A p \in PowersOfTwo : p \in Nat /\ p > 0
      /\ 1 \in PowersOfTwo
  BY WordsAssumption DEF IInv, TypeOK
<1>2. normalized # 0
  BY <1>1 DEF Return, IInv, Representable
<1>3. 2 \in PowersOfTwo
  <2>1. 2 * 1 \in PowersOfTwo \cup {Words}
    BY WordsAssumption
  <2> QED
    BY <1>1, <2>1
<1>4. /\ capacity' = capacity /\ returned'
      /\ normalized' = IF normalized < 2 THEN 2 ELSE normalized
      /\ normalized >= capacity
  BY DEF Return
<1>5. normalized' \in PowersOfTwo /\ normalized' >= 2 /\ normalized' >= capacity
  BY <1>1, <1>2, <1>3, <1>4 DEF IInv
<1>6. ASSUME NEW p \in PowersOfTwo, p < normalized'
      PROVE  p < capacity \/ normalized' = 2
  BY <1>1, <1>2, <1>4, <1>6 DEF IInv
<1>7. normalized' \in 0..(Words - 1)
  BY <1>1, <1>5, WordsAssumption
<1> QED
  BY <1>1, <1>4, <1>5, <1>6, <1>7 DEF IInv, TypeOK

LEMMA InvariantHolds == SafeSpec => []IInv
<1>1. ASSUME Init
      PROVE  IInv
  <2>1. TypeOK /\ normalized = 1 /\ returned = FALSE
    <3>1. 1 \in 0..(Words - 1)
      BY WordsAssumption
    <3> QED
      BY <1>1, <3>1, Zenon DEF Init, TypeOK
  <2>2. \A p \in PowersOfTwo : ~(p < normalized)
    BY <2>1, WordsAssumption
  <2>3. normalized \in PowersOfTwo /\ normalized # 0
    BY <2>1, WordsAssumption
  <2>4. ~returned
    BY <2>1
  <2> QED
    BY <2>1, <2>2, <2>3, <2>4, SMT DEF IInv
<1>2. IInv /\ [Next]_vars => IInv'
  <2>1. ASSUME IInv, UNCHANGED vars
        PROVE  IInv'
    BY <2>1 DEF vars, IInv, TypeOK, Representable
  <2> QED
    BY <2>1, ShiftKeepsInvariant, ReturnKeepsInvariant DEF Next
<1> QED
  BY <1>1, <1>2, PTL DEF SafeSpec

\* Whatever the width of a word: if the constructor returns, the capacity is the
\* smallest power of two, from two on, that is not below the one asked for.
THEOREM ReturnsSmallestPower == SafeSpec => []SmallestPowerOfTwo
<1>1. IInv => SmallestPowerOfTwo
  <2> SUFFICES ASSUME IInv, returned
               PROVE  /\ normalized \in PowersOfTwo
                      /\ normalized >= 2 /\ normalized >= capacity
                      /\ \A p \in PowersOfTwo : p >= 2 /\ p >= capacity => normalized <= p
    BY DEF SmallestPowerOfTwo
  <2>1. /\ normalized \in PowersOfTwo /\ normalized >= 2 /\ normalized >= capacity
        /\ normalized \in Nat /\ capacity \in Nat
    BY WordsAssumption DEF IInv, TypeOK
  <2>2. ASSUME NEW p \in PowersOfTwo, p >= 2, p >= capacity
        PROVE  normalized <= p
    <3>1. p \in Nat
      BY WordsAssumption
    <3>2. p < normalized => p < capacity \/ normalized = 2
      BY <2>1, <2>2 DEF IInv
    <3> QED
      BY <2>1, <2>2, <3>1, <3>2
  <2> QED
    BY <2>1, <2>2
<1> QED
  BY <1>1, InvariantHolds, PTL

\* The constructor does not return for a capacity no power of two reaches.
THEOREM NoReturnAbove == SafeSpec => [](returned => Representable)
<1>1. IInv => (returned => Representable)
  BY DEF IInv, Representable
<1> QED
  BY <1>1, InvariantHolds, PTL
=============================================================================
