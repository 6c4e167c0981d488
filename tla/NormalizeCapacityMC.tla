------------------------ MODULE NormalizeCapacityMC ------------------------
(***************************************************************************)
(* The capacity seen from the queues: their models reduce an index modulo  *)
(* Capacity and assume that Words is a multiple of it, while the code      *)
(* masks the index, which may have wrapped around.                         *)
(***************************************************************************)
EXTENDS NormalizeCapacity, Bitwise

mask == normalized - 1  \* mask_

\* Masking an index of any value is reduction modulo the capacity, and neighbours
\* get neighbouring cells even where the index wraps around.
MaskPicksCells ==
  returned =>
    \A index \in 0..(Words - 1) :
      /\ index & mask = index % normalized
      /\ ((index + 1) % Words) & mask = ((index & mask) + 1) % normalized
=============================================================================
