CONSTANTS
  Words = 64
  PowersOfTwo = {1, 2, 4, 8, 16, 32}

SPECIFICATION Spec
CHECK_DEADLOCK FALSE

INVARIANTS
  SmallestPowerOfTwo
  MaskPicksCells
PROPERTY
  ReturnsIfRepresentable
