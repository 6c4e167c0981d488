CONSTANTS
  Count = 10
  Empty = Empty
  Capacity = 4
  Words = 8
  Values = {1, 2, 3, 4, 5, 6, 7, 8, 9, 10}

SPECIFICATION HSpec
CHECK_DEADLOCK FALSE

INVARIANT
  NothingLostOrReordered
PROPERTY
  AllReceived
