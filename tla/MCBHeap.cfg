\* Five keys in a heap of three levels.
SPECIFICATION Spec
CONSTANTS
  Keys = {1, 2, 3, 4, 5}
  Rank <- RankOfFive
  Capacity = 6
INVARIANTS
  TypeOK
  HeapOrder
  MovingOrder
PROPERTY
  ImplementsPriorityQueue
