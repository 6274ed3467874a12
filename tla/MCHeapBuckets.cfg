\* Blocks of one and of two units, which go to buckets.
SPECIFICATION Spec
CONSTANTS
  MemSize = 7
  GENERALPURPOSE_BUCKETS = 3
  Requests = {1, 2}
  Null = Null
INVARIANTS
  TypeOK
  EachUnitInOnePlace
  ListsLinked
