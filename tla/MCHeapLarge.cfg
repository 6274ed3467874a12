\* Blocks for the list Large, which merges neighbours.
SPECIFICATION Spec
CONSTANTS
  MemSize = 13
  GENERALPURPOSE_BUCKETS = 0
  Requests = {2, 5}
  Null = Null
INVARIANT OwnedOnce
