\* Every pattern of collisions of five keys on four buckets, which may all be used.
SPECIFICATION FairSpec
CONSTANTS
  Keys = {1, 2, 3, 4, 5}
  Values = {v1, v2}
  Capacity = 4
  MaxCount = 4
  Hashes <- Patterns
  Empty = Empty
  NoBucket = NoBucket
  Absent = Absent
  Pending = Pending
INVARIANTS
  TypeOK
  RobinHood
  EachKeyOnce
  IndexOfKey
PROPERTIES
  ImplementsMap
  EveryCallReturns
