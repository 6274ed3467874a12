\* Every pattern of collisions of four keys on tables of two and four slots.
SPECIFICATION Spec
CONSTANTS
  Keys = {1, 2, 3, 4}
  Values = {v1, v2}
  MaxCapacity = 4
  Hashes <- AnyHash
  Empty = Empty
  Absent = Absent
INVARIANTS
  TypeOK
  CountExact
PROPERTY
  OthersKept
