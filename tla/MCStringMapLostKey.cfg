\* Keys whose homes differ.
SPECIFICATION Spec
CONSTANTS
  Keys = {1, 2, 3}
  Values = {v1}
  MaxCapacity = 4
  Hashes <- AnyHash
  Empty = Empty
  Absent = Absent
INVARIANT FoundIfHeld
