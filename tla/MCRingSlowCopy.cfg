\* Two consumers at any speed, as the code allows.
SPECIFICATION Spec
CONSTANTS
  Consumers = {c1, c2}
  Capacity = 3
  MaxEnqueues = 6
  NoView = NoView
INVARIANT
  NoDataRace
