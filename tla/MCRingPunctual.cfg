\* Two consumers, none overtaken by a whole lap; every thread is scheduled.
SPECIFICATION FairPunctualSpec
CONSTANTS
  Consumers = {c1, c2}
  Capacity = 3
  MaxEnqueues = 5
  NoView = NoView
INVARIANTS
  TypeOK
  OnlyPublishedIsClaimed
  ExactlyOnce
PROPERTIES
  FifoPerConsumer
  ImplementsFifo
  AllDelivered
