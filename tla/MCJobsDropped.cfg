\* A dispatch of more groups than the queues hold.
SPECIFICATION FairPunctualSpec
CONSTANTS
  WordSize = 4
  NumThreads = 1
  Main = Main
  QueueBound = 1
  Handles = {h1}
  Calls <- ThreeGroups
  MaxCalls = 1
  StartValues = {0}
  NoHandle = NoHandle
  NoJob = NoJob
  NoView = NoView
PROPERTIES
  EveryWaitReturns
\* After Shutdown everybody may be asleep or gone.
CHECK_DEADLOCK FALSE
