\* Dispatches whose last group is cut short, and queues of one group: some groups
\* are refused, and the third of a queue could overwrite a slot not yet copied.
SPECIFICATION PunctualSpec
CONSTANTS
  WordSize = 8
  NumThreads = 2
  Main = Main
  QueueBound = 1
  Handles = {h1}
  Calls <- UnevenGroups
  MaxCalls = 2
  StartValues = {7}
  NoHandle = NoHandle
  NoJob = NoJob
  NoView = NoView
INVARIANTS
  TypeOK
  CounterExact
  JobsRunOnce
  NoStrandedJob
\* After Shutdown everybody may be asleep or gone.
CHECK_DEADLOCK FALSE
