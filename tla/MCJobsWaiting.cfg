\* Two handles, waited for in any order, and every thread is scheduled.
SPECIFICATION FairPunctualSpec
CONSTANTS
  WordSize = 4
  NumThreads = 2
  Main = Main
  QueueBound = 1
  Handles = {h1, h2}
  Calls = {}
  MaxCalls = 2
  StartValues = {3}
  NoHandle = NoHandle
  NoJob = NoJob
  NoView = NoView
PROPERTIES
  ImplementsJobSystem
  WaitReturns
  AcceptedJobRuns
\* After Shutdown everybody may be asleep or gone.
CHECK_DEADLOCK FALSE
