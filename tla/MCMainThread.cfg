CONSTANTS
  Task <- Tasks
  Low = {"low"}
  Promised = {"promise"}
  Threaded = {"thread"}
  Capacity = 3
  Chunk = 2
  Spawners = 1
SPECIFICATION FairSpec
INVARIANTS TypeOK QueuedOnce NoMissedWakeup
PROPERTIES HighRuns LowRuns PromisesKept
