SPECIFICATION FairSpec
CONSTANTS
  w1 = w1
  w2 = w2
  w3 = w3
  t1 = t1
  t2 = t2
  t3 = t3
  c1 = c1
  NoTask = NoTask
  Workers <- ThreeWorkers
  Waiters <- OneWaiter
  Tasks <- ThreeTasks
  Cap = 2
  Requests <- AllRequests
INVARIANTS NoLostWakeup NoStrandedWaiter NothingLost DrainedBeforeFreed
PROPERTIES ThrottleRespected EveryTaskRuns CallsReturn ImplementsTaskQueue
CHECK_DEADLOCK FALSE
