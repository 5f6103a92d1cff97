SPECIFICATION Spec
CONSTANTS
  c1 = c1
  c2 = c2
  r1 = r1
  r2 = r2
  r3 = r3
  r4 = r4
  b1 = b1
  Conns <- TwoConns
  Requests <- Mixed
  Origin <- MixedFrom
  Async <- MixedAsync
  CloseAfter <- MixedClose
  Huge <- None
  Beats <- OneBeat
  Capacity = 1
  Parallelism = 2
  FlushPolls = 2
INVARIANTS AnswersInOrder EveryJobInOnePlace BusyMeansJob
CHECK_DEADLOCK FALSE
