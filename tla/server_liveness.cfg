SPECIFICATION FairSpec
CONSTANTS
  c1 = c1
  c2 = c2
  r1 = r1
  r2 = r2
  r3 = r3
  r4 = r4
  b1 = b1
  Conns <- TwoConns
  Requests <- Mixed
  Origin <- LargeFrom
  Async <- LargeAsync
  CloseAfter <- LargeClose
  Huge <- LargeHuge
  Beats <- NoBeats
  Capacity = 1
  Parallelism = 1
  FlushPolls = 1
INVARIANTS ReplyOnlyOnce
PROPERTIES EveryRequestAnswered StopEnds
CHECK_DEADLOCK FALSE
