SPECIFICATION Spec
CONSTANTS
  c1 = c1
  c2 = c2
  r1 = r1
  r2 = r2
  r3 = r3
  r4 = r4
  b1 = b1
  Conns <- TwoConns
  Requests <- Few
  Origin <- FewFrom
  Async <- FewAsync
  CloseAfter <- FewClose
  Huge <- None
  Beats <- NoBeats
  Capacity = 1
  Parallelism = 1
  FlushPolls = 1
INVARIANTS NoReadAfterFree
CHECK_DEADLOCK FALSE
