SPECIFICATION FairSpec
CONSTANTS
  k1 = k1
  k3 = k3
  Keys <- TwoKeys
  Hash <- TwoHash
  Texts = {text}
  MaxNumber = 1
  TTLs = {0, 1}
  MaxClock = 1
  Buckets = 2
  Listers = {l}
  Sweepers = {s}
INVARIANTS TableSound
PROPERTIES ImplementsTable Reclaimed
CHECK_DEADLOCK FALSE
