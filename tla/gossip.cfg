SPECIFICATION Spec
CONSTANTS
  a = a
  b = b
  c = c
  Nodes <- Three
  Founders <- Two
  Seeds <- ThroughA
  Suspect = 2
  Dead = 3
  Fanout = 3
  SeedPeriod = 2
  Delay = 0
  MaxClock = 6
  MaxCrashes = 1
INVARIANTS NewsIsReal DetectedInTime
PROPERTIES NeverGoesBack TheDeadStayDead
CHECK_DEADLOCK FALSE
