SPECIFICATION FairSpec
CONSTANTS
  m0 = m0
  m1 = m1
  m2 = m2
  big = big
  deep = deep
  fine = fine
  odd = odd
  TokenSize = 4
  Trees <- SomeTrees
  sameTree <- equals
  NoTree <- None
  MaxFaults = 3
  Messages = {m0, m1, m2, big}
  Size <- Sizes
  MaxFrame = 2
  Requests = {deep, odd}
  Policies = {"lax", "strict"}
  Verdict <- Opinion
  MaxEnables = 2
  Plugins = {p1, p2}
  Jobs = {j1, j2}
  Temps <- SomeTemps
  Loads <- SomeLoads
  EcoTemp = 75
  EcoLoad = 100
  Threads = 3
  MaxRun = 4
  Keys = {k}
  Lasting = {lasting}
  Mortal = {mortal}
  TTL = 2
  Savers = {s1}
  MaxClock = 3
  MaxCrashes = 2
INVARIANTS ClientShowsAVersion ClientCatchesUp MovesLoseNothing MasksOneFault GateHolds
  NoCallIntoAClosedLibrary SnapshotSound
PROPERTIES ImplementsChannel EveryForwardEnds Hysteresis
CHECK_DEADLOCK FALSE
