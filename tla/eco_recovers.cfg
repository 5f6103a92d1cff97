SPECIFICATION Spec
CONSTANTS
  Temps <- SomeTemps
  Loads <- SomeLoads
  EcoTemp = 75
  EcoLoad = 100
  Threads = 3
  MaxRun = 4
INVARIANTS RecoversAfterThree
