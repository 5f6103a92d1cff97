SPECIFICATION FairSpec
CONSTANTS
  f0 = f0
  f1 = f1
  f2 = f2
  f3 = f3
  f4 = f4
  f5 = f5
  Frames <- Several
  Size <- SeveralSize
  Cap = 6
  Header = 2
  MaxCrashes = 1
INVARIANTS NoRace LengthAlwaysWhole
PROPERTIES ImplementsChannel EveryMessageArrives
CHECK_DEADLOCK FALSE
