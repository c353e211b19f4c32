SPECIFICATION FairSpec
CONSTANTS
  WindowLen = 2
  Share <- MCShare
  MaxCycle = 1
  Interval = {0, 1}
  Percent = 50
  MaxDatagram = 2
  MaxWorkers = 3
  MaxRamp = 1
  DevWorkers = 4
  Curve = {0, 3}
  RatioDeficits = {1}
  Loaded <- MCLoaded
  MaxTime = 3
  MaxEdits = 1
  MaxFaults = 1
INVARIANTS
  WindowCeiling
  NothingForgotten
  StopTakesEffect
  RampIsLimited
PROPERTY
  SignalEndsIt
CHECK_DEADLOCK FALSE
