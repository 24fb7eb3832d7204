CONSTANTS
  Depth = 2
  CountWidth = 2
  RegisterResetActive = 1
  RamWriteLatency = 2
  NumSyncStages = 2
  MinReset = 4
  Data = {d1, d2}
  NoData = NoData
SPECIFICATION FairSpec
INVARIANTS CountsInRange FlagsConservative
PROPERTIES NewsGetsThrough ResetOverlap SingleBitChange ImplementsQueue
