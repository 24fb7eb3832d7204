CONSTANTS
  Depth = 2
  CountWidth = 2
  RegisterResetActive = 1
  RamWriteLatency = 1
  NumSyncStages = 1
  MinReset = 1
  Data = {d1}
  NoData = NoData
SPECIFICATION Spec
INVARIANT CountsInRange
