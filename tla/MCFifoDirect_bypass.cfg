CONSTANTS
  Depth = 3
  RamDepth = 4
  EnableBypass = TRUE
  Data = {d1, d2}
  NoData = NoData
SPECIFICATION DirectSpec
INVARIANTS TypeOK FlagsCoherent PointersEnclose
PROPERTIES PopStable ImplementsQueue
