CONSTANTS
  Depth = 5
  RamDepth = 3
  EnableBypass = TRUE
  RamReadLatency = 2
  RegisterPopOutputs = FALSE
  Data = {d1, d2}
  NoData = NoData
SPECIFICATION EitherSpec
INVARIANTS EntriesStaged RamSuffices
PROPERTIES OfferStable ShownInTime EitherIsQueue Delivers
