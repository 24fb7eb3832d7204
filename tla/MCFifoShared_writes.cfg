CONSTANTS
  NumFifos = 2
  Depth = 5
  NumWritePorts = 2
  NumReadPorts = 2
  NumLinkedListsPerFifo = 1
  StagingBufferDepth = 1
  RegisterPopOutputs = FALSE
  RegisterDeallocation = TRUE
  DataRamReadLatency = 0
  PointerRamReadLatency = 0
  Data = {plain, marked}
  Plain = plain
  MaxMarked = 1
  NoData = NoData
SPECIFICATION Spec
INVARIANTS EntriesAccounted ListsInTurn HoldsWhatWasPushed DeliversOldest
