CONSTANTS
  NumFifos = 2
  Depth = 4
  NumWritePorts = 1
  NumReadPorts = 1
  NumLinkedListsPerFifo = 2
  StagingBufferDepth = 1
  RegisterPopOutputs = FALSE
  RegisterDeallocation = FALSE
  DataRamReadLatency = 1
  PointerRamReadLatency = 1
  Data = {plain, marked}
  Plain = plain
  MaxMarked = 1
  NoData = NoData
SPECIFICATION FairSpec
INVARIANT HoldsWhatWasPushed
PROPERTIES EveryEntryLeaves PoolRecovers
