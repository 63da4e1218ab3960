SPECIFICATION CoherenceSpec
CONSTANTS
  NumberOfCores = 3
  FrameSize = 1
  NumberOfTags = 2
  BlockSize = 2
  Words = {0, 1}
  Latency = 1
  Memin <- MCMemin
  Workload <- ThreeCores
INVARIANTS
  CoherentUnlessSpoiled
  DataInv
  TransactionLedger
PROPERTIES
  OwnEvictionWritesBack
