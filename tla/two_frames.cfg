SPECIFICATION CoherenceSpec
CONSTANTS
  NumberOfCores = 2
  FrameSize = 2
  NumberOfTags = 2
  BlockSize = 2
  Words = {0, 1}
  Latency = 1
  Memin <- MCMemin
  Workload <- TwoFrames
INVARIANTS
  NoConflictInv
PROPERTIES
  OwnerSuppliesBlock
  MemoryTakesItsTime
  OnlyStoresSpoil
