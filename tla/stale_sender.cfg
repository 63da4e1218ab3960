SPECIFICATION Spec
CONSTANTS
  NumberOfCores = 2
  FrameSize = 1
  NumberOfTags = 2
  BlockSize = 2
  Words = {0, 1}
  Latency = 1
  Memin <- MCMemin
  Workload <- StaleSender
PROPERTIES
  OwnerSuppliesBlock
