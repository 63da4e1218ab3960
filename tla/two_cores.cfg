SPECIFICATION FairSpec
CONSTANTS
  NumberOfCores = 2
  FrameSize = 1
  NumberOfTags = 2
  BlockSize = 2
  Words = {0}
  Latency = 1
  Memin <- MCMemin
  Workload <- AnyAccess
INVARIANTS
  TypeOK
  TransactionLedger
  EvictionPaired
  BurstInStep
  SingleOwner
PROPERTIES
  GapGuardsUpgrade
  BusServesEveryone
  StallsOnlyWhenContended
