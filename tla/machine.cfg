SPECIFICATION FairMachineSpec
CONSTANTS
  NumberOfCores = 2
  FrameSize = 2
  NumberOfTags = 2
  BlockSize = 2
  Words <- Values
  Latency = 1
  Memin <- MCMemin
  Workload <- AnyAccess
  NumberOfRegisters = 4
  RegisterBits = 3
  ImmediateBits = 3
  TargetBits = 3
  PcBits = 3
  Quirks = {"zero", "immediate", "target", "link", "halt"}
  InstructionsMemorySize = 10
  Programs <- MCPrograms
  CounterBits = 5
INVARIANTS
  MachineInv
  StalledOnItsAccess
  QuietAtEnd
  FifoHoldsQueue
  StatisticsAddUp
  CountersAccounted
  HitsAccountedInSum
PROPERTIES
  SequentiallyConsistent
  ImplementsMemorySystem
  EndsUnlessContended
