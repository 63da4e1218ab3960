SPECIFICATION FairSoloSpec
CONSTANTS
  Cores = {0}
  NumberOfRegisters = 4
  RegisterBits = 3
  ImmediateBits = 2
  TargetBits = 2
  PcBits = 3
  Quirks = {"zero", "immediate", "target", "link", "halt"}
  InstructionsMemorySize = 10
  Programs <- AllPrograms
  CellOf <- MCCellOf
  Data <- MCData
INVARIANTS
  IsaInv
  CrashesOnlyStrayed
PROPERTIES
  ImplementsIsaUnlessStrayed
  RetriesSameAccess
  HazardEnds
  HaltDrains
