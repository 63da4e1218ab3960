SPECIFICATION SoloSpec
CONSTANTS
  Cores = {0}
  NumberOfRegisters = 4
  RegisterBits = 3
  ImmediateBits = 2
  TargetBits = 3
  PcBits = 3
  Quirks = {}
  InstructionsMemorySize = 10
  Programs <- JalPrograms
  CellOf <- MCCellOf
  Data <- MCData
PROPERTIES
  ImplementsIsaUnlessStrayed
