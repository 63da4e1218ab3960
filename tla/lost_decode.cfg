SPECIFICATION SoloSpec
CONSTANTS
  Cores = {0}
  NumberOfRegisters = 4
  RegisterBits = 3
  ImmediateBits = 2
  TargetBits = 3
  PcBits = 3
  Quirks = {"immediate"}
  InstructionsMemorySize = 10
  Programs <- EntangledPrograms
  CellOf <- MCCellOf
  Data <- MCData
PROPERTIES
  ImplementsIsa
