SPECIFICATION AssemblerSpec
CONSTANTS
  ImemSize = 5
  DmemSize = 4
  ImmediateBits = 3
  LineBits = 1
  Lines <- MCLines
  MaxLines = 4
INVARIANTS
  FirstPassInv
  AssemblesSource
  RejectsOnlyFaults
  FilesLoadBack
CHECK_DEADLOCK FALSE
