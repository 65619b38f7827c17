CONSTANTS
  BaseSize <- MCBaseSize
  CtorNodeSize <- MCCtorNodeSize
  MaxNodes <- MCMaxNodes
  SizeMod <- MCSizeMod
  Lengths <- MCLengths
  Offsets <- MCOffsets
SPECIFICATION DrainSpec
CHECK_DEADLOCK FALSE
PROPERTY DrainWritesReadable
