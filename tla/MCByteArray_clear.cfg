CONSTANTS
  BaseSize <- MCBaseSize
  CtorNodeSize <- MCCtorNodeSize
  MaxNodes <- MCMaxNodes
  SizeMod <- MCSizeMod
  Lengths <- MCLengths
  Offsets <- MCOffsets
SPECIFICATION Spec
INVARIANT ClearReleasesChain
CHECK_DEADLOCK FALSE
