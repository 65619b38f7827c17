CONSTANTS
  BaseSize <- MCBaseSize
  CtorNodeSize <- MCCtorNodeSize
  MaxNodes <- MCMaxNodes
  SizeMod <- MCSizeMod
  Lengths <- MCShortLengths
  Offsets <- MCOffsets
SPECIFICATION CursorSpec
INVARIANT TypeOK
 
PROPERTY ReadIsStorageSlice
PROPERTY RefinesStream
CHECK_DEADLOCK FALSE
