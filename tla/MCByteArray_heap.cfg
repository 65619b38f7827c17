CONSTANTS
  BaseSize <- MCBaseSize
  CtorNodeSize <- MCCtorNodeSize
  MaxNodes <- MCMaxNodes
  SizeMod <- MCSizeMod
  Lengths <- MCLengths
  Offsets <- MCOffsets
SPECIFICATION ChainSpec
INVARIANT OwnedBlocks
PROPERTY SpansTileChain
PROPERTY DestroyReleasesAll
CHECK_DEADLOCK FALSE
VIEW HeapView
