CONSTANTS
  a = a
  b = b
  c = c
  i = i
  j = j
  NullCol = NullCol
  ColNames <- MCColNames
  IdxNames <- MCIdxNames
  IdxCols <- MCIdxCols
  MaxCols <- MCMaxCols
  MaxIdxs <- MCMaxIdxs
SPECIFICATION Spec
INVARIANT TypeOK
INVARIANT InitAcceptsValid
INVARIANT PKColumnsResolve
INVARIANT UpdateSetsFlagged
CHECK_DEADLOCK FALSE
