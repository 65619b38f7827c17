CONSTANTS
  t1 = t1
  t2 = t2
  t3 = t3
  None = None
  Threads <- MCThreads
  MaxRelocks <- MCMaxRelocks
SPECIFICATION Spec
INVARIANT TypeOK MutualExclusion
PROPERTY LocksReleased
