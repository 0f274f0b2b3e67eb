\* Two groups, the columns of a 2 x 2 mesh, that run two calls ahead of each
\* other and meet again.
CONSTANTS
  NumX = 2
  NumY = 2
  GridX = 1
  GridY = 2
  Cores = {dm}
  DM = dm
  First = dm
  NULL = NULL
  Rounds = 4
  Program <- GlobalPollGroupGlobal
  Garbage = {1}
  IterationMod = 2
SPECIFICATION FairSpec
INVARIANT TypeOK
INVARIANT GroupSafety
INVARIANT WakeupsConserved
INVARIANT ResetLosesNobody
PROPERTY ImplementsGroupBarrier
