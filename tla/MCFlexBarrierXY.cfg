\* A 2 x 2 mesh with one data mover and one worker per cluster, two calls.
CONSTANTS
  NumX = 2
  NumY = 2
  Cores = {dm, worker}
  DM = dm
  NULL = NULL
  Rounds = 2
  Garbage = {1}
SPECIFICATION FairSpec
INVARIANT TypeOK
INVARIANT BarrierSafety
INVARIANT WakeupsConserved
PROPERTY MasterRequestFree
INVARIANT IInv
PROPERTY ImplementsBarrier
