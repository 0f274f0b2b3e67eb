\* A 3 x 1 mesh with one data mover and one worker per cluster; a waiting
\* call, then a polling one, then a waiting one.
CONSTANTS
  NumX = 3
  NumY = 1
  Cores = {dm, worker}
  DM = dm
  NULL = NULL
  Rounds = 3
  Polls = {2}
  IterationMod = 2
  Garbage = {0, 1}
SPECIFICATION FairSpec
INVARIANT TypeOK
INVARIANT BarrierSafety
INVARIANT WakeupsConserved
INVARIANT ResetLosesNobody
PROPERTY ImplementsBarrier
