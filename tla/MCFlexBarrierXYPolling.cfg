\* A 2 x 2 mesh, data movers only, three calls; the iteration words count
\* modulo 3 and start anywhere, so they wrap around within the run.
CONSTANTS
  NumX = 2
  NumY = 2
  Cores = {dm}
  DM = dm
  Rounds = 3
  IterationMod = 3
SPECIFICATION FairSpec
INVARIANT TypeOK
INVARIANT BarrierSafety
INVARIANT ResetLosesNobody
INVARIANT IterationsInStep
PROPERTY ImplementsBarrier
