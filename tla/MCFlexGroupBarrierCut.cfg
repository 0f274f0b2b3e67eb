\* A row of three clusters in a group of two and one cut off at the border;
\* the core that clears the words is not the data mover.
CONSTANTS
  NumX = 3
  NumY = 1
  GridX = 2
  GridY = 1
  Cores = {dm, first}
  DM = dm
  First = first
  NULL = NULL
  Rounds = 3
  Program <- GlobalPollGroup
  Garbage = {1}
  IterationMod = 2
SPECIFICATION FairSpec
PROPERTY ImplementsGroupBarrier
