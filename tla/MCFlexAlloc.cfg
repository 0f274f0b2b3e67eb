\* Four granules from a base that is not aligned, words of 16 bits.  The
\* requests take one, two and three granules with their header, exactly or
\* rounded up, and more than a header can tell.  A wrong caller
\* overwrites the header of its next block, with a canary that is no block's.
CONSTANTS
  Base = 12
  Size = 38
  WordMod = 65536
  CanaryMod = 256
  Requests = {4, 8, 17, 300}
  Data = {0, 32}
  Overruns = {255}
SPECIFICATION FairSpec
INVARIANT TypeOK
INVARIANT ListIsGaps
INVARIANT DataDisjoint
PROPERTY UserDataKept
PROPERTY ImplementsHeap
