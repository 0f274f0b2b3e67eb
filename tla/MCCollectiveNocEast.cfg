\* HBM channels in the east of a mesh of two rows.
CONSTANTS
  NumX = 2
  NumY = 2
  NodeSpace = 8
  NodesPerCtrl = 1
  Alias = 1
  Channels <- TwoEastChannels
  InterleavingBits = 2
  XorScrambling = FALSE
  RedScrambling = FALSE
  Outstanding = 1
  Loads <- EastLoads
  Denying = {}
  MaxRequests = 2
SPECIFICATION Spec
INVARIANT ReachesItsNode
