\* Any two of these requests, one of each interface at a time.
CONSTANTS
  NumX = 4
  NumY = 4
  NodeSpace = 8
  NodesPerCtrl = 4
  Alias = 2
  Channels <- TwoAndFourChannels
  InterleavingBits = 2
  XorScrambling = TRUE
  RedScrambling = FALSE
  Outstanding = 1
  Loads <- CrossingLoads
  Denying <- SomeDenying
  MaxRequests = 2
SPECIFICATION Spec
INVARIANT TypeOK
INVARIANT QueuesHaveRoom
INVARIANT KidsAccounted
INVARIANT ReducedOnce
INVARIANT OnePlacePerAddress
PROPERTY ImplementsMulticast
PROPERTY AllAnswered
