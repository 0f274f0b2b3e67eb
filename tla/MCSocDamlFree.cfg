\* Two clusters of two cores; six granules, cut into three slots; an arena ends
\* inside a slot.  The tables are full after two blocks.
CONSTANTS
  NumClusters = 2
  NumCores = 2
  HEAP_BASE = 16
  HEAP_END = 64
  SLOT_SIZE = 16
  MAX_FREE_BLOCKS_PER_CORE = 2
  MAX_COMMON_BLOCKS = 2
SPECIFICATION Spec
INVARIANT CommonSlotsFree
\* The program ends.
CHECK_DEADLOCK FALSE
