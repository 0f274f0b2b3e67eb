\* Two clusters of two cores; seven granules, cut into three slots and a rest;
\* an arena ends inside a slot.  The tables are full after one block, as
\* many of the free lists and the common ranges have two.
CONSTANTS
  NumClusters = 2
  NumCores = 2
  HEAP_BASE = 16
  HEAP_END = 72
  SLOT_SIZE = 16
  MAX_FREE_BLOCKS_PER_CORE = 1
  MAX_COMMON_BLOCKS = 1
SPECIFICATION Spec
INVARIANT TypeOK
INVARIANT NoCommonSlotMissed
INVARIANT CommonSlotsHaveSpace
\* The program ends.
CHECK_DEADLOCK FALSE
