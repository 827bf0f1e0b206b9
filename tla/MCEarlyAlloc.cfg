CONSTANTS
  WORD = 64
  PAGE_SIZE = 4
  EARLY_KMALLOC_START = 8
  EARLY_KMALLOC_END = 19
  Sizes <- MCSizes
SPECIFICATION AllocSpec
INVARIANTS
  AllocTypeOK
  AllocInv
  AlignedBlockStartsFreshPage
PROPERTY ImplementsHeap
