CONSTANTS
  WORD <- MCWord
  PAGE_SIZE <- MCPageSize
  PAGE_ENTRIES <- MCEntries
  EARLY_KMALLOC_START <- MCHeapStart
  EARLY_KMALLOC_END <- MCHeapEnd
  Sizes <- MCSizes
  LOW_PAGES <- MCLow
  EARLY_PAGES <- MCEarly
  IMAGE_PAGES <- MCImage
  Loaders <- MCLoaders
  Junk <- MCJunk
  SIZEOF_MODULE = 16
  SIZEOF_UINT32 = 4
  SIZEOF_INODE <- MCInode
  Ranges <- MCRanges
SPECIFICATION PagingSpec
INVARIANTS
  PagingTypeOK
  BootMapsKernel
  ReverseMapSound
  VirtToPhysAgrees
  TLBCoherent
  ModulesVisible
PROPERTIES
  ImplementsAddressSpace
  RangeMapped
  BootEnds
