CONSTANTS
  WORD <- MCWord
  PAGE_SIZE <- MCPageSize
  PAGE_ENTRIES <- MCEntries
  EARLY_KMALLOC_START <- MCLargeHeapStart
  EARLY_KMALLOC_END <- MCLargeHeapEnd
  Sizes <- MCSizes
  LOW_PAGES <- MCLow
  EARLY_PAGES <- MCEarly
  IMAGE_PAGES <- MCLargeImage
  Loaders <- MCOneLoader
  Junk <- MCJunk
  SIZEOF_MODULE = 16
  SIZEOF_UINT32 = 4
  SIZEOF_INODE <- MCInode
  Ranges <- MCRanges
SPECIFICATION PagingSpec
INVARIANT BootMapsKernel
