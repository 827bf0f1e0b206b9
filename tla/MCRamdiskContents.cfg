CONSTANTS
  ADDR = 65536
  HEAP_END = 81920
  PAGE = 4096
  WORD = 1048576
  HEADER = 76
  SLOTS = 64
  BUF = 256
  Images <- SmallImages
  Offsets <- MCOffsets
  Sizes <- MCSizes
SPECIFICATION Spec
INVARIANTS
  FileContents
