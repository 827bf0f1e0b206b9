CONSTANTS
  SIZE = 5
  Bytes <- MCBytes
SPECIFICATION Spec
INVARIANTS
  CopiesSource
  ResultRight
