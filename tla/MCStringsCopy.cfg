CONSTANTS
  SIZE = 5
  Bytes <- MCBytes
SPECIFICATION Spec
INVARIANT
  StringCopied
