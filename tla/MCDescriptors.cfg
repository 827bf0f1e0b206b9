CONSTANTS
  GdtAddresses <- MCGdt
  StubAddresses <- MCStubs
SPECIFICATION Spec
INVARIANTS
  SegmentsFlat
  VectorsArrive
PROPERTIES
  TablesLoaded
