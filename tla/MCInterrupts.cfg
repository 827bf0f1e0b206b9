CONSTANTS
  Lines <- MCLines
  Masks <- MCMasks
  Exceptions <- MCExceptions
  HZ = 1
  Secs <- MCSecs
  TICKS = 5
  MaxDepth = 2
SPECIFICATION Spec
INVARIANTS
  NoNesting
  EnabledMeansRetired
  OnlyRemappedVectors
  InterruptInv
  MaskKept
PROPERTIES
  EoiRetiresOwn
  SleepNotEarly
  TimerServed
  SleepReturns
