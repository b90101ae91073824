CONSTANTS
  Threads = {t1, t2}
  NCells = 3
  Mapped = {m1, m2}
  Tiers = {"FAR_MEMORY"}
  Failed = Failed
  Overlap = FALSE
  FreesInUse = FALSE
  FreesMigrated = FALSE
  LineBits = 1
  SetBits = 2
  SliceShift = 4
  Slices = 4
  SliceMasks <- TwoMasks
  Frames <- SomeFrames
  Driver <- SomeAnswers
SYMMETRY Swap
SPECIFICATION Spec
INVARIANTS TilesKnown PoolsTranslate ActiveInPools TokensTell
