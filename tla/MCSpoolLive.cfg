SPECIFICATION FairSpec
CONSTANTS
  k1 = k1
  k2 = k2
  Functions = {f1, f2}
  Keys = {k1, k2}
  Handles = {k1, k2}
  Conts = {}
  Int32 = Int32
  Float64 = Float64
  Kinds = {Int32, Float64}
  ArgCounts = {1}
  Null = Null
  CallSites = {}
  SlotOf <- OneSlot
  Leaves = {}
  Capturing = {}
  Compilable <- BothModes
  Regions = {k2}
  Threshold = 1
  RegionThreshold = 2
  MaxTargets = 1
  Budget = 3
  Redline = TRUE
  MaxEntries = 1
  MaxId = 2
  MaxGeneration = 3
PROPERTIES OneAttempt RecompiledAfterClear
