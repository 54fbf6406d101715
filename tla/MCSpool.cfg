SPECIFICATION Spec
CONSTANTS
  k1 = k1
  k2 = k2
  Functions = {f1, f2}
  Keys = {k1, k2}
  Handles = {k1, k2}
  Conts = {}
  Int32 = Int32
  Float64 = Float64
  Kinds = {Int32, Float64}
  ArgCounts = {1}
  Null = Null
  CallSites = {s1}
  SlotOf <- OneSlot
  Leaves = {k1, k2}
  Capturing = {k1}
  Compilable <- BothModes
  Regions = {k2}
  Threshold = 1
  RegionThreshold = 1
  MaxTargets = 1
  Budget = 2
  Redline = TRUE
  MaxEntries = 1
  MaxId = 3
  MaxGeneration = 2
INVARIANTS Consistent RelayHitSound EntriesOfLiveBytecode
SYMMETRY FunctionSymmetry
