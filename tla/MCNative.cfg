\* A table of four slots for two entries, with three keys that collide; and a
\* function of one argument, called with none, one or two.
SPECIFICATION NativeSpec
CONSTANTS
  k1 = k1
  k2 = k2
  k3 = k3
  Keys = {k1, k2, k3}
  Conts = {c1}
  Home <- Hash
  SlotCount = 4
  MaxEntries = 2
  MaxBytes = 3
  Sizes = {1, 2}
  Null = Null
  AllocMayFail = TRUE
  MaxClock = 7
  Types = {int32, int64}
  Arity = 1
  ArgumentCounts = {0, 1, 2}
  CompileThreshold = 2
  OptimizationThreshold = 3
  MaxBailouts = 1
  MaxArguments = 1
  MaxCalls = 5
INVARIANTS Consistent ProbeFindsLive FittingCodeCached
  CallsAccounted NotReoptimized EvidenceExact
PROPERTIES ImplementsMap PromotionJustified
SYMMETRY Symmetry
