SPECIFICATION Spec
CONSTANTS
  Functions = {f1, f2, f3}
  Keys = {k1, k2}
  Handles = {h1, h2}
  Conts = {c1}
  Kinds = {int32}
  ArgCounts = {1}
  Null = Null
  Callers = {k2}
  MaxEntries = 2
  MaxSites = 1
  MaxGeneration = 3
  AllocMayFail = FALSE
SYMMETRY Symmetry
INVARIANTS Consistent PublishedHandleOwned GuardedCallSound IndexComplete
PROPERTIES RetirementClearsSites
