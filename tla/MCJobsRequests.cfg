\* Programs of one async generator.  Programs end.
SPECIFICATION Spec
CONSTANTS
  v = v
  v2 = v2
  array = array
  Values = {v, t, x}
  Thenables = {t}
  Poisoned = {x}
  Undefined = u
  Error = e
  None = None
  MaxPromises = 3
  MaxPairs = 4
  Calls <- SmallCalls
  MaxCombs = 1
  Arrays <- OneArray
  Functions = {k}
  SyncGenerators = {}
  AsyncGenerators = {a}
  IterResult = r
  MaxRequests = 3
  Programs = {"generators"}
INVARIANT RequestsServed
CHECK_DEADLOCK FALSE
