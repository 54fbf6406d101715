\* Programs of a value, a thenable and an object whose "then" throws, with one
\* combinator and one async function; programs of two values that call finally;
\* and programs of a generator and an async generator.  Programs end, so that a
\* state may have no successor.
SPECIFICATION Spec
CONSTANTS
  v = v
  v2 = v2
  array = array
  Values = {v, t, x}
  Thenables = {t}
  Poisoned = {x}
  Undefined = u
  Error = e
  None = None
  MaxPromises = 3
  MaxPairs = 4
  Calls <- SmallCalls
  MaxCombs = 1
  Arrays <- OneArray
  Functions = {k}
  SyncGenerators = {s}
  AsyncGenerators = {a}
  IterResult = r
  MaxRequests = 3
  Programs = {"promises", "finally", "generators"}
INVARIANTS Consistent OneResolver NeverForgotten CombinatorExact FinallyTransparent
  AnsweredInOrder OneContinuation
CHECK_DEADLOCK FALSE
