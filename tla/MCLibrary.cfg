\* A Set or Map of up to four keys with an iterator and a call under way; module
\* graphs of three and four modules; three threads that wait and notify; one
\* worker and one shared buffer; a loop with two timers, a file and a port.
SPECIFICATION LibrarySpec
CONSTANTS
  key1 = key1
  key2 = key2
  Zero = Zero
  MinusZero = MinusZero
  Keys = {Zero, MinusZero, key1, key2}
  Values = {v1}
  Undefined = Undefined
  Hash <- HashOf
  Threshold = 3
  Iterators = {i1}
  Others = {MinusZero, key1, key2}
  MaxItems = 2
  MaxChanges = 1
  Modules = {1, 2, 3, 4}
  None = None
  MaxImports = 2
  Threads = {t1, t2, t3}
  Blocking = {t2, t3}
  Cells = {c1}
  Numbers = {0, 1}
  Unset = Unset
  MaxWaits = 3
  MaxStores = 2
  Main = main
  Workers = {w1}
  Buffers = {b1}
  MaxQueue = 1
  MaxObjects = 2
  Fds = {f1}
  Ports = {p1}
  Signals = {s1}
  Promises = {r1}
  Delays = {0, 1}
  Intervals = {3}
  IntMax = 3
  MaxTimers = 2
  MaxOps = 3
  MaxPosts = 2
  MaxRaised = 1
  MaxBusy = 1
INVARIANTS LibraryConsistent SetMethodExact DependenciesFirst OutcomeExact
  NoLostWakeup SharedExact NothingSleptThrough
PROPERTIES ImplementsOrderedMap
CHECK_DEADLOCK FALSE
