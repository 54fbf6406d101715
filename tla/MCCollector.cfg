\* Any three of an object, a WeakMap, a function with inline caches and a cell;
\* or an object, a registry and a WeakRef.
SPECIFICATION Spec
CONSTANTS
  Programs = {"caches", "finalizers"}
  Values = {a, m, f}
  Cells = {s}
  Maps = {m}
  Bytecodes = {f}
  FinValues = {o, g, r}
  NoCells = {}
  Registries = {g}
  Refs = {r}
  MaxLive = 3
  MaxEdges = 3
  FinEdges = 2
  MaxJobs = 1
INVARIANTS Consistent ReachableKept WeakLive GarbageCollected
