\* A function whose inline cache retains a shape.
SPECIFICATION Spec
CONSTANTS
  Programs = {"caches"}
  Values = {a, f}
  Cells = {s}
  Maps = {}
  Bytecodes = {f}
  FinValues = {}
  NoCells = {}
  Registries = {}
  Refs = {}
  MaxLive = 3
  MaxEdges = 5
  FinEdges = 0
  MaxJobs = 2
INVARIANT RuntimeEmpty
