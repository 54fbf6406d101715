\* The transition cache, with shapes whose properties need not grow.
SPECIFICATION Spec
CONSTANTS
  Null = Null
  Objects = {o1, o2, o3}
  Addresses = {s1, s2, s3, s4}
  Protos = {p1}
  ObjectProto = p1
  x = x
  y = y
  z = z
  g = g
  Atoms = {x, y, z}
  Kinds = {"data"}
  Sites = {}
  SiteAtom <- NoSites
  SiteKind <- NoSites
  SiteEntry <- NoSites
  Ways = 2
  InitialSize = 4
  CompactAt = 2
  Transitions = TRUE
  CacheIndex <- OwnEntries
  Operations = {}
SYMMETRY Symmetry
PROPERTY ImplementsObjects
