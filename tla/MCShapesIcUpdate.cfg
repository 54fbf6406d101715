\* One property site, and operations that take shapes out of the table.
SPECIFICATION Spec
CONSTANTS
  Null = Null
  Objects = {o1, o2}
  Addresses = {s1, s2, s3, s4}
  Protos = {p1}
  ObjectProto = p1
  x = x
  y = y
  z = z
  g = g
  Atoms = {x, y}
  Kinds = {"data", "getset"}
  Sites = {g}
  SiteAtom <- OneAtom
  SiteKind <- OneGet
  SiteEntry <- OneEntry
  Ways = 2
  InitialSize = 1
  CompactAt = 2
  Transitions = FALSE
  CacheIndex <- OneIndex
  Operations = {"alloc", "redefine", "delete"}
SYMMETRY Symmetry
INVARIANT IcSound
