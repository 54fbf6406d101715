\* Two objects and two prototypes, which SetProto exchanges; or two objects and
\* two property sites that share a cache entry, under the operations that leave
\* shapes in the table.  A failing assertion of JS_NewObjectFrom ends a program.
SPECIFICATION Spec
CONSTANTS
  Null = Null
  Objects = {o1, o2}
  Protos = {p1, p2}
  ObjectProto = p1
  x = x
  Atoms = {x, y}
  get = get
  put = put
  Addresses = {s1, s2, s3, s4}
  Ways = 2
  InitialSize = 1
  CompactAt = 2
SYMMETRY Symmetry
PROPERTY ImplementsObjects
INVARIANTS Consistent IcSound
CHECK_DEADLOCK FALSE
