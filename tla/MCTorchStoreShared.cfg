SPECIFICATION Spec
CONSTANTS
  c1 = c1
  c2 = c2
  v1 = v1
  v2 = v2
  k1 = k1
  k2 = k2
  a = a
  b = b
  NoSlice = NoSlice
  NoValue = NoValue
  Client = {c1, c2}
  Volume = {v1, v2}
  Key = {k1}
  Value = {a, b}
  Cell <- MCCell
  Coordinate <- MCCoordinate
  Slice <- MCRows
  Home <- SharedVolume
  PutMenu <- PutsSharded
  GetMenu <- GetsSharded
  DeleteMenu = {k1}
  BatchMenu = {{k1}}
  BatchPuts = TRUE
  BatchGets = TRUE
  Faults = {}
  Discipline = "drained"
INVARIANTS QuiescentAgreement LocatedIsServable
CHECK_DEADLOCK TRUE
