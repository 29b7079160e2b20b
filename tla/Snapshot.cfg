SPECIFICATION SnapshotSpec
CONSTANTS
  w1 = w1  n1 = n1  n2 = n2  s1 = s1  s2 = s2  i1 = i1  i2 = i2
  a1 = a1  a2 = a2  c1 = c1  c2 = c2
  Workers = {w1}
  Namespaces = {n1}
  ServiceNames = {s1}
  Ids = {i1}
  Addrs = {a1}
  Contents = {c1, c2}
  ServerNames = {}
  NoRow = NoRow  Keep = Keep  NoCopy = NoCopy  AllNamespaces = AllNamespaces
  DefaultNamespaces = {n1}
  OwnService = s1
  MaxChanges = 4
  SegmentNames = {"n", "m", "long"}
  ShortNames = {"n", "m"}
  MaxCandidates = 4
  Paths <- MCPaths
  Queries <- MCQueries
  Stores <- MCStores
SYMMETRY Symmetry
INVARIANTS SnapshotTypeOK StaleIsAnnounced NotModifiedIsCurrent
