SPECIFICATION Spec
CONSTANTS
  w1 = w1  w2 = w2  n1 = n1  n2 = n2  s1 = s1  s2 = s2  i1 = i1  i2 = i2
  a1 = a1  a2 = a2  c1 = c1  c2 = c2  m1 = m1
  Workers = {w1, w2}
  Namespaces = {n1, n2}
  ServiceNames = {s1}
  Ids = {i1, i2}
  Addrs = {a1, a2}
  Contents = {c1, c2}
  ServerNames = {m1}
  NoRow = NoRow  Keep = Keep
  DefaultNamespaces = {n1}
  OwnService = s1
  MaxChanges = 6
SYMMETRY Symmetry
INVARIANTS NoOrphanInstance AddressUnique RevisionIsLastChange LogIsExact LeftoversAreLater
