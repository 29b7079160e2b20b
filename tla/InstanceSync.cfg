SPECIFICATION Spec
CONSTANTS
  i1 = i1  i2 = i2  i3 = i3  i4 = i4  f1 = f1  a1 = a1  a2 = a2  a3 = a3  k1 = k1  k2 = k2  v1 = v1
  Ids = {i1, i2, i3, i4, f1}
  Foreign = {f1}
  Addrs = {a1, a2, a3}
  Keys = {k1}
  Values = {Empty, v1}
  Empty = Empty
  NoId = NoId
  NoRow = NoRow
  MaxGiven = 2
SYMMETRY Symmetry
INVARIANTS TypeOK DistinctItemsAlign OnlyDeclared RecordsAreTheDifference Repeatable
