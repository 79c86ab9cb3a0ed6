CONSTANTS
  Element = {a, b, c}
  Place = {p, q, r}
  key1 = key1
  key2 = key2
  key3 = key3
  key4 = key4
  Key <- MCKey
  Value = {u, v}
  NULL = null
  NbLines = 2
  HashOf <- MCHashOf
SPECIFICATION CursorSpec
INVARIANTS AllFound
PROPERTIES ImplementsMap ImplementsKeyWalk
SYMMETRY AddressSymmetry
CHECK_DEADLOCK FALSE
