CONSTANTS
  Element = {a, b, c, d, e}
  NULL = null
  Value = {u, v}
  CacheBeyond = 1
SPECIFICATION ListSpec
INVARIANTS LinksExact CacheExact LookupExact
PROPERTIES RemovesFirstMatch ImplementsSeq
SYMMETRY AddressSymmetry
CHECK_DEADLOCK FALSE
