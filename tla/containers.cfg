CONSTANTS
  Element = {a, b, c, d, e}
  Value = {1, 2, 3, 4}
  NULL = null
  Rank <- MCRank
  Node = {a, b, c, d, e}
  NoNode = noNode
  Block = {b1, b2}
  Datum = {u, v}
  NoDatum = noDatum
  UintSize = 16
  SizeofValue = 3
  MaxSizes = {0, 1, 2, 7}
  Vec = {a, b, c}
  AtexitMax = 5
  Vector = {"u", "v", "w"}
  Matrix = {"m1", "m2", "m3"}
  VecStarts <- MCVecStarts
  MatStarts <- MCMatStarts
  Ratio <- MCRatio
SPECIFICATION ContainersSpec
INVARIANTS Sorted RemovalMeetsAll PrefixOrder WalkMissesNone InBlock PointersHold ExitInOrder
  AliasFree ProductNormal ActsInTurn
PROPERTIES ImplementsTree ImplementsStack
SYMMETRY AddressSymmetry
CHECK_DEADLOCK FALSE
