CONSTANTS
  Thread = {t, u}
  Block = {a, b, c}
  NULL = null
  BlockSizes = {1}
  Debug = TRUE
  MaxHolds = 2
SPECIFICATION SharingSpec
INVARIANT KeptWhileRegistered
CHECK_DEADLOCK FALSE
