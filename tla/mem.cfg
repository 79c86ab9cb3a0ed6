CONSTANTS
  Thread = {t, u}
  Block = {a, b, c}
  NULL = null
  BlockSizes = {1, 2}
  Debug = TRUE
  MaxHolds = 2
SPECIFICATION MemSpec
INVARIANTS MarksHold ListExact UsedExact KeptWhileRegistered CountExact
PROPERTY FreedAtOnce
