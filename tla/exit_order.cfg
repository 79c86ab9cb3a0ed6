CONSTANTS
  Vec = {a, b}
  AtexitMax = 4
SPECIFICATION AnyEndSpec
INVARIANT ExitInOrder
CHECK_DEADLOCK FALSE
