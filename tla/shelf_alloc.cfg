CONSTANTS
  NbElements = 2
  Slots <- MCSlots
  FirstSlot <- MCFirstSlot
  Stride = 5
SPECIFICATION AnySpec
INVARIANTS TypeOK ChainExact FreeListsSorted HeldExact SizeExact
PROPERTY ImplementsSet
CHECK_DEADLOCK FALSE
