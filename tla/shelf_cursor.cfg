CONSTANTS
  NbElements = 1
  Slots <- MCSlots
  FirstSlot <- MCFirstSlot
  Stride <- MCStride
  MaxHeld = 6
SPECIFICATION CursorSpec
INVARIANTS NoFault PrefetchIsLast NextFreeExact
PROPERTY ImplementsWalk
