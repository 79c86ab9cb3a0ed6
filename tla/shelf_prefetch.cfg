CONSTANTS
  NbElements = 2
  Slots <- MCSlots
  FirstSlot <- MCFirstSlot
  Stride <- MCStride
  MaxHeld = 4
SPECIFICATION PlainSpec
PROPERTY ReturnsElement
CHECK_DEADLOCK FALSE
