CONSTANTS
  Element = {a, b}
  Place = {p, q}
  from = from
  peer1 = peer1
  peer2 = peer2
  peer3 = peer3
  Address <- MCAddress
  NULL = null
  NbLines = 2
  HashOf <- MCHashOf
  Datagram = {x, y, z}
  MaxRefs = 3
SPECIFICATION UdpSpec
INVARIANTS QueuesExact KeptWhileHeld FromSender
PROPERTY ImplementsQueues
SYMMETRY AddressSymmetry
CHECK_DEADLOCK FALSE
