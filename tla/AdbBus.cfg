SPECIFICATION Spec
CONSTANTS
  Bytes <- MCBytes
  MaxEdges = 4
  MaxMotion = 2
  Uses <- MCUses
  ListenFrame <- MCListenFrame
INVARIANTS
  TypeOK
  EdgesInOrder
PROPERTIES
  HandshakeKept
  EdgesKept
  BusProgress
