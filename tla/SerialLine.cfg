SPECIFICATION Spec
CONSTANTS
  TransmitTime = 2
  BaudTime = 2
  NoByte = NoByte
  Data = {"a", "b"}
  PollLimit = 2
  EscapeLength = 2
  PeerKinds = {"none", "listen", "dial", "hayes"}
  Machines = {"maciicx"}
  Program <- MCProgram
  Use <- MCUse
  MaxTick = 2
INVARIANTS
  TypeOK
  PeerBytesInOrder
  StreamKept
  CallEndsCleanly
PROPERTIES
  HighestReset
  WaitsEnd
CHECK_DEADLOCK FALSE
