SPECIFICATION DriverSpec
CONSTANTS
  Ids = {0, 1}
  Commands <- MCCommands
  BlockBytes = 2
  SixByteBlocks = 2
  Burst = 2
  NoTarget = NoTarget
  NoCommand = NoCommand
INVARIANTS
  ReqNeverLost
  OneWholeCommand
  ReplyDrained
  BlindRead
PROPERTY
  TransferCompletes
