SPECIFICATION PulseSpec
CONSTANTS
  Ids = {0}
  Commands <- MCModeSelect
  BlockBytes = 2
  SixByteBlocks = 2
  Burst = 2
  NoTarget = NoTarget
  NoCommand = NoCommand
PROPERTY
  LastByteDrains
