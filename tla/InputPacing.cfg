SPECIFICATION LiveSpec
CONSTANTS
  Keys = {k1, k2}
  AudioTail = 2
INVARIANTS InputPaced StaleQuantumBound
PROPERTY PacingReleased
