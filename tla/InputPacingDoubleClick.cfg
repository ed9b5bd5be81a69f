SPECIFICATION Spec
CONSTANTS
  Keys = {k1}
  AudioTail = 1
INVARIANT DoubleClickPaced
