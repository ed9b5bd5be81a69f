SPECIFICATION Spec
CONSTANTS
  Debounce = 3
  MaxElapsed = 2
  MaxCycle = 8
  MaxInputs = 4
  MaxResets = 1
INVARIANTS Prompt InOrder KindFifo ButtonSpaced NotStretched
           ButtonSettles
