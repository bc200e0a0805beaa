SPECIFICATION Spec
CONSTANTS
  Size = 3
  MaxBreak = 2
  MaxStops = 0
  Leaves = FALSE
  PcAtConnect = FALSE
  Spurious = FALSE
INVARIANT StepIsOne
