SPECIFICATION Spec
CONSTANTS
  Size = 3
  MaxBreak = 1
  MaxStops = 1
  Leaves = TRUE
  PcAtConnect = FALSE
  Spurious = FALSE
INVARIANTS ExecutesAtPc
