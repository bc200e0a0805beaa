SPECIFICATION FairSpec
CONSTANTS
  Size = 3
  MaxBreak = 2
  MaxStops = 0
  Leaves = TRUE
  PcAtConnect = FALSE
  Spurious = FALSE
INVARIANTS IInv ExecutesAtPc
PROPERTIES BreakpointsHonoured Answered
