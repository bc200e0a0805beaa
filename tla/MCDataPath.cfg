SPECIFICATION Spec
CONSTANTS
  Lines = {1, 2}
  CodeLines = {2}
  Halves = {1, 2}
  Val = {v1, v2}
  Ways = 1
  WbNum = 2
SYMMETRY ValSymmetry
INVARIANT IInv
PROPERTY ImplementsMemory
