SPECIFICATION Spec
CONSTANTS
  Modes = {"usr26", "usr", "fiq", "svc"}
  Regs = {8, 14}
  Words = {w1, w2}
  Masks = {"F"}
  Sections = 2
  Pages = 2
  Frames = {f1, f2}
  Num = 3
  BreakBeforeMake = TRUE
  Quarter = 4
  HalfWord = 4
  Operands = {2, 7, 8, 11}
  Bits = 6
  Amounts = {0, 1, 2, 3, 5, 6, 7, 12, 13}
  Bytes = {0, 1, 6}
SYMMETRY Symmetry
INVARIANTS BanksInv TlbInv
PROPERTIES ImplementsRegisterFile ImplementsArithmetic ImplementsProducts ImplementsShifts
