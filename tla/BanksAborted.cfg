SPECIFICATION AbortedSpec
CONSTANTS
  Modes = {"usr26", "usr", "svc", "abt"}
  Regs = {8, 14}
  Words = {w1, w2}
  Masks = {"I"}
PROPERTY CorrectBankRestored
