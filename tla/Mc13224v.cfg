\* A UART with a FIFO of two, one more character than fits, characters that
\* take no time or some of it, and one interrupt of another device, with a
\* higher number.
SPECIFICATION FairSpec
CONSTANTS
  Depth = 2
  MaxSize = 3
  Width = 8
  Thresholds = {0, 1, 2}
  CharTimes = {0, 2}
  Ints = {1, 6}
  UartInt = 1
INVARIANTS UartInv ItcInv ReachesCpu
PROPERTIES KeepsSending HandsBack
