SPECIFICATION BlocksSpec
CONSTANTS
  N = 5
  Timers = {1}
  Full = 3
  Narrow = 2
  Divs = {1, 2}
  MaxDiv = 2
  WdogFull = 3
  Ints = {0, 14}
  Slots = 2
  Space = 6
  Window = 6
  MaxSlaves = 3
  MaxLen = 4
  WarmUpStart = 1
  WarmedUp = 2
  OneBit = 4
  NumberBits = 2
  StatusSize = 16
  AicSources = {0, 1, 2}
  AicMasks <- Masks
  Vectors = {0, 1}
  FlashWords <- Words
  FlashClocks <- Clocks
  FlashSize = 4
INVARIANT KickGivesTwoPeriods
