SPECIFICATION StallSpec
CONSTANTS
  PipeCapacity = 6
  InitialCap = 2
  IntMax = 15
  AmpleMemory = 7
  Timeouts <- MCTimeouts
  BannerSizes <- MCBannerSizes
  MinClip = 2
  MaxSamples = 8
INVARIANTS
  TypeOK
  BufferSafe
  OverflowOnlyWhenHuge
  ClipInOrder
  AtMostOneLate
  HandOver
  FullHoldTime
PROPERTIES
  Termination
  ChildStops
  KilledChildStops
  ImplementsCapture
