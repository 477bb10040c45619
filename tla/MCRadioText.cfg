SPECIFICATION Spec
CONSTANTS
  PipeCapacity = 6
  InitialCap = 2
  IntMax = 15
  AmpleMemory = 15
  Timeouts <- MCTimeouts
  BannerSizes <- MCBannerSizes
  MinClip = 2
  MaxSamples = 8
INVARIANT
  OnlyRtlFmSamples
