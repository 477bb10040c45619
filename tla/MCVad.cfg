SPECIFICATION FairSpec
CONSTANTS
  SampleRate = 1000
  WindowMs = 4
  PadMs = 2
  MinSilenceMs = 7
  MinSpeechMs = 6
  FloatBits = 4
  Levels <- AllLevels
  ClipSizes <- SmallClips
  MaxCalls = 2
INVARIANTS
  TypeOK
  OpenEnd
  SegmentsOrdered
  FreshInference
  RoundingHarmless
PROPERTIES
  MatchesReference
  LongSpeechHeard
  ShortClipSilent
  EveryCallAnswered
