SPECIFICATION FairRcs
CONSTANTS
  Flags <- MCFlags
  ArgFlags <- MCArgFlags
  Orderings = {"PERMUTE", "REQUIRE_ORDER"}
  Lines <- RcsLines
  MaxParses = 1
  Again = {}
  Floats <- MCFloats
  PerHertz = 8
  FloatBits = 8
  Ints <- RcsInts
  Kilo = 10
  Mega = 100
  FreqSpan = 24000
  IntSpan = 64
  ToLower <- MCToLower
  LongWords <- MCLongWords
  PipeCapacity = 4
  InitialCap = 2
  AmpleMemory = 3
  BannerSizes <- RcsBanner
  MinClip = 2
  MaxSamples = 3
INVARIANTS
  RcsTypeOK
  ExitCodeTells
  TextFits
  TunedAsAsked
  HoldTimeKept
PROPERTY
  ProgramEnds
