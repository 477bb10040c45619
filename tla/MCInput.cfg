SPECIFICATION FairSpec
CONSTANTS
  Flags <- MCFlags
  ArgFlags <- MCArgFlags
  Orderings = {"PERMUTE", "REQUIRE_ORDER"}
  Lines <- MCLines
  MaxParses = 2
  Again <- MCAgainLines
  Floats <- MCFloats
  PerHertz = 8
  FloatBits = 8
  Ints <- MCInts
  Kilo = 10
  Mega = 100
  FreqSpan = 24000
  IntSpan = 64
  ToLower <- MCToLower
  LongWords <- MCLongWords
INVARIANTS
  TypeOK
  FlagsHonoured
  FailsForReason
  FrequencyNear
  FlaglessAlike
PROPERTY
  ParseEnds
