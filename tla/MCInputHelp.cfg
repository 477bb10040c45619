SPECIFICATION Spec
CONSTANTS
  Flags <- MCFlags
  ArgFlags <- MCArgFlags
  Orderings = {"PERMUTE"}
  Lines <- MCLines
  MaxParses = 1
  Again = {}
  Floats <- MCFloats
  PerHertz = 8
  FloatBits = 8
  Ints <- MCInts
  Kilo = 10
  Mega = 100
  FreqSpan = 24000
  IntSpan = 64
  ToLower <- MCToLower
  LongWords <- MCLongWords
INVARIANT
  HelpExampleAccepted
