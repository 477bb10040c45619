SPECIFICATION Spec
CONSTANTS
  Flags <- MCFlags
  ArgFlags <- MCArgFlags
  Orderings = {"PERMUTE", "REQUIRE_ORDER"}
  Vectors <- MCVectors
INVARIANTS
  TypeOK
  NeverBeyond
  ToldInOrder
  Arranged
