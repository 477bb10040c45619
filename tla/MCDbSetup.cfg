SPECIFICATION Spec
CONSTANTS
  a = a
  b = b
  Instances <- Both
  MaxStarts = 2
  MaxStores = 2
  Killable <- Both
INVARIANT
  OpenMeansTable
