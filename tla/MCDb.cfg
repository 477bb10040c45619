SPECIFICATION Spec
CONSTANTS
  a = a
  b = b
  Instances <- Both
  MaxStarts = 2
  MaxStores = 2
  Killable <- Both
INVARIANTS
  TypeOK
  TableUnlessInterrupted
  AnswersAreTrue
PROPERTY
  ImplementsStore
