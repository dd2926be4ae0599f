CONSTANTS
  a = a
  b = b
  Names <- MCNames
  Path <- MCPath
  MaxNodes = 2
  Refs = {r1, r2, r3}
  Files = {f1}
  NULL = NULL
  CardFaults = {TRUE, FALSE}
SPECIFICATION Spec
SYMMETRY Interchangeable
INVARIANTS TypeOK RefcountExact WrongAnswersExplained
PROPERTY HeldNodeStable
