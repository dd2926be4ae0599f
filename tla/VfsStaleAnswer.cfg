CONSTANTS
  a = a
  b = b
  Names <- MCNames
  Path <- MCPath
  MaxNodes = 4
  Refs = {r1, r2, r3}
  Files = {f1}
  NULL = NULL
  CardFaults = {FALSE}
SPECIFICATION Spec
SYMMETRY Interchangeable
INVARIANT AnswerMatchesCard
