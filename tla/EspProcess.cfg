CONSTANTS
  Creators = {c1, c2}
  Handles = {h1, h2}
  MaxProcesses = 2
  PidModulus = 3
  NULL = NULL
SPECIFICATION Spec
SYMMETRY Interchangeable
VIEW Read
INVARIANTS TypeOK TaskOwnsSlot CreatorOwnsSlot CountExact RefusedOnlyWhenFull CurrentNeverForeign
