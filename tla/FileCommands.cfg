SPECIFICATION Spec
CONSTANTS
  Paths <- MCPaths
  Texts <- MCTexts
  Places <- MCPlaces
  Dotted = {"x"}
  Slots = 4
  Iterators = 2
  Windows = {w1}
  Faults = {FALSE, TRUE}
  Inputs <- MCInputs
  MaxText = 1
  MaxLeaks = 1
  NULL = NULL
INVARIANTS TypeOK GivesBack ToldIsDone
PROPERTIES LossExplained
