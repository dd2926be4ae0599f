SPECIFICATION Spec
CONSTANTS
  Windows <- MCWindows
  a = a
  b = b
  Chars = {a, b}
  Cols = 3
  MaxHistory = 2
  Typed <- MCTyped
  Commands <- MCCommands
  Saved <- MCSaved
  Template = user
  Account = ann
  NULL = NULL
  GoOnAfterFault = FALSE
  TextChars = {a}
  NL = NL
  MaxBuffer = 4
  MaxPrompt = 2
  Width = 1
  Heights = {0, 1, 2}
  Files <- MCFiles
  NanoFaults = {FALSE, TRUE}
  NoFile = NoFile
  Program <- MCProgram
  Scripts <- MCScripts
  MaxItems = 2
  MaxLines = 6
INVARIANTS TypeOK SuggestionFits HistoriesAgree CursorShown
PROPERTIES EditsKept ImplementsFlow
