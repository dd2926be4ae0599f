CONSTANTS
  Users = {ann, users}
  ann = ann
  ColonUsers = {colon}
  Passwords = {p1, p2}
  Templates <- MCTemplates
  users = users
  user = user
  Windows <- MCWindows
  MaxNodes = 3
  CardFaults = {FALSE, TRUE}
  MaxRefs = 2
  Places <- MCPlaces
  NULL = NULL
SPECIFICATION Spec
VIEW Read
INVARIANTS TypeOK ShellNeedsLogin ToldIsTrue AccountHasHome DirectoryHeld SavesWhereItRead ImageOnlyInViewers
PROPERTY ImplementsAccountStore
