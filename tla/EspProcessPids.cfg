CONSTANTS
  Creators = {c1}
  Handles = {h1}
  MaxProcesses = 1
  PidModulus = 256
  NULL = NULL
SPECIFICATION Spec
INVARIANT PidValid
