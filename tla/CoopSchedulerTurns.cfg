CONSTANTS
  MaxProcesses = 2
  PidValues = 4
  Priorities = {1}
  SetStates = {}
SPECIFICATION CalledPeriodically
PROPERTY TakesTurns
