CONSTANTS
  MaxProcesses = 3
  PidValues = 3
  Priorities = {0, 1}
  SetStates = {"ready", "running", "waiting"}
SPECIFICATION Spec
INVARIANTS TypeOK RunningIsCurrent
PROPERTIES PriorityRespected
