CONSTANTS
  Events = {e1, e2}
  NoEvent = none
  QueueSize = 4
SPECIFICATION Spec
INVARIANT TypeOK
PROPERTY ImplementsFifo
