SPECIFICATION Spec
CONSTANTS
  Worker = worker
  Webs = {w1}
  WorkerItems = {q1}
  WebItems = {x1}
  NoItem = none
  MaxRuns = 3
  MaxStops = 1
  MaxEdits = 0
PROPERTIES
  StopSparesLater
CHECK_DEADLOCK FALSE
