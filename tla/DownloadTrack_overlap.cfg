SPECIFICATION Spec
CONSTANTS
  Worker = worker
  Webs = {w1}
  WorkerItems = {q1, q2}
  WebItems = {x1}
  NoItem = none
  MaxRuns = 3
  MaxStops = 1
  MaxEdits = 1
SYMMETRY Symmetry
INVARIANTS
  TypeOK ScopeCounts ScopeIsStable NoGhostRow FlagComesDown ProgressIsOwn
PROPERTIES
  StopReachesAll
CHECK_DEADLOCK FALSE
