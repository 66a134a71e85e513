SPECIFICATION Spec
CONSTANTS
  Clients = {c1, c2}
  Methods = {"enqueue", "retry", "cancel", "clear"}
  MaxItems = 2
  MaxAttempts = 2
  Malformed = {2}
  MaxCalls = 3
  MaxCrashes = 1
  MaxFaults = 1
SYMMETRY Symmetry
INVARIANTS
  TypeOK NothingStranded StrandedOnePerFault AttemptsBudget
  NoMissedWakeup CompletedIsScanned CancelOfCurrentWins
