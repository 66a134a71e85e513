SPECIFICATION Spec
CONSTANTS
  Clients = {c1, c2}
  Methods = {"enqueue", "retry", "clear"}
  MaxItems = 1
  MaxAttempts = 1
  Malformed = {}
  MaxCalls = 3
  MaxCrashes = 0
  MaxFaults = 0
PROPERTIES
  ClearLeavesLiveWork
