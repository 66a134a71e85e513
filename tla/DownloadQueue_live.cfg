SPECIFICATION FairSpec
CONSTANTS
  Clients = {c1}
  Methods = {"enqueue", "retry", "cancel", "clear"}
  MaxItems = 2
  MaxAttempts = 2
  Malformed = {}
  MaxCalls = 2
  MaxCrashes = 1
  MaxFaults = 0
PROPERTIES
  EveryItemSettles CompletedGetsScanned
