SPECIFICATION Spec
CONSTANTS
  Clients = {c1}
  Methods = {"enqueue", "retry", "cancel"}
  MaxItems = 1
  MaxAttempts = 2
  Malformed = {}
  MaxCalls = 3
  MaxCrashes = 0
  MaxFaults = 0
PROPERTIES
  RetryIsHonoured
