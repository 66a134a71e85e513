SPECIFICATION Spec
CONSTANTS
  Clients = {c1}
  Methods = {"enqueue", "retry", "clear", "forcestop"}
  MaxItems = 3
  MaxAttempts = 2
  Malformed = {2}
  MaxCalls = 4
  MaxCrashes = 1
  MaxFaults = 0
PROPERTIES
  LifecycleSpec
