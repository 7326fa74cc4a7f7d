SPECIFICATION Spec
CONSTANTS
  Direct = {client}
  Ipc = {client}
  Owner = owner
  Capacity = 1
  MaxCrashes = 2
INVARIANTS
  NoWorkerLeft
  FailureHasACause
PROPERTIES
  NobodyWaitsForEver
