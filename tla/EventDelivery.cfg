SPECIFICATION Spec
CONSTANTS
  OutputCount = 2
  History = 4
  Budget = 4
  MaxEvents = 5
INVARIANTS InOrder
PROPERTIES EventsReachOutputs
