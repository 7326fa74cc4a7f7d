SPECIFICATION Spec
CONSTANTS
  c1 = c1
  c2 = c2
  Commit <- MCCommit
  None = None
  First = c1
  Later <- MCLater
  Qualities = {"good", "digest", "truncated", "runtime"}
  Modes = {"auto", "offline"}
  Faults = {"signal", "power", "kill", "record", "rollback"}
  MaxRuns = 2
  MaxFaults = 1
INVARIANTS EndsTogether
PROPERTIES StatusIsTrue ImplementsPromise
