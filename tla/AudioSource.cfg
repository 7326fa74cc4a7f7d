SPECIFICATION Spec
CONSTANTS
  FirstBatch = 2
  Stall = 1
  ProbeInterval = 3
  ProbeWindow = 2
  Confirm = 2
  CaptureFirst = 2
  CaptureStall = 1
  Recovery = 1
  Oldest = 4
  MaxArrived = 1
PROPERTIES SourceIsRight SourceSettles
