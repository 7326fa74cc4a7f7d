SPECIFICATION Spec
CONSTANTS
  Devices = {d1, d2}
  Seqs = {1, 2}
  AudioSeqs = {1}
  MaxAccepted = 2
INVARIANTS FrameAccounting DarkAfterShutdown NoLostWakeup
PROPERTIES LatestWins WorkersServe
