SPECIFICATION Spec
CONSTANTS
  Jobs = {j1}
  Workers = {w1, w2}
  NoJob = NoJob
  MaxShutdowns = 1
PROPERTY ShutdownReturns
