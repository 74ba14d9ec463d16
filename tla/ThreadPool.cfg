SPECIFICATION Spec
CONSTANTS
  Jobs = {j1, j2, j3}
  Workers = {w1, w2}
  NoJob = NoJob
  MaxShutdowns = 1
INVARIANTS
  TypeOK
  OnePlace
  NoSleepingOnWork
  InflightExact
  ExitOnlyWhenDrained
PROPERTIES
  ImplementsService
  EveryJobCompletes
