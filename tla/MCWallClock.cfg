SPECIFICATION Spec
CONSTANTS
  NoTime = NoTime
  Readings <- MCReadings
  Windows <- MCWindows
  Times <- MCTimes
INVARIANTS
  JudgedByPersisted
  NoRevival
  DoubtIsDurable
