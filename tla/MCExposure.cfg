SPECIFICATION Spec
CONSTANTS
  Unit = 100
  Milli = 300
  SigLimit = 12
  Word = 1300
  MinExposure = 300
  Exposures <- MCExposures
  MaxSets = 2
  MaxLag = 1
  MaxAge = 12
INVARIANTS
  TypeOK
  TimerIsMeasurement
  WaitsForSwitch
PROPERTIES
  RereadIsStable
CHECK_DEADLOCK FALSE
