SPECIFICATION Spec
CONSTANTS
  Trials = 2
  MaxMWait = 2
  Duration = 4
  MaxClock = 6
  MaxUpdates = 2
INVARIANT NoMissedStore
PROPERTIES LatencyOfUpdate Terminates
CHECK_DEADLOCK FALSE
