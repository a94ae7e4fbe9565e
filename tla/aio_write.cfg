CONSTANTS
  filesize = 10
  blocksize = 2
  max_aios = 2
  AioLimit = 3
  IOErrors = TRUE
  StopSignals = TRUE
SPECIFICATION FairSpec
INVARIANTS TypeOK ReturnMeansWritten EveryWriteCounted BatchCounterAgrees
PROPERTY SigThreadExits
CHECK_DEADLOCK FALSE
