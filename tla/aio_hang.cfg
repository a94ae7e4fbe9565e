CONSTANTS
  filesize = 8
  blocksize = 2
  max_aios = 2
  AioLimit = 8
  IOErrors = FALSE
  StopSignals = FALSE
SPECIFICATION FairSpec
PROPERTY TestReturns
CHECK_DEADLOCK FALSE
