CONSTANTS
  filesize = 6
  blocksize = 2
  aio_listio_max = 2
  AioLimit = 4
  IOErrors = FALSE
  StopSignals = FALSE
SPECIFICATION Spec
INVARIANT BlocksOutliveWrites
CHECK_DEADLOCK FALSE
