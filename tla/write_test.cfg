CONSTANTS
  filesize = 10
  blocksize = 2
  max_aios = 2
  aio_listio_max = 2
  AioLimit = 3
  IOErrors = TRUE
  StopSignals = TRUE
SPECIFICATION WriteSpec
INVARIANTS RenamedMeansWritten ListsCounted
PROPERTY ListsReported
CHECK_DEADLOCK FALSE
