CONSTANTS
  PIPE_SIZE = 10
  SIZEOF_LENGTH = 2
  WORD = 32
  VERSIONS = 2
  Lengths = {1, 2, 5}
  BlockModes = {TRUE}
  MaxWrites = 3
  TimeOut = 2
  MaxAdjustments = 1
SPECIFICATION WaitSpec
INVARIANT NoEarlyTimeout
PROPERTIES PushReturns StopReleasesWriter ElementsDelivered TimedWaitEnds
