CONSTANTS
  PIPE_SIZE = 12
  SIZEOF_LENGTH = 2
  WORD = 32
  VERSIONS = 2
  Lengths = {3}
  BlockModes = {TRUE}
  MaxWrites = 4
SPECIFICATION RestartSpec
INVARIANT WritesOnlyIfRoom
