CONSTANTS
  PIPE_SIZE = 12
  SIZEOF_LENGTH = 2
  WORD = 32
  VERSIONS = 2
  Lengths = {0, 1, 3, 6}
  BlockModes = {TRUE, FALSE}
  MaxWrites = 5
SPECIFICATION Spec
INVARIANTS TypeOK UnreadIntact PopIntact WritesOnlyIfRoom IsFullExact PipeInv
PROPERTIES WritesAnnounced RefinesQueue
