CONSTANTS
  PIPE_SIZE = 8
  SIZEOF_LENGTH = 2
  WORD = 32
  VERSIONS = 3
  Lengths = {1}
  BlockModes = {TRUE}
  MaxWrites = 7
  Callers = {"reader", "writer", "third"}
SPECIFICATION MonitorSpec
INVARIANTS NoFalseAlarm CountersInOrder CountNotNegative
