SPECIFICATION Spec
CONSTANTS
  Programs = {"fsync_dir"}
  Iterations = 2
  ListSize = 1
  OldLengths = {1}
INVARIANT DirectorySynced
CHECK_DEADLOCK FALSE
