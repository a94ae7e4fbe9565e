SPECIFICATION FairSpec
CONSTANTS
  Programs = {"fsync", "fsync_dir", "rename", "suspend", "listio"}
  Iterations = 4
  ListSize = 3
  OldLengths = {2, 5}
INVARIANTS SyncedSurvives CompleteAtClose FileLength
PROPERTY ProgramEnds
CHECK_DEADLOCK FALSE
