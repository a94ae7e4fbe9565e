CONSTANTS
  ShmSet = {"shm_copy", "test1", "test2"}
  Processes = {p1, p2}
  Blocks = 8
  Tools = {"gordon", "proctest", "grab_file_test", "extract_symtab"}
  LinkMaps <- MCLinkMaps
  BitNumbers = {0, 6, 7, 8, 15}
  Bytes = 2
  SIZE = 7
  Texts <- MCTexts
  MaxAppends = 5
  Platforms = {"sparc", "power_xlc", "power_gnu", "x86", "gnu"}
  Slots = 2
  MaxWrites = 3
  p1 = p1
  p2 = p2
SPECIFICATION MCSpec
CHECK_DEADLOCK FALSE
INVARIANTS LeftoverExplained FoundMeansRecorded FunctionsCounted BitmapIsSet MessageIsPrefix
  FreshRead AnnouncedFirst CountersInStep
