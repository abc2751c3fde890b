SPECIFICATION Spec
CONSTANTS
  MaxPages = 6
  MaxPerPage = 2
  MaxFreed = 2
  NoPage = NoPage
INVARIANTS
  TypeOK
  EveryPageHasOneUse
  FileListIsSafe
PROPERTIES
  RestartCountsPages
  SupplySpec
CHECK_DEADLOCK FALSE
