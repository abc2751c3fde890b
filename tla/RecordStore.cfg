SPECIFICATION Spec
CONSTANTS
  PageSize = 9
  HeaderSize = 1
  SlotSize = 1
  NoPage = NoPage
  Pages = {p1, p2, p3}
  Root = p1
  Keys = {a, b}
  Word = 15
  Sizes = {2, 3, 14}
  NoRef = NoRef
INVARIANTS
  TypeOK
  FreeSpaceMapExact
  ChainSound
  IndexResolves
  NoOrphanSlot
  CleanPagesMatchDisk
PROPERTIES
  ReopenRestores
SYMMETRY StoreSymmetry
CHECK_DEADLOCK FALSE
