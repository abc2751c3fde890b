SPECIFICATION Spec
CONSTANTS
  Ids = {i1, i2}
  Texts = {a, b}
  NoFolder = NoFolder
  Overlong = Overlong
  DataRoot = DataRoot
  IndexRoot = IndexRoot
  Pool = {p1, p2}
  SlotCount = 2
  Empty = Empty
  Cut = Cut
  Absent = Absent
  Unreadable = Unreadable
  NoChange = NoChange
INVARIANTS TypeOK RefsSound QueriesAgree
PROPERTIES VaultSpec
CHECK_DEADLOCK FALSE
SYMMETRY Symmetry
