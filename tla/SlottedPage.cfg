SPECIFICATION Spec
CONSTANTS
  PageSize = 10
  HeaderSize = 1
  SlotSize = 1
  NoPage = NoPage
  Recs = {a, b}
  Word = 15
  Sizes = {2, 5, 14}
  MetaSize = 2
  Junk = Junk
INVARIANTS
  TypeOK
  SlotsDisjoint
  RecordsIntact
  LoopCompacts
  RejectsOnlyWhenFull
SYMMETRY RecSymmetry
CHECK_DEADLOCK FALSE
