SPECIFICATION Spec
CONSTANTS
  PageSize = 10
  HeaderSize = 1
  SlotSize = 1
  NoPage = NoPage
  Recs = {a, b}
  Word = 15
  Sizes = {2, 3}
  MetaSize = 2
  Junk = Junk
INVARIANT PayloadsSurviveSave
SYMMETRY RecSymmetry
