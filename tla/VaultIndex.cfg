SPECIFICATION Spec
CONSTANTS
  Ids = {u1, u2, u3}
  NoFolder = NoFolder
  NoRecord = NoRecord
  Names <- MCNames
  Queries <- MCQueries
  UpperCase <- MCUpperCase
  CaseShift = 1
  TopByte = 4
  MaxRecords = 3
  MaxStale = 2
  CounterRange = 4
INVARIANTS
  TypeOK
  MapsMirror
  SearchFindsAll
  FoldersAndCountsExact
  ReopenRestores
SYMMETRY IdSymmetry
