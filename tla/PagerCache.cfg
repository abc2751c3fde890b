SPECIFICATION Spec
CONSTANTS
  Pages = {p1, p2, p3, p4}
  Roots = {p1, p2}
  CacheSize = 3
  NoPage = NoPage
INVARIANTS
  TypeOK
  Transparent
  ReferencesValid
  EvictionSound
  OperationKeepsPages
SYMMETRY PageSymmetry
