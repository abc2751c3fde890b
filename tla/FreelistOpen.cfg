SPECIFICATION Spec
CONSTANTS
  MaxPages = 6
  MaxPerPage = 2
  MaxFreed = 2
  NoPage = NoPage
INVARIANT VaultOpensAgain
CHECK_DEADLOCK FALSE
