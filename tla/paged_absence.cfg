SPECIFICATION Spec
CONSTANTS
  Size = 3
  PageSize = 2
  Identifiers = {1, 2}
  Searches <- RemappedSearches
  Contents <- OnlyStrangers
INVARIANTS
  AbsenceIsNoError
