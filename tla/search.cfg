SPECIFICATION Spec
CONSTANTS
  Size = 3
  PageSize = 2
  Identifiers = {1, 2}
  Searches <- SupportedSearches
  Contents <- AllContents
INVARIANTS
  TypeOK
  AbsenceIsNoError
PROPERTIES
  ImplementsLookup
  SearchEnds
