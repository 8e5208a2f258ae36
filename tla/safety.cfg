CONSTANTS
  r1 = r1
  r2 = r2
  r3 = r3
  r4 = r4
  r5 = r5
  o1 = o1
  o2 = o2
  NoResource = NoResource
  NoOperation = NoOperation
  NoDefinition = NoDefinition
  Resources = {r1, r2, r3}
  Operations = {o1, o2}
  ServerAssignsIds = TRUE
  Adoptable = {}
  Definitions <- AllDefinitions
  UsesSecrets = FALSE
  MaxGeneration = 2
  MaxFaults = 2
  MaxDisturbances = 2
  Disturbances = {"delete", "change", "fail"}
SPECIFICATION Spec
INVARIANTS
  NoDuplicate
  ReleasedMeansGone
SYMMETRY Symmetry
PROPERTIES
  FailureOutlivesPending
  HandleKeptUntilTerminal
  ImplementsResourceLife
