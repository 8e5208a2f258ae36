CONSTANTS
  r1 = r1
  r2 = r2
  r3 = r3
  r4 = r4
  r5 = r5
  o1 = o1
  o2 = o2
  NoResource = NoResource
  NoOperation = NoOperation
  NoDefinition = NoDefinition
  Resources = {r1, r2, r3, r4}
  Operations = {o1, o2}
  ServerAssignsIds = TRUE
  Adoptable = {r1}
  Definitions <- RepeatableDefinitions
  UsesSecrets = FALSE
  MaxGeneration = 2
  MaxFaults = 1
  MaxDisturbances = 1
  Disturbances = {"lateDelete", "change", "fail"}
SPECIFICATION Spec
INVARIANTS
  NoDuplicateEver
PROPERTIES
  Converges
  DeletionCompletes
  HandleEventuallyCleared
