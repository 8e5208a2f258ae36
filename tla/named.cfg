CONSTANTS
  r1 = r1
  r2 = r2
  r3 = r3
  r4 = r4
  r5 = r5
  o1 = o1
  o2 = o2
  NoResource = NoResource
  NoOperation = NoOperation
  NoDefinition = NoDefinition
  Resources = {r1}
  Operations = {o1, o2}
  ServerAssignsIds = FALSE
  Adoptable = {r1}
  Definitions <- NamedDefinitions
  UsesSecrets = FALSE
  MaxGeneration = 2
  MaxFaults = 1
  MaxDisturbances = 1
  Disturbances = {"change", "fail"}
SPECIFICATION Spec
PROPERTIES
  Converges
  HandleEventuallyCleared
