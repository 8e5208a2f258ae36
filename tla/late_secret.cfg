CONSTANTS
  r1 = r1
  r2 = r2
  r3 = r3
  r4 = r4
  r5 = r5
  o1 = o1
  o2 = o2
  NoResource = NoResource
  NoOperation = NoOperation
  NoDefinition = NoDefinition
  Resources = {r1, r2, r3}
  Operations = {o1}
  ServerAssignsIds = TRUE
  Adoptable = {}
  Definitions <- PlainDefinitions
  UsesSecrets = TRUE
  MaxGeneration = 2
  MaxFaults = 0
  MaxDisturbances = 0
  Disturbances = {}
SPECIFICATION Spec
PROPERTIES
  Converges
