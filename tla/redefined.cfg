CONSTANTS
  r1 = r1
  r2 = r2
  r3 = r3
  r4 = r4
  r5 = r5
  o1 = o1
  o2 = o2
  NoResource = NoResource
  NoOperation = NoOperation
  NoDefinition = NoDefinition
  Resources = {r1, r2, r3}
  Operations = {o1, o2}
  ServerAssignsIds = TRUE
  Adoptable = {}
  Definitions <- RedefinedDefinitions
  UsesSecrets = TRUE
  MaxGeneration = 2
  MaxFaults = 1
  MaxDisturbances = 2
  Disturbances = {"role", "definition"}
SPECIFICATION Spec
INVARIANTS
  TypeOK
  RecordedOperationIsReal
  RbacTornDown
SYMMETRY Symmetry
PROPERTIES
  NoRequestWhileRecorded
  GrantedBeforeRequest
