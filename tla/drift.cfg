CONSTANTS
  Text <- Strings
  IndexOf <- Indices
  PredicateOf <- Predicates
  Inferred <- Types
  Unequal <- NotNumbers
  SecretValue = "resolved"
  Definitions <- Understood
  MaxChanges = 3
SPECIFICATION Spec
INVARIANTS TypeOK SecretsResolved
PROPERTIES VerdictIsRight StatusIsTranslated UpdateRepairs Settles
