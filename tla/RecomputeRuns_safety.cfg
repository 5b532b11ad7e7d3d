SPECIFICATION Spec
CONSTANTS
  HigherBetter <- mcHigher
  LowerBetter <- mcLower
  Aliases <- mcAliases
  RoleConfigs <- mcRoles
  ContextConfig <- mcContext
  Positives <- mcPositives
  Concerns <- mcConcerns
  LEVERAGE <- mcLeverage
  SCARCITY <- mcScarcity
  Databases <- mcDatabases
  Successors <- mcSuccessors
  Scenarios <- mcScenarios
INVARIANTS
  AnalysisIsOfOneRun
  BetterNeverRanksBelow
  EvidenceDecidesTrust
CHECK_DEADLOCK FALSE
