SPECIFICATION Spec
CONSTANTS
  Tools <- ApprovalTools
  Worlds <- MCWorlds
  RootWorld = "root"
  InitialWorld = "root"
  WorldTables <- MCWorldTables
  Catalog <- MCCatalog
  SideEffect <- MCSideEffect
  SimulateExternal = FALSE
  LibraryCallers = TRUE
  MaxTokens = 2
  MaxRuns = 2
  MaxAudit = 3
INVARIANTS
  DirectRunsCleared
  ApprovedRunsCleared
  ApprovalsAccounted
PROPERTIES
  ImplementsGate
