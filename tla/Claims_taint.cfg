SPECIFICATION Spec
CONSTANTS
  Tools <- AllTools
  Worlds <- MCWorlds
  RootWorld = "root"
  InitialWorld = "root"
  WorldTables <- MCWorldTables
  Catalog <- MCCatalog
  SideEffect <- MCSideEffect
  SimulateExternal = TRUE
  LibraryCallers = FALSE
  MaxTokens = 1
  MaxRuns = 1
  MaxAudit = 2
INVARIANT
  TaintedExternalIsDenied
