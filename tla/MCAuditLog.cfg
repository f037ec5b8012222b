SPECIFICATION Spec
CONSTANTS
  Tools <- MCTools
  Worlds <- MCWorlds
  RootWorld = "root"
  StdioWorld = "open"
  WorldTables <- MCWorldTables
  MockTools <- MCMock
  ScopedTools <- MCScoped
  SideEffect <- MCSideEffect
  Scenarios <- MCScenarios
  SeedLength = 1
  MaxLines = 3
  MaxSwitches = 3
  MaxTears = 2
INVARIANTS
  TypeOK
  ReplaysReproduce
  LogExplainsWorlds
  IdsTellTheirLines
PROPERTIES
  TracesStay
CHECK_DEADLOCK FALSE
