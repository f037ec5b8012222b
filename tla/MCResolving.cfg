SPECIFICATION ResolvingSpec
CONSTANTS
  Ids = {"", "read_only", "open"}
  RootWorldId = ""
  FallbackWorld = "read_only"
  Agents = {"mapped", "other"}
  AgentMap <- MCAgentMap
  MaxEdits = 1
  ScopedWorlds = {"a", "b"}
  StartWorld = "a"
  BaseTools = {"mail", "read"}
  Args = {"to", "cc"}
  Values = {"number", "numeral"}
  Str <- MCStr
  BaseProps <- MCBaseProps
  BaseEffect <- MCBaseEffect
  Sections <- MCSections
  Allowlists <- MCAllowlists
  JiraTools = {"read_issue", "search"}
  ReadIssue = "read_issue"
  JiraRequests = {1, 2}
  SourceNames <- MCSources
  Directories = {"d"}
  Registrable <- MCRegistrable
  FileOrder <- MCFileOrder
  StemOf <- MCStemOf
  SkillFiles = {"a.json", "a.yaml", "x:a.py"}
  Contents = {"v1", "v2"}
  MaxChanges = 1
  MaxImports = 2
INVARIANTS
  ResolvingTypeOK
  ManifestsDecide
  ScopedToolsConfine
  JiraAccounted
  CatalogueFaithful
PROPERTIES
  ReplayWorldsSettled
CHECK_DEADLOCK FALSE
