SPECIFICATION ServingSpec
CONSTANTS
  MaxLines = 5
  Tools <- MCTools
  Worlds <- MCWorlds
  Allowlist <- MCAllowlist
  InitialWorld = "root"
  Switchers = {s1, s2}
  Callers = {c1}
  MaxHistory = 4
  MaxInput = 3
  McTools <- MCAttackTools
  BaselineHandlers = {"read_file", "send_email", "dangerous_exec"}
  McRegistry = {"read_file", "send_email", "dangerous_exec"}
  McEffect <- MCEffect
  McTables <- MCTables
  AttackFiles <- MCAttackFiles
  MaxAttackFiles = 2
INVARIANTS
  ServingTypeOK
  StreamFaithful
  SwitchesChainUp
  AnswersInStep
  VerdictsTrusted
PROPERTIES
  AllKeepMoving
CHECK_DEADLOCK FALSE
