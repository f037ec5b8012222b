SPECIFICATION Spec
CONSTANTS
  Tools <- MCTools
  AllowedTools <- MCAllowed
  ExternalWrite <- MCWriters
  ArgRuled <- MCIssue
  Rules <- BothRules
  SafeAlias <- MCPage
  Labelled <- MCPage
  MaxRequests = 3
  MaxSessions = 2
INVARIANTS
  FlowRulesHold
  LogAccountsForWork
PROPERTIES
  CallEnds
CHECK_DEADLOCK FALSE
