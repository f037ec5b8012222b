SPECIFICATION Spec
CONSTANTS
  Tools <- MCTools
  AllowedTools <- MCAllowed
  ExternalWrite <- MCWriters
  ArgRuled <- MCIssue
  Rules <- ShippedRules
  SafeAlias <- MCPage
  Labelled <- MCPage
  MaxRequests = 2
  MaxSessions = 1
INVARIANTS
  PageReadBlocksWrites
CHECK_DEADLOCK FALSE
