SPECIFICATION Spec
CONSTANTS
  Tools = {"read", "write"}
  Names = {"read", "write", "safe_read"}
  Requests = {r1, r2}
  HostValues = {"inside", "object"}
  RawManifests <- MCManifests
  RoutingKeys = {"default", "other"}
  RoutingKey = "default"
INVARIANTS
  ListedIsCallable
  UnlistableNeverReached
  AnswerTellsEffect
PROPERTIES
  ServedFromOwnList
  EveryRequestAnswered
CHECK_DEADLOCK FALSE
