SPECIFICATION Spec
CONSTANTS
  Names <- MCNames
  Effects <- MCEffects
  Manifests <- MCManifests
  Payloads <- MCPayloads
  MaxCalls = 2
INVARIANTS
  GuardMatchesProjection
  AskIsAnswerable
  SimulationCoversEffects
CHECK_DEADLOCK FALSE
