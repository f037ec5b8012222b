SPECIFICATION DecisionSpec
CONSTANTS
  Tools = {t1}
  Capabilities = {c1, c2}
  Channels <- MCChannels
  TaintedChannels <- MCTaintedChannels
  MaxParents = 2
SYMMETRY MCSymmetry
INVARIANTS
  EnginesAgree
  AskOnlyWhatExists
  FlagIsRecomputable
PROPERTIES
  TaintedChainNeverActs
