\* A client whose texts are all sent, and whose server is closed, stops.
CHECK_DEADLOCK FALSE
SPECIFICATION FairSpec
CONSTANTS
  Policies <- SomePolicies
  HasGeometry = TRUE
  MaxTransitions = 2
  Handlers = {h1}
  Texts = 1
  Chunks = 2
  Targets = {Clipboard}
  Clipboard = Clipboard
  NoTarget = NoTarget
  Quota = 1
  Kept = 2
  MaxLeases = 2
INVARIANTS
  TypeOK
  ReceiptsTruthful
PROPERTIES
  EffectPermitted
  RequestsEnd
  TransitionsEnd
