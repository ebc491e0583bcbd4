\* A client whose texts are all sent, and whose server is closed, stops.
CHECK_DEADLOCK FALSE
SPECIFICATION Spec
CONSTANTS
  Policies <- SomePolicies
  HasGeometry = FALSE
  MaxTransitions = 2
  Handlers = {h1, h2}
  Texts = 1
  Chunks = 1
  Targets = {app, Clipboard}
  Clipboard = Clipboard
  NoTarget = NoTarget
  Quota = 1
  Kept = 2
  MaxLeases = 0
SYMMETRY Symmetry
INVARIANTS
  ReceiptsTruthful
  DiscardedNeverTyped
  TransitionsQuiet
PROPERTIES
  TargetKept
