\* When all frames have been sent and all connections are over nothing more need happen.
CHECK_DEADLOCK FALSE
SPECIFICATION Spec
CONSTANTS
  Policies <- InputOrNot
  HasGeometry = TRUE
  MaxTransitions = 2
  Connections = {c1, c2}
  Nobody = Nobody
  Operations = {o1}
  Sequences_ = 3
  Limit = 1
  MaxEvents = 3
SYMMETRY Symmetry
INVARIANTS
  TypeOK
  KeysInOrder
  ReceiptsTrue
  CancelStops
  SessionsQuiet
  ViewSound
