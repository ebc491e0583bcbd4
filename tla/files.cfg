\* When all requests have been sent and answered nothing more need happen.
CHECK_DEADLOCK FALSE
SPECIFICATION Spec
CONSTANTS
  Policies <- InputOnly
  HasGeometry = FALSE
  MaxTransitions = 2
  Handlers = {h1, h2}
  Batches = {b1}
  Posts = {p1}
  Singles = {s1}
  MaxRequests = 2
  MaxRestarts = 1
SYMMETRY Symmetry
INVARIANTS
  TypeOK
  CopiedOnce
  AnswersTruthful
  AnswersLast
  NoneStuck
PROPERTIES
  EffectPermitted
