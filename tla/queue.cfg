\* A queue that nobody calls any more stops.
CHECK_DEADLOCK FALSE
SPECIFICATION FairSpec
CONSTANTS
  Threads = {t1, t2, t3}
  Capacity = 1
  MaxCalls = 1
  Uses = {"input", "action", "reset", "drain", "close"}
  NoCall = NoCall
INVARIANTS
  TypeOK
  RefusedNeverRuns
  ClosedQuiet
PROPERTIES
  ImplementsPromise
  ResetsApply
  CallsEnd
  TimedCallsEnd
