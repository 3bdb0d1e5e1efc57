CONSTANTS
  Processes = {p1, p2, p3}
  NoProcess = NoProcess
  HasFlock = TRUE
  Faults = {"compute", "create", "write", "read", "kill"}
  MaxCalls = 2
SPECIFICATION FairSpec
INVARIANTS
  ComputedOnce
  WholeAnswers
PROPERTIES
  ResultStays
  FailureRemembered
  ImplementsOnce
  Returns
CHECK_DEADLOCK FALSE
