\* The gate stays on; a crash and a failing UPDATE may happen.
CONSTANTS
  j1 = j1
  j2 = j2
  j3 = j3
  j4 = j4
  Jobs = {j1, j2, j3, j4}
  StoryJobs = {j1}
  MaxConcurrent = 1
  MaxQueueSize = 2
  GateValues <- AlwaysOn
  MaxResets = 0
  MaxRestarts = 1
  MaxDbErrors = 1
SPECIFICATION JobsSpec
SYMMETRY KindSymmetry
INVARIANTS
  AcceptedJobHasOnePlace
  RowTellsTheAnswer
PROPERTIES
  ImplementsLine
  ShutdownLosesNothing
  FinalOnceAnswered
CHECK_DEADLOCK FALSE
