\* The gate may be switched between submissions, and reset() may be called.
CONSTANTS
  j1 = j1
  j2 = j2
  j3 = j3
  j4 = j4
  Jobs = {j1, j2, j3}
  StoryJobs = {j1}
  MaxConcurrent = 1
  MaxQueueSize = 2
  GateValues <- Toggling
  MaxResets = 1
  MaxRestarts = 0
  MaxDbErrors = 0
SPECIFICATION JobsFairSpec
PROPERTIES
  QueuedJobRuns
  DrainReturns
  WaitingStoryJobSettles
CHECK_DEADLOCK FALSE
