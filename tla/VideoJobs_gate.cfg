\* The gate is off for some submissions and on for others.
CONSTANTS
  j1 = j1
  j2 = j2
  j3 = j3
  j4 = j4
  Jobs = {j1, j2, j3}
  StoryJobs = {}
  MaxConcurrent = 1
  MaxQueueSize = 2
  GateValues <- Toggling
  MaxResets = 0
  MaxRestarts = 0
  MaxDbErrors = 0
SPECIFICATION JobsSpec
PROPERTIES
  GatedStartsAreSerial
CHECK_DEADLOCK FALSE
