\* One task of every kind meets a retry, the desktop client, two failed writes and a restart.
CONSTANTS
  Tasks = {t1}
  Parts = 3
  MaxRetries = 3
  Destinations <- Everywhere
  MaxDbErrors = 2
  MaxRetryCalls = 2
  MaxRestarts = 1
SPECIFICATION FairSpec
INVARIANTS
  TypeOK
  NoNeedlessDuplicate
  RowTellsTheTruth
  OfferedTaskIsIdle
PROPERTIES
  PostsWholeFile
  TaskSettles
\* A task that is over waits for nothing.
CHECK_DEADLOCK FALSE
