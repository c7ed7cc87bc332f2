\* A batch may exceed the two workers at a time; two edits of the plan, one cancelled or removed worker.
CONSTANTS
  t1 = t1
  t2 = t2
  t3 = t3
  Ids = {t1, t2, t3}
  MaxConcurrent = 2
  MaxMeddling = 1
  MaxMessages = 2
  Order <- ThreeInOrder
  Plans <- TwoPlans
  MaxTries = 2
  MaxEdits = 2
  MaxStarts = 1
SPECIFICATION FairSpec
INVARIANTS
  TypeOK
  RunsAfterDependencies
  VerdictsAreEarned
PROPERTIES
  BatchEnds
\* Nobody has to edit the plan when both executors are through.
CHECK_DEADLOCK FALSE
