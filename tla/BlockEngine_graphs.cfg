CONSTANTS
  NodeList <- ThreeNodes
  Graphs <- AllGraphs
  MaxRetries = 2
  MaxFaults = 1
SPECIFICATION FairSpec
INVARIANTS
  TypeOK
  OrderIsTopological
  RunsAfterUpstream
  StoredAgrees
  OutcomeIsHonest
PROPERTIES
  RunEnds
CHECK_DEADLOCK FALSE
