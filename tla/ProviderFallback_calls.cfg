\* A chain and a routed call overlap; two changes by the administrator.
CONSTANTS
  a = a
  b = b
  Providers = {a, b}
  Order <- ByName
  Threshold = 2
  Cooldown = 2
  ChainCalls = {k1}
  RoutedCalls = {r1}
  MaxChanges = 2
SPECIFICATION FairSpec
INVARIANTS
  TypeOK
  FailingProviderIsIsolated
  RoundRobinIsFair
PROPERTIES
  OpenCircuitCools
