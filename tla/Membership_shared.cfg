\* Both databases are one file: everything meets on the same rows.
CONSTANTS
  c1 = c1
  SharedDatabase = TRUE
  Checkouts = {c1}
  PlanOf <- MCPlanOf
  Copies = {d1}
  Upgrades = {u1, u2}
  Sessions = {s1}
  PremiumPlans = {"pro"}
  OtherPlans = {"free"}
  Period = 3
  AccessLife = 1
  RefreshLife = 2
  TicksPerDay = 2
  MaxTime = 4
  MaxRestarts = 1
SPECIFICATION Spec
INVARIANTS
  ExpiredMeansFree
  TokensFade
PROPERTIES
  NoEarlyExpiry
SYMMETRY Symmetry
CHECK_DEADLOCK FALSE
