CONSTANTS
  Requests = {r1, r2, r3, r4}
  SubscriptionTypes = {"free", "basic"}
  FreePlan = "free"
  QuotaMap <- MCQuotaMap
  MaxCrashes = 1
SPECIFICATION QuotaSpec
INVARIANTS
  CountIsExact
  NeverOverGranted
