\* Two threads log while a late configuration attaches.
CONSTANTS
  Threads = {t1, t2}
  Unlimited = Unlimited
  Limit = 1
  MaxSecond = 1
  MaxCalls = 2
  SpawnFails = FALSE
SPECIFICATION FairSpec
INVARIANTS
  NoneLost
  NoneUnlimited
  BudgetIsUndisturbed
PROPERTIES
  DropIsReported
  HelperIsReleased
