\* Two threads, three events each, race over two rollovers of the window.
CONSTANTS
  Threads = {t1, t2}
  Unlimited = Unlimited
  Limit = 1
  MaxSecond = 2
  MaxCalls = 3
  SpawnFails = TRUE
SPECIFICATION Spec
SYMMETRY Interchangeable
INVARIANTS
  OneHelper
  BudgetExact
  RollsBounded
  ExactAlone
