\* A request beside a late configuration, a shutdown and a drop, under fairness.
CONSTANTS
  Requests = {r1}
  Late = late
  Good = good
  Bad = bad
  Off = off
  None = none
  Unread = unread
  Unlimited = unlimited
  WellFormed = {off, good}
  Malformed = {bad}
  Limits = {}
  LateConfigs <- FewConfigs
  Cancellable = TRUE
  Setups <- Served
SPECIFICATION FairSpec
INVARIANTS
  ManagedMeansExporting
PROPERTIES
  FiltersFrozen
  ShutdownReturns
