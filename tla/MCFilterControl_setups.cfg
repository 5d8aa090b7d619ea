\* One request against every installation and every late configuration, fairly.
CONSTANTS
  Requests = {r1}
  Late = late
  off = off
  info = info
  bad = bad
  cap = cap
  WellFormed = {off, info}
  Malformed = {bad}
  Off = off
  None = None
  Unread = Unread
  Limits = {cap}
  Unlimited = Unlimited
  LateConfigs <- EveryConfig
  Setups <- EverySetup
  Breakable = {}
SPECIFICATION FairSpec
INVARIANTS
  TypeOK
  OpenMeansReady
  FailedApplyStartsNothing
  ValidatedIsApplied
PROPERTIES
  EveryoneReturns
