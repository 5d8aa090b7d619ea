\* Two calls, one after the other or racing: every builder method, every refusal.
CONSTANTS
  a1 = a1
  a2 = a2
  Attempts = {a1, a2}
  Default = info
  Off = off
  Good = off
  None = none
  L1 = l1
  Unlimited = unlimited
  WellFormed = {info, off}
  Malformed = {bad}
  Limits = {l1}
  Builds <- AllOrNothing
  Calls <- RacingCalls
  Refusals = {"journald", "trace", "log", "metric", "logger", "port"}
SPECIFICATION Spec
INVARIANTS
  HandsOver
  OnlyInstallerSucceeds
  ErrorMeansNotInstalled
  ExporterErrorLeavesNothing
PROPERTIES
  ImplementsGuardInit
