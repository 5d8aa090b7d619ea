\* Three requests and the late configuration race on the four filters; the
\* second OTLP layer may refuse after the first was swapped.
CONSTANTS
  Requests = {r1, r2, r3}
  Late = late
  off = off
  info = info
  bad = bad
  cap = cap
  WellFormed = {off, info}
  Malformed = {bad}
  Off = off
  None = None
  Unread = Unread
  Limits = {cap}
  Unlimited = Unlimited
  LateConfigs <- FewConfigs
  Setups <- JournaldSetups
  Breakable = {"log"}
SPECIFICATION Spec
SYMMETRY Interchangeable
INVARIANTS
  RecordIsInstalled
  LayersAgree
  Inv
PROPERTIES
  ImplementsDomains
