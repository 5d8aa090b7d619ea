\* The metrics task is polled only after a late configuration.
CONSTANTS
  Setups <- LateMetrics
  Fallible = {}
  Cancellable = FALSE
  MaxOpen = 2
SPECIFICATION Spec
INVARIANTS
  MetricsKeepInitMeter
