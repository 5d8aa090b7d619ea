\* An abandoned shutdown() makes the next one return early.
CONSTANTS
  Setups <- ServedExport
  Fallible = {}
  Cancellable = TRUE
  MaxOpen = 2
SPECIFICATION Spec
INVARIANTS
  OkMeansDown
