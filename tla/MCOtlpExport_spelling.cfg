\* One header name in two spellings.
CONSTANTS
  Urls <- Root
  Spellings = {"x-shared", "X-Shared"}
  Written <- OtherHeaders
  Composed = {}
  Refusing = {}
  Invalid = invalid
  None = none
  PerSecond = 2
  MaxSeconds = 3
  DefaultSeconds = 2
  Canonical <- OneName
SPECIFICATION Spec
INVARIANTS
  SpecificOverridesCommon
