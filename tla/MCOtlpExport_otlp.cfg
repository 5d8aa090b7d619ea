\* Configurations with any plain URL of up to five tokens, any distribution of
\* two headers, or any interval: two ticks a second, three seconds at most.
CONSTANTS
  Urls <- PlainUrls
  Spellings = {"x-shared", "x-own"}
  Written <- OneField
  Composed <- ByHand
  Refusing = {"traces", "logs", "metrics"}
  Invalid = invalid
  None = none
  PerSecond = 2
  MaxSeconds = 3
  DefaultSeconds = 2
  Canonical <- OneName
SPECIFICATION Spec
INVARIANTS
  PostsToSignalPath
  HeadersReachTheirSignal
  SpecificOverridesCommon
PROPERTIES
  SavedCanBeLoaded
