\* Collector URLs that already have a suffix.
CONSTANTS
  Urls <- PlainUrls
  Spellings = {"x-shared"}
  Written <- OtherUrl
  Composed = {}
  Refusing = {}
  Invalid = invalid
  None = none
  PerSecond = 2
  MaxSeconds = 3
  DefaultSeconds = 2
  Canonical <- OneName
SPECIFICATION Spec
INVARIANTS
  SuffixOnce
