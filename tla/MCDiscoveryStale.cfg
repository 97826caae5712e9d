\* What the code says of its cache.
SPECIFICATION Spec
CONSTANTS
  Keys = {k1, k2}
  Versions = {a, b}
  Refused = {}
  MaxEdits = 1
  MaxFaults = 1
INVARIANTS
  CacheIsTruth
