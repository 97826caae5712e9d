\* Refusals, lost answers, crashes, one stream refused for good.
SPECIFICATION Spec
CONSTANTS
  Keys = {k1, k2}
  Versions = {a, b}
  Refused = {k2}
  MaxEdits = 2
  MaxFaults = 3
INVARIANTS
  TypeOK
  CacheIsTruthUnlessLost
PROPERTIES
  PassesConverge
  StillSourceConverges
