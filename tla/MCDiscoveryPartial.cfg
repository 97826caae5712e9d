\* What the code says of a partial pass.
SPECIFICATION Spec
CONSTANTS
  Keys = {k1, k2}
  Versions = {a, b}
  Refused = {}
  MaxEdits = 0
  MaxFaults = 1
INVARIANTS
  PartialPassRetried
