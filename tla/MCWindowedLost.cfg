\* What the code says of a failed registration.
SPECIFICATION Spec
CONSTANTS
  k1 = k1
  k2 = k2
  v1 = v1
  v2 = v2
  n1 = n1
  Keys = {k1, k2}
  Values = {v1, v2}
  Contents <- MCContents
  Initially <- MCInitially
  Notes = {n1}
  MaxEdits = 1
  MaxFaults = 1
PROPERTIES
  NotesArrive
