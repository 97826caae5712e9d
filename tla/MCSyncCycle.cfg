\* A curve stored at any moment, two changes of what works.
SPECIFICATION Spec
CONSTANTS
  Rediscover = FALSE
  MaxCurves = 1
  MaxChanges = 2
INVARIANTS
  TypeOK
PROPERTIES
  FreshMappings
  CompletedMeansAll
  NothingHeldBack
