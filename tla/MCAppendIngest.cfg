\* One stream, two instants, two replicates, requests of two rows, two failures.
SPECIFICATION Spec
CONSTANTS
  Streams = {s1}
  MaxTime = 2
  MaxGroup = 2
  BatchSize = 2
  RetryMax = 1
  MaxFaults = 2
  Inadmissible <- MCInadmissible
INVARIANTS
  TypeOK
  NoGap
  RequestsHoldWholeGroups
PROPERTIES
  DeferredRefetched
  ImplementsReplica
  EveryRowArrives
CHECK_DEADLOCK FALSE
