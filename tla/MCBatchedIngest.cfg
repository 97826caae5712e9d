SPECIFICATION Spec
CONSTANTS
  Payloads <- MCPayloads
  BatchSizes <- MCBatchSizes
  AuditSets <- MCAuditSets
INVARIANTS
  TypeOK
  GroupsWhole
  Contiguous
  AuditsTravelWithGroup
  MatchesFirstChunk
CHECK_DEADLOCK FALSE
