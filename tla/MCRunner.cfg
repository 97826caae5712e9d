\* Every kind of cycle and of row, pauses and resumes, a failing call, a restart.
SPECIFICATION Spec
CONSTANTS
  QueueCap = 1
  CreateAttempts = 2
  Issuable = {"trigger_sync", "pause", "resume"}
  MaxCommands = 2
  MaxTicks = 1
  MaxFaults = 1
  MaxRestarts = 1
INVARIANTS
  TypeOK
  DeadRowsArePaidFor
PROPERTIES
  LastWordSticks
CHECK_DEADLOCK FALSE
