\* Every kind of command, a full queue, two failing calls.
SPECIFICATION Spec
CONSTANTS
  QueueCap = 1
  CreateAttempts = 2
  Issuable = {"trigger_sync", "pause", "resume", "service"}
  MaxCommands = 2
  MaxTicks = 0
  MaxFaults = 2
  MaxRestarts = 0
PROPERTIES
  HeartbeatsGoOn
  EveryTriggerRuns
  PauseConverges
CHECK_DEADLOCK FALSE
