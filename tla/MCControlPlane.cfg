\* Outages, expiries, revocations, restarts and changes without a bound.
SPECIFICATION PlaneSpec
CONSTANTS
  Configured = 3
  Floor = 2
  Settable = {0}
  Horizon = 3
INVARIANTS
  PlaneTypeOK
  StaleWithCause
  RefusedWithCause
PROPERTIES
  NoNeedlessEnrolment
  FullIntervalBetween
  SessionRecovers
  CadenceAdopted
  TicksGoOn
