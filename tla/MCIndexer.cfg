SPECIFICATION FairSpec
CONSTANTS
  Vaults = {v1}
  Factory = factory
  None = none
  CHUNK = 2
  MAX_ATTEMPTS = 2
  COLD_START = 1
  Retention = 2
  MaxLedger = 4
  MaxOps = 1
  MaxFaults = 1
INVARIANTS
  TypeOK
  CursorPassesOnlySettledEvents
  HandledIsMirrored
  FiledUnderItsProject
PROPERTY
  EveryEventSettled
CHECK_DEADLOCK FALSE
