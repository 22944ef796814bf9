\* One event whose analytics cannot be updated; no reload.
CONSTANTS
  Readers = {}
  BatchSize = 2
  MaxEvents = 1
  MaxReloads = 0
  MaxEventFaults = 1
SPECIFICATION ProjectionSpec
INVARIANT RestartSafe
CHECK_DEADLOCK FALSE
