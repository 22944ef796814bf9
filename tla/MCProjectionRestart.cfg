\* A reload between any two steps.
CONSTANTS
  Readers = {c1}
  BatchSize = 1
  MaxEvents = 2
  MaxReloads = 1
  MaxEventFaults = 0
SPECIFICATION ProjectionSpec
INVARIANT RestartSafe
CHECK_DEADLOCK FALSE
