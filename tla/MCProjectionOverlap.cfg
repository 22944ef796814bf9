\* Two rows that arrive while start() is in its first pass; no reload, no fault.
CONSTANTS
  Readers = {}
  BatchSize = 2
  MaxEvents = 2
  MaxReloads = 0
  MaxEventFaults = 0
SPECIFICATION FairSpec
PROPERTY EventuallyConsistent
CHECK_DEADLOCK FALSE
