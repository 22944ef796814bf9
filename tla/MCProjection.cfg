\* One reload and one event that cannot be read, and everything written is taken up
\* in the end.
CONSTANTS
  Readers = {c1}
  BatchSize = 2
  MaxEvents = 3
  MaxReloads = 1
  MaxEventFaults = 1
SPECIFICATION FairSpec
CONSTRAINT Explored
INVARIANTS ProjectionTypeOK SettledIsEffective
PROPERTIES FlushFresh Settles
CHECK_DEADLOCK FALSE
