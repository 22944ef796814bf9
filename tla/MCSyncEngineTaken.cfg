\* A command takes the version that a page with two events has found free; the
\* rest of the page stays, and after a reset the next pull shifts it.
CONSTANTS
  n1 = n1
  n2 = n2
  n3 = n3
  d1 = d1
  d2 = d2
  e1 = e1
  e2 = e2
  e3 = e3
  g1 = g1
  Engines = {n1, n2}
  Dbs = {d1, d2}
  DbOf <- TwoDevices
  Pullers = {n1}
  EventIds = {e1, e2, e3}
  Aggregates = {g1}
  AggOf <- OneAggregate
  PullLimit = 2
  MissingLimit = 5
  PushBatchSize = 2
  MaxPushRetries = 2
  MaxFaults = 0
  MaxResets = 1
SPECIFICATION Spec
CONSTRAINT OneDisturbance
INVARIANT SyncedRowsAreKept
SYMMETRY Events
