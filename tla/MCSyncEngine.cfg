\* Two devices, one of them only pushes; one lost answer, failed request, reload
\* or stop / resetSyncState / start while requests and database work are under way.
CONSTANTS
  n1 = n1
  n2 = n2
  n3 = n3
  d1 = d1
  d2 = d2
  e1 = e1
  e2 = e2
  e3 = e3
  g1 = g1
  Engines = {n1, n2}
  Dbs = {d1, d2}
  DbOf <- TwoDevices
  Pullers = {n1}
  EventIds = {e1, e2}
  Aggregates = {g1}
  AggOf <- OneAggregate
  PullLimit = 2
  MissingLimit = 3
  PushBatchSize = 2
  MaxPushRetries = 2
  MaxFaults = 1
  MaxResets = 1
SPECIFICATION FairSpec
CONSTRAINT OneDisturbance
INVARIANTS TypeOK DevicesAgree
PROPERTY Converges
