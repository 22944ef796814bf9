\* Production: two concurrent handlers, two identities that contend for one store.
CONSTANTS
  Stores = {s1}
  Identities = {alice, bob}
  NoOwner = NoOwner
  e1 = e1
  e2 = e2
  v1 = v1
  v2 = v2
  EventIds = {e1, e2}
  Records = {v1, v2}
  Requests = {r1, r2}
  Batches <- PlainBatches
  Production = TRUE
  PullLimit = 1
  MissingLimit = 1
  MaxHead = 2
  MaxBase = 0
SPECIFICATION Spec
SYMMETRY Symmetry
INVARIANTS TypeOK LogDense IdsStoredOnce AppendsFit AnswersHold OwnerOnly
PROPERTY ImplementsLog
