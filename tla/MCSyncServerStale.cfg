\* One push that cites a scope state and a grant, which change while it is served.
CONSTANTS
  Stores = {s1}
  Identities = {alice}
  NoOwner = NoOwner
  e1 = e1
  e2 = e2
  v1 = v1
  v2 = v2
  EventIds = {e1, e2}
  Records = {v1, v2}
  Requests = {r1}
  Batches <- SharedBatches
  Production = TRUE
  PullLimit = 2
  MissingLimit = 2
  MaxHead = 0
  MaxBase = 2
SPECIFICATION Spec
INVARIANT AuthorisedWhenStored
