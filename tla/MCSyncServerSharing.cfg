\* Development: the store may be reset while pushes and pulls run; pushes cite a
\* scope state and a grant while the sharing tables grow.
CONSTANTS
  Stores = {s1}
  Identities = {alice}
  NoOwner = NoOwner
  e1 = e1
  e2 = e2
  v1 = v1
  v2 = v2
  EventIds = {e1, e2}
  Records = {v1, v2}
  Requests = {r1, r2}
  Batches <- SharedBatches
  Production = FALSE
  PullLimit = 2
  MissingLimit = 2
  MaxHead = 0
  MaxBase = 2
SPECIFICATION FairSpec
INVARIANTS AuthorisedWhenChecked
PROPERTY EveryRequestAnswered
