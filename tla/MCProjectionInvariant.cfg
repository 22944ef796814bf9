\* The inductive invariant, with batches of two rows: a batch that is not full, one that
\* is left in the middle, three rows, one reload or rebuild, one event that cannot be read.
CONSTANTS
  Readers = {c1}
  BatchSize = 2
  MaxEvents = 3
  MaxReloads = 1
  MaxEventFaults = 1
SPECIFICATION ProjectionSpec
CONSTRAINT Sound
INVARIANTS ProjectionTypeOK SettledIsEffective AloneInv LifeInv FoldInv FlushInv
PROPERTY FlushFresh
CHECK_DEADLOCK FALSE
