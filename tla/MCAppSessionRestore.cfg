\* A backup and a dump, a reset, and a restore of both.
CONSTANTS
  Users = {u1, u2}
  Keys = {k1}
  Aggs = {a1}
  None = None
SPECIFICATION Spec
INVARIANT BackupSuffices
