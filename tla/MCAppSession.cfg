\* Three uuids and two master keys are drawn at most: an identity, a second one
\* after a reset, and a restore in between.
CONSTANTS
  Users = {u1, u2, u3}
  Keys = {k1, k2}
  Aggs = {a1}
  None = None
SPECIFICATION FairSpec
INVARIANT SessionsReopen
PROPERTY FlowsEnd
