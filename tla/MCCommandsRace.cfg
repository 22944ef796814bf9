\* What the documents say and the code does not do: each of the three is violated,
\* SnapshotsValid also with one handler.  Put one in the place of another.
SPECIFICATION Spec
CONSTANTS
    Handlers = {h1, h2}
    Keys = {k1, k2}
    Kinds = {"goal", "project"}
    History <- MCHistory
    Creates <- MCCreates
    Offered <- MCOffered
    Remote <- MCRemote
    MaxRemote = 1
    MaxEffects = 2
CHECK_DEADLOCK FALSE
PROPERTY NoSilentOverwrite
\* INVARIANT EffectOnce
\* INVARIANT SnapshotsValid
