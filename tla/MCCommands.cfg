SPECIFICATION Spec
CONSTANTS
    Handlers = {h1, h2}
    Keys = {k1, k2}
    Kinds = {"goal", "project"}
    History <- MCHistory
    Creates <- MCCreates
    Offered <- MCOffered
    Remote <- MCRemote
    MaxRemote = 1
    MaxEffects = 2
SYMMETRY Symmetry
INVARIANT TypeOK LoadIsReplay HistoryLegal ExactlyOnce ReadModelAgrees
\* Every command was sent and nobody resends a form's.
CHECK_DEADLOCK FALSE
