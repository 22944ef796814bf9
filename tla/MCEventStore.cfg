SPECIFICATION Spec
CONSTANTS
    Tabs = {t1, t2}
    MaxWrites = 3
    MaxOpens = 2
    MaxFaults = 1
    MaxCloses = 2
SYMMETRY MCSymmetry
INVARIANTS TypeOK ServedByTheOwner BatchesAreAtomic WritesAreAnnounced
CHECK_DEADLOCK FALSE
