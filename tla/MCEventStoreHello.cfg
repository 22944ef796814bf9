SPECIFICATION Spec
CONSTANTS
    Tabs = {t1, t2}
    MaxWrites = 0
    MaxOpens = 2
    MaxFaults = 0
    MaxCloses = 0
INVARIANT SharedServesAll
CHECK_DEADLOCK FALSE
