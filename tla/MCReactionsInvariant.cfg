SPECIFICATION Spec
CONSTANTS
    p1 = p1
    p2 = p2
    Projects = {p1, p2}
    Histories <- MCHistories
CONSTRAINT Explored
CHECK_DEADLOCK FALSE
INVARIANT BatchInv SaneInv CopyInv AgreeInv VersionInv DueInv
