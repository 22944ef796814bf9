SPECIFICATION Spec
CONSTANTS
    p1 = p1
    p2 = p2
    Projects = {p1}
    Histories <- Relinked
CHECK_DEADLOCK FALSE
INVARIANT CompletionsAreDerived
