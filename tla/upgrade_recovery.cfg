SPECIFICATION FairSpec
CONSTANTS
    Procs = {p1}
    Releases <- TagTrouble
    Legible <- TagsRead
    Commands = {"upgrade-self", "cleanup", "integrate"}
    Faults = {"kill", "net", "disk", "flush"}
    Exclusive = TRUE
CHECK_DEADLOCK FALSE
INVARIANT
    TypeOK
PROPERTIES
    CommandEnds
    AloneSucceeds
    IntegrateRenews
