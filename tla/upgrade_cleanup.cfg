SPECIFICATION Spec
CONSTANTS
    Procs = {p1, p2}
    Releases <- TwoReleases
    Legible <- TwoReleases
    Commands = {"upgrade-self", "cleanup"}
    Faults = {}
    Exclusive = FALSE
CHECK_DEADLOCK FALSE
PROPERTY FailureLeavesDownload
