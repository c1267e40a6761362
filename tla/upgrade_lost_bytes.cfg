SPECIFICATION Spec
CONSTANTS
    Procs = {p1}
    Releases <- TwoReleases
    Legible <- TwoReleases
    Commands = {"upgrade-self"}
    Faults = {"flush"}
    Exclusive = TRUE
CHECK_DEADLOCK FALSE
PROPERTY SuccessIsUpgrade
