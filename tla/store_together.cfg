SPECIFICATION Spec
CONSTANTS
    Procs = {p1, p2}
    Versions = {v1, v2}
    Files = {bin}
    Commands = {"install", "reinstall", "exec"}
    Sources = {TRUE}
    Faults = {}
    HasGmake = TRUE
    Exclusive = FALSE
SYMMETRY PidSymmetry
INVARIANT
    StoreInv
PROPERTIES
    FailsOnlyInSharedPlaces
    OnlyUninstallDamages
