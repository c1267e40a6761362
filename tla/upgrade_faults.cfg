SPECIFICATION Spec
CONSTANTS
    Procs = {p1, p2}
    Releases <- TwoReleases
    Legible <- TwoReleases
    Commands = {"ls-available", "upgrade-self"}
    Faults = {"kill", "net", "disk"}
    Exclusive = TRUE
SYMMETRY PidSymmetry
CHECK_DEADLOCK FALSE
INVARIANTS
    UpgradeInv
    LostOnlyToUpgrades
PROPERTIES
    NeverDowngrades
    SuccessIsUpgrade
    AloneSucceeds
