SPECIFICATION FairSpec
CONSTANTS
    Procs = {p1}
    Versions = {v1}
    Files = {bin}
    Commands = {"install", "uninstall", "reinstall", "is-available"}
    Sources = {TRUE, FALSE}
    Faults = {"kill", "net", "disk", "unlink", "build"}
    HasGmake = FALSE
    Exclusive = TRUE
INVARIANTS
    TypeOK
    StoreInv
PROPERTIES
    ImplementsLifecycle
    ReceiptOnlyOverCompleteTree
    SuccessIsTrue
    InstallRepairs
    CommandEnds
