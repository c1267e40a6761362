SPECIFICATION Spec
CONSTANTS
    Procs = {p1}
    Versions = {v1}
    Files = {bin, lib}
    Commands = {"install", "uninstall"}
    Sources = {FALSE}
    Faults = {"kill"}
    HasGmake = TRUE
    Exclusive = TRUE
INVARIANT ReceiptMeansComplete
