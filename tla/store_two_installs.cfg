SPECIFICATION UsedBefore
CONSTANTS
    Procs = {p1, p2}
    Versions = {v1}
    Files = {bin, lib}
    Commands = {"install"}
    Sources = {FALSE}
    Faults = {}
    HasGmake = TRUE
    Exclusive = FALSE
INVARIANT ReceiptMeansComplete
