SPECIFICATION FairSpec
CONSTANTS
    Dirs <- MCDirs
    Files <- MCFiles
    Links <- MCLinks
    Shipped <- MCShipped
    Target <- MCTarget
    Nowhere <- MCNowhere
    MaxLinks = 2
    Faults = {"kill", "unlink", "disk", "grow"}
    Versions = {"v", "w"}
    Urls = {"binaryurl"}
    Torn <- MCTorn
CHECK_DEADLOCK FALSE
INVARIANTS
    TypeOK
    SuccessMetNoDirLink
    RemovesAllAlone
    AnswersHeldOnce
    ListsAllThatStay
    ReadsOnlyWholeReceipts
    CrashOnlyOnCutReceipt
    DirectoryInv
PROPERTIES
    TakesOnlyThroughLinks
    ImplementsRemoval
    CommandsEnd
