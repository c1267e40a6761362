SPECIFICATION RmSpec
CONSTANTS
    Dirs <- MCDirs
    Files <- MCFiles
    Links <- MCLinks
    Shipped <- MCShipped
    Target <- MCTarget
    Nowhere <- MCNowhere
    MaxLinks = 2
    Faults = {}
PROPERTIES
    SparesTheRest
CHECK_DEADLOCK FALSE
