\* A stop while Add waits for a buffer nobody empties.
SPECIFICATION FairSpec
CONSTANTS
    projects = projects  project = project  subagents = subagents
    Dirs <- MCDirs  Roots <- MCRoots  Up <- MCUp  Quiet <- MCQuiet  Busy <- MCBusy
    BufCap = 1  MaxChanges = 2  AddBlocks = TRUE
PROPERTY StopEnds
\* Once Run has returned nothing is left to do.
CHECK_DEADLOCK FALSE
