\* No change is lost, all are seen, directories get watched, and a stop ends.
SPECIFICATION FairSpec
CONSTANTS
    projects = projects  project = project  subagents = subagents
    Dirs <- MCDirs  Roots <- MCRoots  Up <- MCUp  Quiet <- MCQuiet  Busy <- MCBusy
    BufCap = 2  MaxChanges = 3  AddBlocks = FALSE
INVARIANTS TypeOK ChangesAnnounced
PROPERTIES ChangesSeen AllWatched StopEnds
\* Once Run has returned nothing is left to do.
CHECK_DEADLOCK FALSE
