\* Two processes that start, migrate, listen, fail and stop as they like.
SPECIFICATION FairSpec
CONSTANTS
    Procs = {p, q}
    NMigrations = 3
    Repeatable <- MCRepeatable
    None = None
    MaxStarts = 4
INVARIANTS TypeOK SchemaSound SchemaWhole CloseAfterPass
PROPERTIES Ends
CHECK_DEADLOCK FALSE
