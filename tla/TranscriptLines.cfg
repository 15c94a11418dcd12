\* Every content of up to three lines and one of its subagent, read in batches that end or fail anywhere.
SPECIFICATION Spec
CONSTANTS
    Mains = {"main"}
    Subs = {"agent"}
    Parent <- MCParent
    Ids = {"m1", "u1", "u2", "u3", "u4"}
    Tools = {"t1", "t2"}
    Dirs = {"home", "work", "tree"}
    Titles = {"one", "two"}
    None = "none"
    LinesOf <- MCLinesOf
    MaxLines <- MCMaxLines
INVARIANTS TypeOK RowsAreFirstLines PromptsExact FactsFollowLines
CHECK_DEADLOCK FALSE
