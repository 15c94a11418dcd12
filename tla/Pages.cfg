\* One request at a time, a pass with two commits between its queries, a
\* stop at any moment.
SPECIFICATION FairSpec
CONSTANTS
    Ids <- MCIds
    Contents <- MCContents
    Histories <- MCHistories
    Labels <- MCLabels
    Text <- MCText
    Filters <- MCFilters
    Looked <- MCLooked
    Brings <- MCBrings
    PerPage = 2
    MaxPage = 2
    DefLimit = 1
    MaxLimit = 2
    Numbers <- MCNumbers
    None = None
    MaxPasses = 1
    MaxCommits = 2
INVARIANTS TypeOK ListBounded PageExact EmptyOnlyAfterLoss AnswerHonest StatusInOrder
PROPERTIES EveryRequestEnds
CHECK_DEADLOCK FALSE
