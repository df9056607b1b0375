CONSTANTS
    SlotsPerPage = 2
    SlotsPerRel = 2
    NodePages = 2
    RelPages = 3
    Deletions = "repaired"
    MaxNodes = 3
    MaxRecords = 5
    MaxChanges = 2
    Callers = "safe"
SPECIFICATION RecordsSpec
INVARIANTS
    OnlyRenamed
    ChainsSound
    SlotsSound
    EntriesTrue
    PlacedUnlessSkipped
    GroupedBySource
    SortedSoFar
PROPERTIES
    ChainOrderKept
CHECK_DEADLOCK FALSE
