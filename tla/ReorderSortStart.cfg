CONSTANTS
    SlotsPerPage = 2
    SlotsPerRel = 2
    NodePages = 2
    RelPages = 3
    Deletions = "none"
    MaxNodes = 4
    MaxRecords = 4
    MaxChanges = 2
    Callers = "safe"
SPECIFICATION ReorderSpec
INVARIANTS
    SortedAsExpanded
CHECK_DEADLOCK FALSE
