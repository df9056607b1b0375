CONSTANTS
    SlotsPerPage = 4
    SlotsPerRel = 2
    NodePages = 1
    RelPages = 1
    Deletions = "any"
SPECIFICATION Spec
INVARIANTS
    ExpandComplete
CHECK_DEADLOCK FALSE
