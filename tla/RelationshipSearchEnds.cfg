CONSTANTS
    SlotsPerPage = 2
    SlotsPerRel = 2
    NodePages = 1
    RelPages = 3
    Deletions = "none"
SPECIFICATION SearchSpec
PROPERTIES
    SearchEnds
CHECK_DEADLOCK FALSE
