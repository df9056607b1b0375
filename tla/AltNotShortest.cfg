CONSTANTS
    SlotsPerPage = 2
    SlotsPerRel = 2
    NodePages = 2
    RelPages = 3
    Deletions = "none"
    Weightings = {FALSE}
    DatasetNodes = 3
    DatasetRels = 3
    MaxLabels = 3
    MaxLines = 3
    MaxWeighted = 1
    Weights = {1, 3}
    DblMax = 100
    PathDirections = {"BOTH"}
    MaxLandmarks = 1
    MaxSteps = 0
SPECIFICATION QuerySpec
PROPERTIES
    ShortestByAlt
CHECK_DEADLOCK FALSE
