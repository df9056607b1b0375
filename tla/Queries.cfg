CONSTANTS
    SlotsPerPage = 2
    SlotsPerRel = 2
    NodePages = 2
    RelPages = 3
    Deletions = "none"
    Weightings = {FALSE, TRUE}
    DatasetNodes = 3
    DatasetRels = 2
    MaxLabels = 3
    MaxLines = 3
    MaxWeighted = 1
    Weights = {0, 1}
    DblMax = 100
    PathDirections = {"OUTGOING"}
    MaxLandmarks = 2
    MaxSteps = 2
SPECIFICATION QuerySpec
INVARIANTS
    SlotsAccounted
    ImportSound
    ImportExact
    InMemoryAgrees
    AnswerRight
    DegreesAddUp
    LoopsSound
    NumbersRight
    DijkstraRight
    PathRight
PROPERTIES
    LoopsEnd
CHECK_DEADLOCK FALSE
