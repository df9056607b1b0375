SPECIFICATION Spec
CONSTANTS
    FileTypes = {node_ft}
    HeaderPages = 1
    RecordPages = 2
    MaxFrames = 2
    MaxPins = 2
    EvictLruK = 1
    BulkModes = {FALSE, TRUE}
    CounterMod = 2
    Values = {zero, one}
    Zero = zero
    NoPage = NoPage
INVARIANTS
    TypeOK
    MapMatchesFrames
    FreeListExact
    CleanMeansSaved
PROPERTIES
    PinnedFrameStays
    DiskChangesByWriteBack
    ImplementsPageStore
CHECK_DEADLOCK FALSE
