SPECIFICATION Spec
CONSTANTS
    FileTypes = {node_ft}
    HeaderPages = 1
    RecordPages = 2
    MaxFrames = 2
    MaxPins = 1
    EvictLruK = 1
    BulkModes = {FALSE, TRUE}
    CounterMod = 1
    Values = {zero}
    Zero = zero
    NoPage = NoPage
INVARIANT
    AllPinnedIsTrue
CHECK_DEADLOCK FALSE
