\* llist_ul, stack_ul, and queue_ul without insert, which nothing calls.
CONSTANTS
    node_ft = node_ft
    relationship_ft = relationship_ft
    PageSize = 2
    SlotSize = 1
    CharBit = 2
    SizeMod = 16
    MaxPageNo = 5
    StreamPages = 2
    MaxGrowth = 3
    MaxKills = 1
    Zero = zero
    NoPage = NoPage
    Cells = {c1, c2, c3}
    Elements = {a, b}
    NULL = NULL
    Kinds = {{"insert", "take"}, {"insert", "pop last"}, {"pop first", "move_back"}}
    InitialAlloc = 1
    MaxArrayLen = 5
    TableKeys = {0, 4, 8, 1}
    SetKeys = {0, 4, 8, 16, 1}
    TableValues = {u, v}
    None = None
    Seeds = {0, 5}
    BucketStart = 2
    TooManyBuckets = 8
    MaxHeapNodes = 9
    MaxInserted = 5
    MaxLowerings = 2
    HeapKeys = {1, 2}
    Usages = {"query", "cuts"}
    HeaderCharBit = 4
    RecordPages = 2
    SlotCounts = {1, 2}
    MaxDeletes = 2
SPECIFICATION FoundationsSpec
INVARIANTS
    TypeOK
    BookkeepingExact
    RefusedOnlyAfterKill
    SlotsCounted
    HeaderGrowthFits
    EvictionQueueExact
    GivesUpWhenPinned
    ListsIntact
    HeapSound
    BitsSound
PROPERTIES
    OpensAtTheEnds
    ListsImplementListSeq
    TablesImplementDictionary
    TakesLeastFree
