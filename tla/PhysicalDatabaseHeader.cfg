\* Processes that may be killed at any step.
CONSTANTS
    node_ft = node_ft
    relationship_ft = relationship_ft
    PageSize = 2
    SlotSize = 1
    CharBit = 2
    SizeMod = 16
    MaxPageNo = 5
    StreamPages = 2
    MaxGrowth = 3
    MaxKills = 1
SPECIFICATION Spec
INVARIANTS
    HeaderCoversSlots
