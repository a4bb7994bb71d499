CONSTANTS
    Users = {"u", "v"}
    NULL = NULL
    RamBlocks = {1, 2, 3, 4, 5, 6, 7, 8, 9}
    FlashBlocks = {11, 12, 13, 14, 15, 16, 17, 18, 19}
    BlockCells = 3
    EntryCells = 2
    SectorFits = TRUE
    Plans <- AllPlans
SPECIFICATION Spec
CHECK_DEADLOCK FALSE
INVARIANT StoredIsKept
INVARIANT BlocksRight
INVARIANT EmptyIsErased
INVARIANT ReadsRight
