SPECIFICATION MCSpec
CONSTANTS
    FirstBlock = 1
    MaxBlock = 4
    MaxEntries = 5
    INDEX_PAGE = 2
    None = None
    Refused = Refused
    NoContent = NoContent
    CacheBlocks = 2
    MaxBlocksPerBatch = 2
    MaxBroken = 1
    MAX_BATCH_ITEMS = 3
    INPUT_WINDOW = 2
    INLINE_STEP_MIN = 1
    INLINE_STEP_MAX = 2
    COUNT_SCRATCH = 2
    RECORD = 2
    MAX_BYTES = 12
    MAX_BLOCKS = 4
    Rich = {3}
    SCAN_CHUNK = 2
    MAX_REGIONS = 2
    MaxChanges = 1
INVARIANTS
    RepairsTruly
    FindsCorruption
    
    Walked
    BlocksChecked
    StrictReads
    HydratesTruly
    AcceptsIntact
CHECK_DEADLOCK FALSE
