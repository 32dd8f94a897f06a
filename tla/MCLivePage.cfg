SPECIFICATION Spec
CHECK_DEADLOCK FALSE
CONSTANTS
    o1 = o1
    o2 = o2
    t1 = t1
    f1 = f1
    None = None
    Tomb = Tomb
    Owners = {o1, o2}
    Tmpls = {t1}
    Facets = {f1}
    MaxId = 4
    HeadK = 2
    Slack = 0
    InitAssets <- FourAssets
    Mints <- NoMints
    MaxPerBlock = 1
    MaxBlocks = 2
    MaxCompactions = 0
    MaxReorgs = 0
    DRAIN_BATCH = 1
    FINAL_BATCH = 0
INVARIANT PageIsFull
