SPECIFICATION Spec
CHECK_DEADLOCK FALSE
CONSTANTS
    o1 = o1
    o2 = o2
    t1 = t1
    f1 = f1
    None = None
    Tomb = Tomb
    Owners = {o1, o2}
    Tmpls = {t1}
    Facets = {f1}
    MaxId = 2
    HeadK = 1
    Slack = 0
    InitAssets <- OneAsset
    Mints <- OneMint
    MaxPerBlock = 2
    MaxBlocks = 2
    MaxCompactions = 1
    MaxReorgs = 1
    DRAIN_BATCH = 1
    FINAL_BATCH = 0
INVARIANTS ServedIsChain  ReadsAgree
