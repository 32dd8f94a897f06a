SPECIFICATION MCSpec
CONSTANTS
    FirstBlock = 1
    FirstEnd = 3
    LastBlock = 4
    Docs <- MCDocs
    Threads = {t1, t2}
    Chunk = 2
    MaxCrashes = 1
    MaxFails = 1
    None = None
    NoAbi = NoAbi
    NoReceipt = NoReceipt
    NoDoc = NoDoc
    NoRev = NoRev
    NoSet = NoSet
    NoRow = NoRow
    Batch = 2
    MaxFaults = 1
    Runs = {"r1", "r2"}
    Accounts = {"a", "b", "sysio"}
    MaxChanges = 1
    EndOf <- MCEndOf
    EndId <- MCEndId
    Sources <- MCSources
    Truth <- MCTruth
    TransferMemo = {}
    Tools = {"action", "delta", "wire", "load"}
    NumBlocks = 3
    NumThreads = 2
    Posters = {1, 2}
    PartitionSize = 2
    Traces <- MCTraces
    Deltas <- MCDeltas
    KvRows <- MCKvRows
    AbiLines <- MCAbiLines
    Capacity <- MCCapacity
    LoadLines <- MCLoadLines
    Jobs <- MCJobs
    Slots = {1, 2}
    RowBound = 1
    OutBound = 1
    BatchBound = 1
INVARIANTS
    TrimmedIsReemitted
CHECK_DEADLOCK FALSE
