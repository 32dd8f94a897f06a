SPECIFICATION FairSpec
CONSTANTS
    MaxU32 = 3
    LastBlock = 2
    Wants = {"v0", "v1"}
    DefaultWant = "v0"
    NoJob = NoJob
    Asks <- MCAsks
    Acks = {1, 3}
    Versions = {"v0", "v1"}
    MaxQueuedStatus = 2
    MaxMsgs = 3
INVARIANTS
    MessagesSound
    NoSkipNoRepeat
    WithinCredit
    NoLostWakeup
    RestartsAtLowestUnknown
PROPERTIES
    SessionServes
    ImplementsContract
