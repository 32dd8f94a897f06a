SPECIFICATION FairSpec
CONSTANTS
    MaxU32 = 2
    LastBlock = 1
    Wants = {"v0", "v1"}
    DefaultWant = "v0"
    NoJob = NoJob
    NoBuild = NoBuild
    s1 = s1
    s2 = s2
    Sessions = {s1, s2}
    Requests <- MCRequests
    NeedsIds <- MCNeedsIds
    Acks = {1}
    IoThreads = 2
    Depth = 1
    Capacity = 3
    Bound <- MCBound
    Held <- MCHeld
    Streamed = {1}
    MaxRequests <- MCMaxRequests
    MaxCredit = 1
INVARIANTS
    Accounted
    RightPackage
PROPERTY
    HeadOfLine
