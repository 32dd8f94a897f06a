SPECIFICATION FairSpec
CONSTANTS
    Clients = {c1, c2}
    Slots = {k1}
    Ship = Ship
    None = None
    MaxConnections = 2
    MaxBodyBytes = 3
    IoThreads = 1
    Capacity = 5
    UNRESERVED_BODY = 1
    SLACK = 1
    MAX_EXPANSION = 2
    HexExpansion = 1
    Requests <- MCRequests
    ShipBytes = 2
    MaxVisits = 5
    MaxBuilds = 1
CHECK_DEADLOCK FALSE
INVARIANT Accounted
PROPERTY RequestsEnd
