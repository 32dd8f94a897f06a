SPECIFICATION Spec
CONSTANTS
    MaxBlock = 3
    Fork = 2
    Payloads = {0, 1}
    RecentBlocks = 2
    RecentBytes = 1
    MaxRestore = 1
    Torn = Torn
    None = None
    Err = Err
    MaxLog = 3
    Inputs <- MCInputs
    Foreign <- MCForeign
    MaxChanges = 1
CHECK_DEADLOCK FALSE
INVARIANTS RecoversSoundly ReportsExact
