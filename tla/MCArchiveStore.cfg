SPECIFICATION Spec
CONSTANTS
    N = 3
    Fork = 2
    None = None
    Err = Err
    LogKinds <- MCLogKinds
    Found <- MCFound
    Ranges <- MCRanges
CHECK_DEADLOCK FALSE
INVARIANTS AssembledExactly OneChain CoverageHonest
