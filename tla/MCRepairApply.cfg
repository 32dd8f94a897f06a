\* The device fails, records decay, another process writes, power is lost.
SPECIFICATION Spec
CONSTANTS
    NumExtents = 2
    NumRecords = 2
    Bundles = {b1, b2}
    None = None
    MaxFailures = 1
    MaxDecays = 1
    MaxForeign = 1
    MaxLosses = 1
SYMMETRY BundleSymmetry
INVARIANT AppliedSoundly
PROPERTY NeverOverwritten
CHECK_DEADLOCK FALSE
