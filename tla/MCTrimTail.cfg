SPECIFICATION Spec
CONSTANTS
    Journals = {j1, j2}
    None = None
    TailLen <- MCTailLen
    TornWrites = TRUE
    MaxPowerLoss = 1
    MaxForeign = 1
SYMMETRY MCSymmetry
INVARIANTS  IndexCoversLog AWayBack
PROPERTIES ReceiptsTrue
CHECK_DEADLOCK FALSE
