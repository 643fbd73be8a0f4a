SPECIFICATION JobsSpec

CONSTANTS
    b1 = b1
    b2 = b2
    Batches <- MCBatches
    ItemCount = 2
    MaxPolls = 2

SYMMETRY MCSymmetry
PROPERTY KeepsPromise
INVARIANT RecordsAgree
PROPERTY PolledEndSettles
CHECK_DEADLOCK FALSE
